----------------------------- MODULE SoapAnswer -----------------------------
(***************************************************************************)
(* What becomes of the text of one answer of the SOAP server: it arrives   *)
(* in pieces, readn_fd puts it together in the buffers it has, and         *)
(* analysis_soap_response takes from it what the client is told.           *)
(*                                                                         *)
(* A text is a sequence of tokens, each of which counts as one byte.       *)
(* Where the code runs over the end of a buffer, or follows a pointer that *)
(* strnstr did not find, nothing more is claimed: pc is "undefined".       *)
(* Which of several answers is read is the subject of SoapBackend.         *)
(***************************************************************************)
EXTENDS Integers, Sequences, SequencesExt, FiniteSets, FiniteSetsExt

CONSTANTS MAX_BUF_SIZE,
          Answers, \* what the server may say
          Tails    \* what may lie on the stack behind szBuf, up to a NUL

(* The elements an answer may have.                                        *)
Names == {"result", "other", "faultcode", "faultstring", "detail"}

(* What begins with '<': a declaration, the tags of the elements, the tags *)
(* around them and those behind them.                                      *)
Tags == Names \cup {"<", ">", "/", "<?xml"}

(* What the text of an element has none of: gSOAP encodes it.              *)
Markup == Tags \cup {"?>", "blank line"}

(* The result, the faultstring and the detail are where gSOAP puts them:   *)
(* first, second, and third with nothing else in its place.                *)
WellPlaced(nodes) ==
    /\ \A k \in 1..Len(nodes) :
           /\ nodes[k].name = "result" => k = 1
           /\ nodes[k].name = "faultstring" => k = 2
           /\ nodes[k].name = "detail" => k = 3
    /\ Len(nodes) >= 3 => nodes[3].name = "detail"

(* ok: the header has the status 200.  decl: there is an XML declaration.  *)
(* nodes: the elements inside the first element of the body, each with its *)
(* name and its text.  The header and the declaration, five tokens, do not *)
(* fill a buffer.  Anything may lie behind szBuf but the end of a document,*)
(* with which it could make one of the beginning of an answer.             *)
ASSUME AnswerAssumption ==
    /\ MAX_BUF_SIZE \in Nat /\ MAX_BUF_SIZE > 5
    /\ Tails \subseteq Seq(STRING \ {">"})
    /\ \A a \in Answers :
           /\ a.ok \in BOOLEAN /\ a.decl \in BOOLEAN
           /\ a.nodes \in Seq([name : Names, text : Seq(STRING \ Markup)])
           /\ WellPlaced(a.nodes)

VARIABLES answer,
          resp,     \* the client waits for a response
          air,      \* what has not arrived yet
          stream,   \* what has arrived and not been read
          end,      \* "open", "fin" or "rst": what is behind the stream
          pc,       \* "select", "read", "analyse", "told", "silent", "undefined"
          szBuf,    \* the buffer of readn_fd, up to its first NUL
          szData,   \* what it has put together
          total,    \* totalByte
          told      \* what analysis_soap_response has said, Nothing at first

vars == <<answer, resp, air, stream, end, pc, szBuf, szData, total, told>>
net == <<answer, resp, air, stream, end>>

None == "none"
Nothing == [isOpOk |-> FALSE, msg |-> <<>>, len |-> 0]

-----------------------------------------------------------------------------
(* Texts                                                                   *)

(* The tags around the nodes, and the name, the text and the end of each.  *)
Xml(nodes) ==
    LET upto[k \in 0..Len(nodes)] ==
            IF k = 0 THEN <<"<">> ELSE upto[k - 1] \o <<nodes[k].name>> \o nodes[k].text \o <<"/">>
    IN  Append(upto[Len(nodes)], ">")

Text(a) ==
    <<IF a.ok THEN "200 OK" ELSE "500", "field", "blank line">>
        \o (IF a.decl THEN <<"<?xml", "?>">> ELSE <<>>) \o Xml(a.nodes)

(* The place of the first t within the first len of s, 0 if there is none. *)
strnstr(s, t, len) ==
    LET found == {i \in 1..Len(s) : i <= len /\ s[i] = t}
    IN  IF found = {} THEN 0 ELSE Min(found)

Prefix(s, n) == SubSeq(s, 1, IF n < Len(s) THEN n ELSE Len(s))
Suffix(s, n) == SubSeq(s, n, Len(s))

(* xml_parse_document takes one token after the other, and looks at none   *)
(* behind the document.  Within an element everything up to the next tag   *)
(* is its text; between the tags only white space may be.  "bad": no node  *)
(* is found, or none but those of elements inside others, which no answer  *)
(* has.                                                                    *)
Begin == [at |-> "begin", nodes |-> <<>>, name |-> None, text |-> <<>>]

Take(q, t) ==
    CASE q.at = "begin" /\ t = "<" -> [q EXCEPT !.at = "between"]
      [] q.at = "between" /\ t = ">" -> [q EXCEPT !.at = "done"]
      [] q.at = "between" /\ t \in Names -> [q EXCEPT !.at = "inside", !.name = t, !.text = <<>>]
      [] q.at \in {"begin", "between"} /\ t = "blank line" -> q
      [] q.at = "inside" /\ t = "/" ->
             [q EXCEPT !.at = "between", !.nodes = Append(@, [name |-> q.name, text |-> q.text])]
      [] q.at = "inside" /\ t \notin Tags -> [q EXCEPT !.text = Append(@, t)]
      [] q.at = "done" -> q
      [] OTHER -> [q EXCEPT !.at = "bad"]

(* There is a document when the parser is done in the end.                 *)
xml_parse_document(s) ==
    LET q[n \in 0..Len(s)] == IF n = 0 THEN Begin ELSE Take(q[n - 1], s[n])
    IN  q[Len(s)]

-----------------------------------------------------------------------------
(* analysis_soap_response                                                  *)

(* Where the SOAP text begins, 0 if the header has no end, and beyond the  *)
(* text if the declaration has none.                                       *)
SoapStart(rsp, len) ==
    LET pos == strnstr(rsp, "blank line", len)
    IN  IF pos = 0 THEN 0
        ELSE IF Prefix(Suffix(rsp, pos + 1), 1) # <<"<?xml">> THEN pos + 1
        ELSE LET close == strnstr(Suffix(rsp, pos + 1), "?>", len)
             IN  IF close = 0 THEN Len(rsp) + 2 ELSE pos + close + 1

http_header(rsp, len) == Prefix(rsp, strnstr(rsp, "blank line", len) - 1)

(* len characters are copied, or all there are.                            *)
soap(rsp, len) == Prefix(Suffix(rsp, SoapStart(rsp, len)), len)

(* Slip: the status is looked for in the whole response.                   *)
StatusAnywhere(rsp, len) == strnstr(rsp, "200 OK", len) # 0

get_http_status(rsp, len) ==
    LET header == http_header(rsp, len) IN strnstr(header, "200 OK", Len(header)) # 0

(* Slip: the first node is taken when it is the right one for a result,    *)
(* and the faultstring before the detail otherwise.                        *)
FaultstringFirst(nodes, isOK) ==
    IF isOK THEN IF nodes # <<>> /\ nodes[1].name = "result" THEN nodes[1].text ELSE <<>>
    ELSE IF Len(nodes) >= 2 /\ nodes[2].name \in {"faultstring", "detail"} THEN nodes[2].text ELSE <<>>

(* The text of the result, or of the detail or else the faultstring; empty *)
(* when the node is missing or has another name.                           *)
NodeText(nodes, isOK) ==
    LET k == IF isOK THEN 1 ELSE IF Len(nodes) >= 3 THEN 3 ELSE 2
        right == IF isOK THEN {"result"} ELSE {"faultstring", "detail"}
    IN  IF k <= Len(nodes) /\ nodes[k].name \in right THEN nodes[k].text ELSE <<>>

(* Slip: what follows the first tag is taken, the document not parsed.     *)
TextAfterTag(s, isOK) == SelectSeq(Suffix(s, 3), LAMBDA t : t \notin Markup)

get_soap_content(s, isOK) ==
    LET doc == xml_parse_document(s)
    IN  IF doc.at = "done" THEN NodeText(doc.nodes, isOK) ELSE <<>>

(* What runs over the end of http_header, soap, or the buffer of           *)
(* get_soap_content, and the end of the declaration not found.             *)
Overrun(rsp, len) ==
    LET pos == strnstr(rsp, "blank line", len)
    IN  pos > 0 /\ \/ pos - 1 > MAX_BUF_SIZE
                   \/ SoapStart(rsp, len) > Len(rsp) + 1
                   \/ len > 3 * MAX_BUF_SIZE
                   \/ Len(soap(rsp, len)) > MAX_BUF_SIZE

(* rst_len is the size of the buffer before, and is set only with a text.  *)
Result(isOpOK, msg) ==
    [isOpOk |-> isOpOK, msg |-> msg, len |-> IF msg = <<>> THEN 4 * MAX_BUF_SIZE ELSE Len(msg)]

analysis_soap_response(rsp, len) ==
    IF SoapStart(rsp, len) = 0 THEN Result(FALSE, <<>>)
    ELSE LET isOpOK == get_http_status(rsp, len)
         IN  Result(isOpOK, get_soap_content(soap(rsp, len), isOpOK))

-----------------------------------------------------------------------------

Init ==
    /\ answer \in Answers
    /\ resp \in BOOLEAN
    /\ air = Text(answer)
    /\ stream = <<>>
    /\ end = "open"
    /\ pc = "select"
    /\ szBuf = <<>>
    /\ szData = <<>>
    /\ total = 0
    /\ told = Nothing

(* The next n tokens arrive; the server closes, or the connection breaks,  *)
(* at any time.                                                            *)
Arrive(n) ==
    /\ end = "open"
    /\ n \in 1..Len(air)
    /\ stream' = stream \o SubSeq(air, 1, n)
    /\ air' = Suffix(air, n + 1)
    /\ UNCHANGED <<answer, resp, end, pc, szBuf, szData, total, told>>

End(how) ==
    /\ end = "open"
    /\ end' = how
    /\ UNCHANGED <<answer, resp, air, stream, pc, szBuf, szData, total, told>>

(* readn_fd: select finds something, or gives up after FD_TIMEOUT.         *)
Select ==
    /\ pc = "select"
    /\ IF stream # <<>> \/ end # "open" THEN pc' = "read" ELSE pc' = "silent"
    /\ UNCHANGED <<net, szBuf, szData, total, told>>

(* strcat appends szBuf up to a NUL, with what is behind szBuf when it is  *)
(* full.                                                                   *)
Behind(buf) == IF Len(buf) = MAX_BUF_SIZE THEN Tails ELSE {<<>>}

(* The bytes of a read overwrite the first ones; the rest stays.           *)
Overwrite(buf, bytes) == bytes \o Suffix(buf, Len(bytes) + 1)

(* One round of the loop, with read returning n after bytes.  A total      *)
(* below 0 is beyond nData, as both are compared without a sign.           *)
Round(n, bytes) ==
    LET buf == Overwrite(szBuf, bytes)
        fits == total + n >= 0 /\ total + n < 4 * MAX_BUF_SIZE
    IN  /\ szBuf' = buf
        /\ total' = IF fits THEN total + n ELSE total
        /\ IF fits THEN \E junk \in Behind(buf) : szData' = szData \o buf \o junk
                   ELSE UNCHANGED szData
        /\ pc' = IF Len(szData') >= 4 * MAX_BUF_SIZE THEN "undefined"
                 ELSE IF fits /\ n = MAX_BUF_SIZE THEN "read" ELSE "analyse"

Read ==
    /\ pc = "read"
    /\ stream # <<>>
    /\ LET bytes == Prefix(stream, MAX_BUF_SIZE)
       IN  /\ Round(Len(bytes), bytes)
           /\ stream' = Suffix(stream, Len(bytes) + 1)
    /\ UNCHANGED <<answer, resp, air, end, told>>

(* The end of the stream (0) or an error (-1).                             *)
ReadEnd ==
    /\ pc = "read"
    /\ stream = <<>>
    /\ end # "open"
    /\ Round(IF end = "fin" THEN 0 ELSE -1, <<>>)
    /\ UNCHANGED <<net, told>>

(* write_pipe_or_sock with what readn_fd returned.  szBuf[rst_len] is      *)
(* behind the buffer there when analysis_soap_response has set no rst_len. *)
Analyse ==
    /\ pc = "analyse"
    /\ IF ~resp \/ total = 0 THEN pc' = "silent" /\ UNCHANGED told
       ELSE IF Overrun(szData, total) THEN pc' = "undefined" /\ UNCHANGED told
       ELSE /\ told' = analysis_soap_response(szData, total)
            /\ pc' = IF told'.len = 4 * MAX_BUF_SIZE THEN "undefined" ELSE "told"
    /\ UNCHANGED <<net, szBuf, szData, total>>

Next ==
    \/ \E n \in 1..Len(air) : Arrive(n)
    \/ \E how \in {"fin", "rst"} : End(how)
    \/ Select
    \/ Read
    \/ ReadEnd
    \/ Analyse

Spec == Init /\ [][Next]_vars

-----------------------------------------------------------------------------
(* Correctness                                                             *)

(* What the server has said: its status, and the text meant for the client.*)
MeantText ==
    LET named(name) == {k \in 1..Len(answer.nodes) : answer.nodes[k].name = name}
        there == IF answer.ok THEN named("result")
                 ELSE IF named("detail") # {} THEN named("detail") ELSE named("faultstring")
    IN  IF there = {} THEN <<>> ELSE answer.nodes[Min(there)].text

Meant == [isOpOk |-> answer.ok, msg |-> MeantText, len |-> Len(MeantText)]

(* An answer with a text for the client, of up to MAX_BUF_SIZE bytes and   *)
(* read to its last one, is told to the client as it was meant: it stays   *)
(* inside every buffer, also when it fills the one of readn_fd, which is   *)
(* then appended again, unless what lies behind that one fills szData.     *)
ToldExactly ==
    /\ resp
    /\ pc \in {"told", "silent", "undefined"}
    /\ total = Len(Text(answer)) /\ total <= MAX_BUF_SIZE /\ Len(szData) < 4 * MAX_BUF_SIZE
    /\ MeantText # <<>>
    => pc = "told" /\ told = Meant

(* However little of an answer has been read, analysis_soap_response never *)
(* reports a success that the server has not, whatever the text says.      *)
StatusTrue == told.isOpOk => answer.ok

(* However an answer is cut by the network, its text is taken whole or not *)
(* at all.                                                                 *)
ContentWhole == told.msg \in {<<>>, MeantText}
=============================================================================
