----------------------------- MODULE FrameReader -----------------------------
(***************************************************************************)
(* How the messages of one client are cut out of its byte stream: the      *)
(* loop of read_sock_func with read_normal_sock, recv_peek and readn, and  *)
(* the checks of analysis_message that decide whether a message is used.   *)
(*                                                                         *)
(* TCP delivers the stream in segments.  An edge of epoll queues one read  *)
(* job; several jobs of the same client may run at once, on different      *)
(* workers.  A byte is known by the message it belongs to and its place    *)
(* there; only the two bytes of the header have a value that matters.      *)
(*                                                                         *)
(* The checksum is taken as exact: bytes that are not one whole message    *)
(* are refused (the code's CRC-8 lets one in 256 through to the JSON       *)
(* parser).  A whole message may be refused too, for what it says.         *)
(***************************************************************************)
EXTENDS Naturals, Sequences, SequencesExt, FiniteSetsExt

CONSTANTS Workers,
          Base,      \* what one byte of the header can count: 256
          Settings   \* the clients, networks and pools looked at

HEADSIZE == 2

(* lens: lengths of the client's messages, JSON text and checksum.  cuts:  *)
(* places inside a message where a segment may end.  workers: the pool.    *)
ASSUME FrameAssumption ==
    /\ Base \in Nat \ {0, 1}
    /\ IsFiniteSet(Workers)
    /\ \A s \in Settings :
         /\ s.lens \in Seq(2..Base * Base - 1)
         /\ s.cuts \subseteq Nat
         /\ s.workers \subseteq Workers

VARIABLES setting, \* one of Settings, the same throughout
          sent,    \* messages the client has written
          unsent,  \* bytes of them the network has not delivered yet
          buf,     \* the receive buffer of the socket
          closed,  \* the client has closed, after all its messages
          edge,    \* the socket is on the ready list of epoll
          jobs,    \* read jobs queued
          rd,      \* what each worker is doing
          parsed,  \* the messages analysis_message has accepted, in order
          refused, \* history: the whole messages it has refused
          torn,    \* history: a job took bytes that are not one whole message
          stalled  \* history: a job ended with a refusal, and no segment came since

vars == <<setting, sent, unsent, buf, closed, edge, jobs, rd, parsed, refused, torn, stalled>>

MsgLen == setting.lens
Msgs == 1..Len(MsgLen)

-----------------------------------------------------------------------------
(* Messages                                                                *)

(* The bytes of message i.                                                 *)
Size(i) == HEADSIZE + MsgLen[i]
Frame(i) == [k \in 1..Size(i) |-> [msg |-> i, at |-> k]]

(* The value of a byte: the header counts in base Base, most significant   *)
(* byte first; a byte of the body is text, larger than any first byte of a *)
(* header.                                                                 *)
Value(b) ==
    CASE b.at = 1 -> MsgLen[b.msg] \div Base
      [] b.at = 2 -> MsgLen[b.msg] % Base
      [] OTHER -> Base - 1

(* Over a buffer that was zeroed, of which only some bytes may be filled.  *)
convert_hex_to_int(head) ==
    (IF Len(head) >= 1 THEN Value(head[1]) * Base ELSE 0)
        + (IF Len(head) >= 2 THEN Value(head[2]) ELSE 0)

Idle == [pc |-> "idle"]
Dead == [pc |-> "dead"]   \* the process has died

Alive == \A w \in Workers : rd[w] # Dead

Init ==
    /\ setting \in Settings
    /\ sent = 0
    /\ unsent = <<>>
    /\ buf = <<>>
    /\ closed = FALSE
    /\ edge = FALSE
    /\ jobs = 0
    /\ rd = [w \in Workers |-> Idle]
    /\ parsed = <<>>
    /\ refused = {}
    /\ torn = FALSE
    /\ stalled = FALSE

-----------------------------------------------------------------------------
(* The client, the network and the event loop                              *)

(* The client writes its next message.                                     *)
Send ==
    /\ sent < Len(MsgLen)
    /\ sent' = sent + 1
    /\ unsent' = unsent \o Frame(sent + 1)
    /\ UNCHANGED <<setting, buf, closed, edge, jobs, rd, parsed, refused, torn, stalled>>

(* Where a segment may end: between messages, or at one of the cuts.       *)
SegmentEnds ==
    {n \in 1..Len(unsent) : n = Len(unsent) \/ unsent[n].at \in setting.cuts \/ unsent[n + 1].at = 1}

(* A segment arrives, and an edge with it.                                 *)
Segment(n) ==
    /\ n \in SegmentEnds
    /\ buf' = buf \o SubSeq(unsent, 1, n)
    /\ unsent' = SubSeq(unsent, n + 1, Len(unsent))
    /\ edge' = TRUE
    /\ stalled' = FALSE
    /\ UNCHANGED <<setting, sent, closed, jobs, rd, parsed, refused, torn>>

(* EventLoop has what follows a close; here it only ends the stream.       *)
Close ==
    /\ sent = Len(MsgLen) /\ unsent = <<>>
    /\ ~closed
    /\ closed' = TRUE
    /\ UNCHANGED <<setting, sent, unsent, buf, edge, jobs, rd, parsed, refused, torn, stalled>>

(* epoll_wait reports the edge if there is still something to read, and    *)
(* handle_read queues a job.                                               *)
handle_read ==
    /\ Alive
    /\ edge
    /\ ~closed
    /\ edge' = FALSE
    /\ jobs' = IF buf = <<>> THEN jobs ELSE jobs + 1
    /\ UNCHANGED <<setting, sent, unsent, buf, closed, rd, parsed, refused, torn, stalled>>

-----------------------------------------------------------------------------
(* read_sock_func                                                          *)

Start(w) ==
    /\ w \in setting.workers
    /\ rd[w].pc = "idle"
    /\ jobs > 0
    /\ jobs' = jobs - 1
    /\ rd' = [rd EXCEPT ![w] = [pc |-> "peek"]]
    /\ UNCHANGED <<setting, sent, unsent, buf, closed, edge, parsed, refused, torn, stalled>>

(* recv_peek of the header, of which only one byte may be there.  Nothing  *)
(* to read (EAGAIN), the end of the stream and a size of zero all end the  *)
(* job and leave the bytes where they are.                                 *)
recv_peek(w) ==
    /\ rd[w].pc = "peek"
    /\ LET nLeft == convert_hex_to_int(SubSeq(buf, 1, Min({HEADSIZE, Len(buf)})))
       IN  rd' = [rd EXCEPT ![w] = IF nLeft = 0 THEN Idle
                                   ELSE [pc |-> "readn", left |-> nLeft + HEADSIZE, got |-> <<>>]]
    /\ UNCHANGED <<setting, sent, unsent, buf, closed, edge, jobs, parsed, refused, torn, stalled>>

(* Slip: readn peeks as well, and nothing is taken from the socket.        *)
PeekN(w) ==
    /\ rd[w].pc = "readn"
    /\ LET n == Min({rd[w].left, Len(buf)})
       IN  rd' = [rd EXCEPT ![w].left = 0, ![w].got = SubSeq(buf, 1, n), ![w].pc = "analyse"]
    /\ UNCHANGED <<setting, sent, unsent, buf, closed, edge, jobs, parsed, refused, torn, stalled>>

(* Slip: the loop of readn runs once too often, with a negative count.     *)
ReadTooMuch(w) ==
    /\ rd[w].pc = "readn"
    /\ LET n == Min({rd[w].left, Len(buf)})
       IN  /\ buf' = SubSeq(buf, n + 1, Len(buf))
           /\ rd' = [rd EXCEPT ![w].left = @ - (n + 1),
                               ![w].got = @ \o SubSeq(buf, 1, n),
                               ![w].pc = IF n = 0 THEN "analyse" ELSE "readn"]
    /\ UNCHANGED <<setting, sent, unsent, closed, edge, jobs, parsed, refused, torn, stalled>>

(* One read of readn: as much as is wanted and there.  An empty buffer     *)
(* (EAGAIN, or the end of the stream) makes readn return what it has.      *)
readn(w) ==
    /\ rd[w].pc = "readn"
    /\ LET n == Min({rd[w].left, Len(buf)})
       IN  /\ buf' = SubSeq(buf, n + 1, Len(buf))
           /\ rd' = [rd EXCEPT ![w].left = @ - n,
                               ![w].got = @ \o SubSeq(buf, 1, n),
                               ![w].pc = IF n = 0 \/ n = rd[w].left THEN "analyse" ELSE "readn"]
    /\ UNCHANGED <<setting, sent, unsent, closed, edge, jobs, parsed, refused, torn, stalled>>

Whole(bytes) == \E i \in Msgs : bytes = Frame(i)

(* Slip: the job ends after one message.                                   *)
OneMessage(w) ==
    /\ rd[w].pc = "analyse"
    /\ parsed' = IF Whole(rd[w].got) THEN Append(parsed, rd[w].got[1].msg) ELSE parsed
    /\ rd' = [rd EXCEPT ![w] = Idle]
    /\ UNCHANGED <<setting, sent, unsent, buf, closed, edge, jobs, refused, torn, stalled>>

(* A whole message is used, and the loop goes on, or it is refused, by the *)
(* JSON parser or for one of its commands, and the job ends; anything else *)
(* ends the job too.  A body of no bytes passes the checksum, and the copy *)
(* that follows has the length -1.                                         *)
analysis_message(w) ==
    /\ rd[w].pc = "analyse"
    /\ \/ /\ Whole(rd[w].got)
          /\ parsed' = Append(parsed, rd[w].got[1].msg)
          /\ rd' = [rd EXCEPT ![w] = [pc |-> "peek"]]
          /\ UNCHANGED <<refused, torn, stalled>>
       \/ /\ Whole(rd[w].got)
          /\ refused' = refused \cup {rd[w].got[1].msg}
          /\ rd' = [rd EXCEPT ![w] = Idle]
          /\ stalled' = TRUE
          /\ UNCHANGED <<parsed, torn>>
       \/ /\ ~Whole(rd[w].got) /\ Len(rd[w].got) # HEADSIZE
          /\ rd' = [rd EXCEPT ![w] = Idle]
          /\ torn' = (torn \/ rd[w].got # <<>>)
          /\ UNCHANGED <<parsed, refused, stalled>>
       \/ /\ Len(rd[w].got) = HEADSIZE
          /\ rd' = [v \in Workers |-> Dead]
          /\ torn' = TRUE
          /\ UNCHANGED <<parsed, refused, stalled>>
    /\ UNCHANGED <<setting, sent, unsent, buf, closed, edge, jobs>>

-----------------------------------------------------------------------------

read_sock_func(w) == Start(w) \/ recv_peek(w) \/ readn(w) \/ analysis_message(w)

Next ==
    \/ Send
    \/ \E n \in 1..Len(unsent) : Segment(n)
    \/ Close
    \/ handle_read
    \/ \E w \in Workers : read_sock_func(w)

Spec == Init /\ [][Next]_vars

(* The network delivers what was sent and the threads run; nothing is      *)
(* assumed of when the client sends and closes.                            *)
FairSpec ==
    /\ Spec
    /\ WF_vars(\E n \in 1..Len(unsent) : Segment(n))
    /\ WF_vars(handle_read)
    /\ \A w \in Workers : WF_vars(read_sock_func(w))

-----------------------------------------------------------------------------
(* Correctness                                                             *)

Byte == {b \in [msg : Msgs, at : Nat] : b.at \in 1..Size(b.msg)}

Job == {Idle, [pc |-> "peek"], Dead}
       \cup [pc : {"readn"}, left : 1..Base * Base + 1, got : Seq(Byte)]
       \cup [pc : {"analyse"}, left : 0..Base * Base + 1, got : Seq(Byte)]

(* The type of every variable, and that no worker waits for more than one  *)
(* header can announce.                                                    *)
TypeOK ==
    /\ setting \in Settings
    /\ sent \in 0..Len(MsgLen)
    /\ unsent \in Seq(Byte) /\ buf \in Seq(Byte)
    /\ closed \in BOOLEAN /\ edge \in BOOLEAN /\ torn \in BOOLEAN /\ stalled \in BOOLEAN
    /\ jobs \in Nat
    /\ parsed \in Seq(Msgs) /\ refused \subseteq Msgs
    /\ rd \in [Workers -> Job]

(* One worker uses the messages of a client in the order they were sent.   *)
InOrder ==
    Cardinality(setting.workers) = 1 =>
        \A j, k \in 1..Len(parsed) : j < k => parsed[j] < parsed[k]

(* No message is used twice, or both used and refused, and none that was   *)
(* not sent, however segments are cut and whatever jobs of the same client *)
(* peek and read between each other's calls.                               *)
UsedOnce ==
    /\ \A j, k \in 1..Len(parsed) : parsed[j] = parsed[k] => j = k
    /\ \A k \in 1..Len(parsed) : parsed[k] <= sent /\ parsed[k] \notin refused

(* Every message the client sends is used or refused in the end, several   *)
(* in one job or one in several edges, unless the client closes first, a   *)
(* job took bytes that are not one message, or a job ended with a refusal  *)
(* and what was behind the refused message waits for the next segment.     *)
AllParsed ==
    <>[](Range(parsed) \cup refused = 1..sent \/ closed \/ torn \/ (stalled /\ buf # <<>>))
=============================================================================
