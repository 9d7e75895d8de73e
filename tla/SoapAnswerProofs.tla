------------------------- MODULE SoapAnswerProofs --------------------------
(***************************************************************************)
(* What the client is told of an answer of the SOAP server, proved for     *)
(* answers and buffers of any length, and for every way in which the       *)
(* network cuts an answer.                                                 *)
(***************************************************************************)
EXTENDS SoapAnswer, WellFoundedInduction, SequenceTheorems, TLAPS

-----------------------------------------------------------------------------
(* Numbers and sequences                                                   *)

(* Every set of numbers has a least element.                               *)
LEMMA LeastNumber ==
    ASSUME NEW T \in SUBSET Nat, T # {}
    PROVE  \E x \in T : \A y \in T : x <= y
  <1>1. IsWellFoundedOn(OpToRel(<, Nat), Nat)
    BY NatLessThanWellFounded
  <1>2. PICK x \in T : \A y \in T : ~ (<<y, x>> \in OpToRel(<, Nat))
    BY <1>1, WFMin
  <1>3. \A y \in T : ~ (y < x)
    BY <1>2 DEF OpToRel
  <1> QED
    BY <1>3

(* What has 0, and with every number the next one, has all numbers.        *)
LEMMA SetInduction ==
    ASSUME NEW S, 0 \in S, \A n \in Nat : n \in S => n + 1 \in S
    PROVE  \A n \in Nat : n \in S
  <1> SUFFICES ASSUME \E n \in Nat : n \notin S
               PROVE  FALSE
    OBVIOUS
  <1> DEFINE T == {n \in Nat : n \notin S}
  <1>1. PICK x \in T : \A y \in T : x <= y
    <2>1. T \in SUBSET Nat /\ T # {}
      OBVIOUS
    <2> QED
      BY <2>1, LeastNumber
  <1>2. x # 0 /\ x \in Nat
    OBVIOUS
  <1>3. x - 1 \in Nat /\ x - 1 \notin T
    BY <1>1, <1>2
  <1>4. x - 1 \in S
    BY <1>3
  <1>5. (x - 1) + 1 = x
    BY <1>2
  <1> QED
    BY <1>3, <1>4, <1>5

(* f begins with z and goes on in steps.                                   *)
Follows(f, S, z, step, N) ==
    /\ f \in [0..N -> S]
    /\ f[0] = z
    /\ \A n \in 1..N : f[n] = step[n][f[n - 1]]

(* A function may be defined by what it is at 0 and by a step from each    *)
(* number to the next.                                                     *)
LEMMA Recursion ==
    ASSUME NEW S, NEW z \in S, NEW step \in [Nat -> [S -> S]], NEW N \in Nat
    PROVE  \E f : Follows(f, S, z, step, N)
  <1> DEFINE Good(m, f) == f[0] = z /\ \A n \in 1..m : f[n] = step[n][f[n - 1]]
  <1> DEFINE G == {m \in Nat : \E f \in [0..m -> S] : Good(m, f)}
  <1>1. 0 \in G
    <2>1. [n \in 0..0 |-> z] \in [0..0 -> S]
      OBVIOUS
    <2>2. Good(0, [n \in 0..0 |-> z])
      OBVIOUS
    <2> QED
      BY <2>1, <2>2
  <1>2. ASSUME NEW m \in Nat, m \in G
        PROVE  m + 1 \in G
    <2>1. PICK f \in [0..m -> S] : Good(m, f)
      BY <1>2
    <2> DEFINE g == [n \in 0..m + 1 |-> IF n = m + 1 THEN step[m + 1][f[m]] ELSE f[n]]
    <2>2. f[m] \in S /\ step[m + 1][f[m]] \in S
      OBVIOUS
    <2>3. g \in [0..m + 1 -> S]
      BY <2>2
    <2>4. g[0] = z
      BY <2>1
    <2>5. ASSUME NEW n \in 1..m + 1
          PROVE  g[n] = step[n][g[n - 1]]
      <3>1. CASE n = m + 1
        BY <3>1
      <3>2. CASE n # m + 1
        <4>1. n \in 1..m /\ n - 1 \in 0..m /\ n - 1 # m + 1
          BY <3>2
        <4>2. g[n] = f[n] /\ g[n - 1] = f[n - 1]
          BY <4>1
        <4> QED
          BY <4>1, <4>2, <2>1
      <3> QED
        BY <3>1, <3>2
    <2>6. Good(m + 1, g)
      BY <2>4, <2>5
    <2> HIDE DEF g, Good
    <2> QED
      BY <2>3, <2>6
  <1>3. N \in G
    <2> HIDE DEF G
    <2> QED
      BY <1>1, <1>2, SetInduction
  <1>4. PICK f \in [0..N -> S] : Good(N, f)
    BY <1>3
  <1> QED
    BY <1>4 DEF Follows

(* A function on the first n numbers is a sequence of n elements.          *)
LEMMA FunctionIsSeq ==
    ASSUME NEW S, NEW n \in Nat, NEW f \in [1..n -> S]
    PROVE  f \in Seq(S) /\ Len(f) = n
  <1>1. f \in Seq(S)
    BY SeqDef
  <1>2. Len(f) \in Nat /\ DOMAIN f = 1..Len(f)
    BY <1>1, LenProperties
  <1>3. 1..Len(f) = 1..n
    BY <1>2
  <1>4. Len(f) = n
    BY <1>2, <1>3
  <1> QED
    BY <1>1, <1>4

(* What Append does to a sequence of n elements.                           *)
LEMMA AppendFacts ==
    ASSUME NEW S, NEW s \in Seq(S), NEW n \in Nat, Len(s) = n, NEW e \in S
    PROVE  /\ Append(s, e) \in Seq(S) /\ Len(Append(s, e)) = n + 1
           /\ Append(s, e)[n + 1] = e
           /\ \A i \in 1..n : Append(s, e)[i] = s[i]
  BY AppendProperties

(* A sequence of n elements is a function on the first n numbers.          *)
LEMMA SeqIsFunction ==
    ASSUME NEW S, NEW s \in Seq(S), NEW n \in Nat, Len(s) = n
    PROVE  s \in [1..n -> S]
  BY LenProperties

(* u is s, of m elements, and t, of n elements, behind it.                 *)
Joined(u, s, m, t, n) ==
    /\ Len(u) = m + n
    /\ \A i \in 1..m : u[i] = s[i]
    /\ \A i \in 1..n : u[m + i] = t[i]

(* What two sequences make together.                                       *)
LEMMA ConcatFacts ==
    ASSUME NEW S, NEW s \in Seq(S), NEW m \in Nat, Len(s) = m, NEW t \in Seq(S), NEW n \in Nat, Len(t) = n
    PROVE  s \o t \in Seq(S) /\ Joined(s \o t, s, m, t, n)
  <1> DEFINE u == s \o t
  <1>1. /\ u \in Seq(S) /\ Len(u) = m + n
        /\ \A i \in 1..m + n : u[i] = IF i <= m THEN s[i] ELSE t[i - m]
    BY ConcatProperties
  <1> HIDE DEF u
  <1>2. ASSUME NEW i \in 1..m
        PROVE  u[i] = s[i]
    <2>1. i \in 1..m + n /\ i <= m
      OBVIOUS
    <2> QED
      BY <1>1, <2>1
  <1>3. ASSUME NEW i \in 1..n
        PROVE  u[m + i] = t[i]
    <2>1. m + i \in 1..m + n /\ ~ (m + i <= m) /\ (m + i) - m = i
      OBVIOUS
    <2> QED
      BY <1>1, <2>1
  <1> QED
    BY <1>1, <1>2, <1>3 DEF Joined, u

-----------------------------------------------------------------------------
(* The document                                                            *)

(* A token; the provers have to be told that those in quotes are strings.  *)
Token == STRING \cup Markup \cup {"200 OK", "500", "field", "none"}

(* The empty text and the empty list of nodes.                             *)
LEMMA Empty == \E e : e = <<>> /\ e \in Seq(Token) /\ e \in Seq([name : Token, text : Seq(Token)])
  <1>1. <<>> \in Seq(Token)
    BY EmptySeq
  <1>2. <<>> \in Seq([name : Token, text : Seq(Token)])
    BY EmptySeq
  <1> QED
    BY <1>1, <1>2

(* A node of an answer, and a state of the parser.                         *)
Node == [name : Names, text : Seq(STRING \ Markup)]
Place == {"begin", "between", "inside", "done", "bad"}
State == [at : Place, nodes : Seq([name : Token, text : Seq(Token)]), name : Token, text : Seq(Token)]

(* The parser is in one of its states after every token.                   *)
LEMMA TakeType ==
    ASSUME NEW q \in State, NEW t \in Token
    PROVE  Take(q, t) \in State
  <1>1. CASE q.at = "begin"
    <2>1. [q EXCEPT !.at = "between"] \in State /\ [q EXCEPT !.at = "bad"] \in State
      BY DEF State, Place
    <2> QED
      BY <1>1, <2>1 DEF Take
  <1>2. CASE q.at = "between"
    <2>1. PICK e : e = <<>> /\ e \in Seq(Token)
      BY Empty
    <2>2. [q EXCEPT !.at = "inside", !.name = t, !.text = e] \in State
      BY <2>1 DEF State, Place
    <2>3. [q EXCEPT !.at = "done"] \in State /\ [q EXCEPT !.at = "bad"] \in State
      BY DEF State, Place
    <2> QED
      BY <1>2, <2>1, <2>2, <2>3 DEF Take, Names
  <1>3. CASE q.at = "inside"
    <2>1. [name |-> q.name, text |-> q.text] \in [name : Token, text : Seq(Token)]
      BY DEF State
    <2>2. Append(q.nodes, [name |-> q.name, text |-> q.text]) \in Seq([name : Token, text : Seq(Token)])
      BY <2>1, AppendProperties DEF State
    <2>3. Append(q.text, t) \in Seq(Token)
      BY AppendProperties DEF State
    <2> QED
      BY <1>3, <2>2, <2>3 DEF Take, State, Place
  <1>4. CASE q.at \in {"done", "bad"}
    BY <1>4 DEF Take, State, Place
  <1> QED
    BY <1>1, <1>2, <1>3, <1>4 DEF State, Place

(* What the parser does with a token it expects, or with any.              *)
LEMMA TakeFacts ==
    ASSUME NEW q \in State, NEW t \in Token
    PROVE  /\ q.at = "begin" /\ t = "<" => Take(q, t) = [q EXCEPT !.at = "between"]
           /\ q.at = "between" /\ t = ">" => Take(q, t) = [q EXCEPT !.at = "done"]
           /\ q.at = "between" /\ t \in Names =>
                  Take(q, t) = [q EXCEPT !.at = "inside", !.name = t, !.text = <<>>]
           /\ q.at = "inside" /\ t = "/" =>
                  Take(q, t) = [q EXCEPT !.at = "between", !.nodes = Append(@, [name |-> q.name, text |-> q.text])]
           /\ q.at = "inside" /\ t \notin Markup => Take(q, t) = [q EXCEPT !.text = Append(@, t)]
           /\ q.at = "done" => Take(q, t) = q
           /\ q.at # "done" /\ t # ">" => Take(q, t).at # "done"
  <1>1. q.at = "begin" /\ t = "<" => Take(q, t) = [q EXCEPT !.at = "between"]
    BY DEF Take
  <1>2. q.at = "between" /\ t = ">" => Take(q, t) = [q EXCEPT !.at = "done"]
    BY DEF Take, Names
  <1>3. q.at = "between" /\ t \in Names => Take(q, t) = [q EXCEPT !.at = "inside", !.name = t, !.text = <<>>]
    BY DEF Take, Names
  <1>4. q.at = "inside" /\ t = "/" =>
            Take(q, t) = [q EXCEPT !.at = "between", !.nodes = Append(@, [name |-> q.name, text |-> q.text])]
    BY DEF Take, Markup, Tags
  <1>5. q.at = "inside" /\ t \notin Markup => Take(q, t) = [q EXCEPT !.text = Append(@, t)]
    BY DEF Take, Markup, Tags
  <1>6. q.at = "done" => Take(q, t) = q
    BY DEF Take
  <1>7. ASSUME q.at # "done", t # ">"
        PROVE  Take(q, t).at # "done"
    <2>1. CASE q.at = "begin"
      BY <1>7, <2>1 DEF Take, State
    <2>2. CASE q.at = "between"
      BY <1>7, <2>2 DEF Take, State
    <2>3. CASE q.at = "inside"
      BY <1>7, <2>3 DEF Take, State
    <2>4. CASE q.at = "bad"
      BY <1>7, <2>4 DEF Take, State
    <2> QED
      BY <1>7, <2>1, <2>2, <2>3, <2>4 DEF State, Place
  <1> QED
    BY <1>1, <1>2, <1>3, <1>4, <1>5, <1>6, <1>7

(* The states in which the parser is after each of N tokens.               *)
IsParse(q, s, N) ==
    /\ q \in [0..N -> State]
    /\ q[0] = Begin
    /\ \A n \in 1..N : q[n] = Take(q[n - 1], s[n])

(* xml_parse_document goes through such states.                            *)
LEMMA ParseRun ==
    ASSUME NEW s \in Seq(Token), NEW N \in Nat, Len(s) = N
    PROVE  \E q : IsParse(q, s, N) /\ xml_parse_document(s) = q[N]
  <1> DEFINE F(f) == [n \in 0..N |-> IF n = 0 THEN Begin ELSE Take(f[n - 1], s[n])]
             step == [n \in Nat |-> [r \in State |-> IF n \in 1..N THEN Take(r, s[n]) ELSE r]]
  <1>1. \A n \in 1..N : s[n] \in Token
    OBVIOUS
  <1>2. step \in [Nat -> [State -> State]]
    BY <1>1, TakeType
  <1>3. Begin \in State
    <2>1. PICK e : e = <<>> /\ e \in Seq(Token) /\ e \in Seq([name : Token, text : Seq(Token)])
      BY Empty
    <2>2. [at |-> "begin", nodes |-> e, name |-> "none", text |-> e] \in State
      <3>1. "none" \in Token /\ "begin" \in Place
        BY DEF Place, Token
      <3> QED
        BY <2>1, <3>1 DEF State
    <2> QED
      BY <2>1, <2>2 DEF Begin, None
  <1>4. PICK g : Follows(g, State, Begin, step, N)
    <2> HIDE DEF step
    <2> QED
      BY <1>2, <1>3, Recursion
  <1>5. g \in [0..N -> State] /\ g[0] = Begin /\ \A n \in 1..N : g[n] = step[n][g[n - 1]]
    BY <1>4 DEF Follows
  <1>6. ASSUME NEW n \in 1..N
        PROVE  g[n] = Take(g[n - 1], s[n])
    <2>1. n \in Nat /\ n - 1 \in 0..N
      OBVIOUS
    <2>2. g[n - 1] \in State
      BY <1>5, <2>1
    <2>3. step[n][g[n - 1]] = Take(g[n - 1], s[n])
      BY <2>1, <2>2
    <2> HIDE DEF step
    <2> QED
      BY <1>5, <2>3
  <1> HIDE DEF step
  <1>7. g = F(g)
    <2>1. \A n \in 0..N : n # 0 => n \in 1..N
      OBVIOUS
    <2>2. \A n \in 0..N : g[n] = IF n = 0 THEN Begin ELSE Take(g[n - 1], s[n])
      BY <1>5, <1>6, <2>1
    <2> QED
      BY <1>5, <2>2
  <1> DEFINE c == CHOOSE f : f = F(f)
  <1>8. c = F(c)
    <2> HIDE DEF F
    <2> QED
      BY <1>7
  <1>9. xml_parse_document(s) = c[N]
    BY DEF xml_parse_document
  <1> HIDE DEF c
  <1>10. /\ c[0] = Begin
         /\ \A n \in 1..N : c[n] = Take(c[n - 1], s[n])
    <2>1. 0 \in 0..N /\ \A n \in 1..N : n \in 0..N /\ n # 0
      OBVIOUS
    <2>2. \A n \in 0..N : c[n] = IF n = 0 THEN Begin ELSE Take(c[n - 1], s[n])
      BY <1>8
    <2> QED
      BY <2>1, <2>2
  <1> DEFINE P == {n \in Nat : n <= N => c[n] \in State}
  <1>11. 0 \in P
    BY <1>3, <1>10
  <1>12. ASSUME NEW n \in Nat, n \in P
         PROVE  n + 1 \in P
    <2> SUFFICES ASSUME n + 1 <= N
                 PROVE  c[n + 1] \in State
      OBVIOUS
    <2>1. n + 1 \in 1..N /\ (n + 1) - 1 = n /\ c[n] \in State
      BY <1>12
    <2> QED
      BY <1>1, <1>10, <2>1, TakeType
  <1>13. \A n \in Nat : n \in P
    <2> HIDE DEF P
    <2> QED
      BY <1>11, <1>12, SetInduction
  <1>14. c \in [0..N -> State]
    <2>1. \A n \in 0..N : c[n] \in State
      BY <1>13
    <2> QED
      BY <1>8, <2>1
  <1> QED
    BY <1>9, <1>10, <1>14 DEF IsParse

(* One more token.                                                         *)
LEMMA ParseStep ==
    ASSUME NEW s \in Seq(Token), NEW N \in Nat, Len(s) = N, NEW q, IsParse(q, s, N), NEW n \in Nat, n + 1 <= N
    PROVE  /\ q[n] \in State /\ q[n + 1] \in State /\ s[n + 1] \in Token
           /\ q[n + 1] = Take(q[n], s[n + 1])
  <1>1. n \in 0..N /\ n + 1 \in 0..N /\ n + 1 \in 1..N /\ (n + 1) - 1 = n
    OBVIOUS
  <1> QED
    BY <1>1 DEF IsParse

(* Without the end of the first element there is no document.              *)
LEMMA NoEndNoDocument ==
    ASSUME NEW s \in Seq(Token), \A n \in 1..Len(s) : s[n] # ">"
    PROVE  xml_parse_document(s).at # "done"
  <1>1. PICK N \in Nat : Len(s) = N
    OBVIOUS
  <1>2. PICK q : IsParse(q, s, N) /\ xml_parse_document(s) = q[N]
    BY <1>1, ParseRun
  <1> DEFINE P == {n \in Nat : n <= N => q[n].at # "done"}
  <1>3. 0 \in P
    BY <1>2 DEF IsParse, Begin
  <1>4. ASSUME NEW n \in Nat, n \in P
        PROVE  n + 1 \in P
    <2> SUFFICES ASSUME n + 1 <= N
                 PROVE  q[n + 1].at # "done"
      OBVIOUS
    <2>1. q[n].at # "done" /\ n + 1 \in 1..N
      BY <1>4
    <2>2. s[n + 1] # ">"
      BY <1>1, <2>1
    <2> HIDE DEF P
    <2>3. q[n] \in State /\ s[n + 1] \in Token /\ q[n + 1] = Take(q[n], s[n + 1])
      BY <1>1, <1>2, ParseStep
    <2> DEFINE r == q[n]
               t == s[n + 1]
    <2> HIDE DEF r, t
    <2>4. Take(r, t).at # "done"
      BY <2>1, <2>2, <2>3, TakeFacts DEF r, t
    <2> QED
      BY <2>3, <2>4 DEF r, t
  <1>5. N \in P
    <2> HIDE DEF P
    <2> QED
      BY <1>3, <1>4, SetInduction
  <1> QED
    BY <1>2, <1>5

(* The parser has the first k nodes.                                       *)
Between(r, nodes, k) == r.at = "between" /\ Len(r.nodes) = k /\ \A i \in 1..k : r.nodes[i] = nodes[i]

(* It has the nodes in old, a name, and the first j tokens of a text.      *)
Inside(r, old, name, text, j) ==
    /\ r.at = "inside" /\ r.nodes = old /\ r.name = name
    /\ Len(r.text) = j /\ \A i \in 1..j : r.text[i] = text[i]

(* The tokens of a text.                                                   *)
LEMMA TextTokens ==
    ASSUME NEW nd \in Node
    PROVE  /\ nd.name \in Names /\ nd.name \in Token
           /\ nd.text \in Seq(Token)
           /\ \A j \in 1..Len(nd.text) : nd.text[j] \in Token /\ nd.text[j] \notin Markup
  <1>1. nd.name \in Names /\ nd.text \in Seq(STRING \ Markup)
    BY DEF Node
  <1>2. nd.name \in Token
    BY <1>1 DEF Token, Markup, Tags
  <1>3. PICK m \in Nat : m = Len(nd.text)
    BY <1>1
  <1>4. nd.text \in [1..m -> STRING \ Markup]
    BY <1>1, <1>3, SeqIsFunction
  <1>5. \A j \in 1..m : nd.text[j] \in Token /\ nd.text[j] \notin Markup
    BY <1>4 DEF Token
  <1>6. nd.text \in [1..m -> Token]
    BY <1>4, <1>5
  <1>7. nd.text \in Seq(Token)
    BY <1>6, FunctionIsSeq
  <1> QED
    BY <1>1, <1>2, <1>3, <1>5, <1>7

(* A name begins a node.                                                   *)
LEMMA NameTaken ==
    ASSUME NEW r \in State, r.at = "between", NEW name \in Names, NEW text
    PROVE  Inside(Take(r, name), r.nodes, name, text, 0)
  <1>1. name \in Token
    BY DEF Token, Markup, Tags
  <1>2. Take(r, name) = [r EXCEPT !.at = "inside", !.name = name, !.text = <<>>]
    BY <1>1, TakeFacts
  <1>3. /\ Take(r, name).at = "inside" /\ Take(r, name).name = name /\ Take(r, name).text = <<>>
        /\ Take(r, name).nodes = r.nodes
    BY <1>2 DEF State
  <1>4. Len(Take(r, name).text) = 0
    BY <1>3
  <1> HIDE DEF State
  <1> QED
    BY <1>3, <1>4 DEF Inside

(* A token of the text is added to it.                                     *)
LEMMA TokenTaken ==
    ASSUME NEW r \in State, NEW old, NEW name, NEW text, NEW j \in Nat, Inside(r, old, name, text, j),
           NEW x \in Token, x \notin Markup, x = text[j + 1]
    PROVE  Inside(Take(r, x), old, name, text, j + 1)
  <1>1. r.at = "inside" /\ r.nodes = old /\ r.name = name /\ Len(r.text) = j /\ \A i \in 1..j : r.text[i] = text[i]
    BY DEF Inside
  <1>2. Take(r, x) = [r EXCEPT !.text = Append(@, x)]
    <2>1. r.at = "inside"
      BY <1>1
    <2> QED
      BY <2>1 DEF Take, Markup, Tags
  <1>3. /\ Take(r, x).at = "inside" /\ Take(r, x).name = name /\ Take(r, x).nodes = old
        /\ Take(r, x).text = Append(r.text, x)
    BY <1>1, <1>2 DEF State
  <1>4. r.text \in Seq(Token)
    BY DEF State
  <1> DEFINE u == Append(r.text, x)
             w == r.text
  <1> HIDE DEF w
  <1>5. w \in Seq(Token) /\ Len(w) = j /\ \A i \in 1..j : w[i] = text[i]
    BY <1>1, <1>4 DEF w
  <1>6. u = Append(w, x)
    BY DEF w
  <1>7. Len(u) = j + 1 /\ u[j + 1] = x /\ \A i \in 1..j : u[i] = w[i]
    BY <1>5, <1>6, AppendFacts
  <1> HIDE DEF u
  <1>8. \A i \in 1..j + 1 : u[i] = text[i]
    <2> TAKE i \in 1..j + 1
    <2>1. i \in 1..j \/ i = j + 1
      OBVIOUS
    <2> QED
      BY <1>5, <1>7, <2>1
  <1> QED
    BY <1>3, <1>7, <1>8 DEF Inside, u

(* The end of a node.                                                      *)
LEMMA EndTaken ==
    ASSUME NEW r \in State, NEW nd \in Node, NEW nodes, NEW k \in Nat, nodes[k + 1] = nd,
           NEW old, Len(old) = k, \A i \in 1..k : old[i] = nodes[i],
           Inside(r, old, nd.name, nd.text, Len(nd.text))
    PROVE  Between(Take(r, "/"), nodes, k + 1)
  <1>1. /\ r.at = "inside" /\ r.nodes = old /\ r.name = nd.name
        /\ Len(r.text) = Len(nd.text) /\ \A i \in 1..Len(nd.text) : r.text[i] = nd.text[i]
    BY DEF Inside
  <1>2. "/" \in Token
    BY DEF Token, Markup, Tags
  <1>3. r.text \in Seq(Token) /\ r.nodes \in Seq([name : Token, text : Seq(Token)]) /\ r.name \in Token
    BY DEF State
  <1>4. nd.text \in Seq(Token)
    BY TextTokens
  <1>5. r.text = nd.text
    <2> DEFINE a == r.text
               b == nd.text
    <2>1. a \in Seq(Token) /\ b \in Seq(Token) /\ Len(a) = Len(b) /\ \A i \in 1..Len(a) : a[i] = b[i]
      BY <1>1, <1>3, <1>4
    <2> HIDE DEF a, b
    <2>2. a = b
      BY <2>1, SeqEqual
    <2> QED
      BY <2>2 DEF a, b
  <1>6. [name |-> r.name, text |-> r.text] = nd
    BY <1>1, <1>5 DEF Node
  <1>7. Take(r, "/") = [r EXCEPT !.at = "between", !.nodes = Append(@, [name |-> r.name, text |-> r.text])]
    BY <1>1, <1>2, TakeFacts
  <1> DEFINE e == [name |-> r.name, text |-> r.text]
             x == Take(r, "/")
  <1>8. e \in [name : Token, text : Seq(Token)]
    BY <1>3
  <1>9. x = [r EXCEPT !.at = "between", !.nodes = Append(@, e)]
    BY <1>7
  <1>10. e = nd
    BY <1>6
  <1> HIDE DEF e, x
  <1>11. x.at = "between" /\ x.nodes = Append(old, e)
    BY <1>1, <1>9 DEF State
  <1> DEFINE S == [name : Token, text : Seq(Token)]
             u == Append(old, e)
  <1>12. old \in Seq(S) /\ e \in S
    BY <1>1, <1>3, <1>8
  <1> HIDE DEF S
  <1>13. Len(u) = k + 1 /\ u[k + 1] = e /\ \A i \in 1..k : u[i] = old[i]
    BY <1>12, AppendFacts
  <1> HIDE DEF u
  <1>14. \A i \in 1..k + 1 : u[i] = nodes[i]
    <2> TAKE i \in 1..k + 1
    <2>1. i \in 1..k \/ i = k + 1
      OBVIOUS
    <2> QED
      BY <1>10, <1>13, <2>1
  <1> QED
    BY <1>11, <1>13, <1>14 DEF Between, u, x

(* Behind place n, s goes on with a node.                                  *)
Spells(s, n, nd) ==
    /\ s[n + 1] = nd.name
    /\ \A j \in 1..Len(nd.text) : s[(n + 1) + j] = nd.text[j]
    /\ s[((n + 1) + Len(nd.text)) + 1] = "/"

(* A node is taken from its name to its end.                               *)
LEMMA NodeTaken ==
    ASSUME NEW s \in Seq(Token), NEW N \in Nat, Len(s) = N, NEW q, IsParse(q, s, N),
           NEW nd \in Node, NEW nodes, NEW k \in Nat, nodes[k + 1] = nd,
           NEW n \in Nat, NEW m \in Nat, Len(nd.text) = m, ((n + 1) + m) + 1 <= N,
           Spells(s, n, nd), Between(q[n], nodes, k)
    PROVE  Between(q[((n + 1) + m) + 1], nodes, k + 1)
  <1> DEFINE old == q[n].nodes
             P == {j \in Nat : j <= m => Inside(q[(n + 1) + j], old, nd.name, nd.text, j)}
  <1>1. q[n].at = "between" /\ Len(old) = k /\ \A i \in 1..k : old[i] = nodes[i]
    BY DEF Between
  <1> HIDE DEF old
  <1>2. ASSUME NEW i \in Nat, i + 1 <= N
        PROVE  q[i] \in State /\ q[i + 1] = Take(q[i], s[i + 1])
    <2>1. i \in 0..N /\ i + 1 \in 1..N /\ (i + 1) - 1 = i
      BY <1>2
    <2> QED
      BY <2>1 DEF IsParse
  <1>3. /\ nd.name \in Names
        /\ \A j \in 1..m : nd.text[j] \in Token /\ nd.text[j] \notin Markup
    BY TextTokens
  <1>4. 0 \in P
    <2>1. n + 1 <= N /\ (n + 1) + 0 = n + 1
      OBVIOUS
    <2>2. q[n] \in State /\ q[n + 1] = Take(q[n], nd.name)
      BY <1>2, <2>1 DEF Spells
    <2>3. Inside(Take(q[n], nd.name), q[n].nodes, nd.name, nd.text, 0)
      BY <1>1, <1>3, <2>2, NameTaken
    <2> QED
      BY <2>1, <2>2, <2>3 DEF old
  <1>5. ASSUME NEW j \in Nat, j \in P
        PROVE  j + 1 \in P
    <2> SUFFICES ASSUME j + 1 <= m
                 PROVE  Inside(q[(n + 1) + (j + 1)], old, nd.name, nd.text, j + 1)
      OBVIOUS
    <2>1. PICK i \in Nat : i = (n + 1) + j
      OBVIOUS
    <2>2. i + 1 <= N /\ (n + 1) + (j + 1) = i + 1 /\ j + 1 \in 1..m
      BY <2>1
    <2>3. Inside(q[i], old, nd.name, nd.text, j)
      BY <1>5, <2>1
    <2>4. s[i + 1] = nd.text[j + 1]
      BY <2>2 DEF Spells
    <2>5. q[i] \in State /\ q[i + 1] = Take(q[i], s[i + 1])
      BY <1>2, <2>2
    <2> DEFINE r == q[i]
               x == s[i + 1]
    <2>6. r \in State /\ x \in Token /\ x \notin Markup
      BY <1>3, <2>2, <2>4, <2>5
    <2> HIDE DEF r, x, P
    <2>7. Inside(Take(r, x), old, nd.name, nd.text, j + 1)
      BY <2>3, <2>4, <2>6, TokenTaken DEF r, x
    <2> QED
      BY <2>2, <2>5, <2>7 DEF r, x
  <1>6. m \in P
    <2> HIDE DEF P
    <2> QED
      BY <1>4, <1>5, SetInduction
  <1>7. PICK i \in Nat : i = (n + 1) + m
    OBVIOUS
  <1>8. Inside(q[i], old, nd.name, nd.text, m)
    BY <1>6, <1>7
  <1> HIDE DEF P
  <1>9. q[i] \in State /\ q[i + 1] = Take(q[i], "/")
    BY <1>2, <1>7 DEF Spells
  <1> DEFINE r == q[i]
  <1> HIDE DEF r
  <1>10. r \in State /\ Inside(r, old, nd.name, nd.text, Len(nd.text))
    BY <1>8, <1>9 DEF r
  <1>11. Between(Take(r, "/"), nodes, k + 1)
    BY <1>1, <1>10, EndTaken
  <1> QED
    BY <1>7, <1>9, <1>11 DEF r

(* s and w begin with the same n tokens.                                   *)
Agree(s, w, n) == \A i \in 1..n : s[i] = w[i]

(* v with a node behind it.                                                *)
Longer(v, nd) == v \o <<nd.name>> \o nd.text \o <<"/">>

(* A sequence of a single token.                                           *)
LEMMA Single ==
    ASSUME NEW x \in Token
    PROVE  <<x>> \in Seq(Token) /\ Len(<<x>>) = 1 /\ <<x>>[1] = x
  OBVIOUS

(* A sequence of three.                                                    *)
LEMMA Triple ==
    ASSUME NEW x \in Token, NEW y \in Token, NEW z \in Token
    PROVE  /\ <<x, y, z>> \in Seq(Token) /\ Len(<<x, y, z>>) = 3
           /\ <<x, y, z>>[1] = x /\ <<x, y, z>>[2] = y /\ <<x, y, z>>[3] = z
  OBVIOUS

(* What is behind v then.                                                  *)
LEMMA LongerFacts ==
    ASSUME NEW v \in Seq(Token), NEW n \in Nat, Len(v) = n, NEW nd \in Node, NEW m \in Nat, Len(nd.text) = m
    PROVE  /\ Longer(v, nd) \in Seq(Token) /\ Len(Longer(v, nd)) = ((n + 1) + m) + 1
           /\ Agree(Longer(v, nd), v, n) /\ Spells(Longer(v, nd), n, nd)
  <1>1. PICK one \in Nat : one = 1
    OBVIOUS
  <1>2. nd.name \in Token /\ nd.text \in Seq(Token) /\ "/" \in Token
    BY TextTokens DEF Token, Markup, Tags
  <1> DEFINE a == <<nd.name>>
             b == nd.text
             c == <<"/">>
             x == v \o a
             y == x \o b
             z == y \o c
  <1>3. a \in Seq(Token) /\ Len(a) = one /\ a[one] = nd.name
    BY <1>1, <1>2, Single
  <1>4. c \in Seq(Token) /\ Len(c) = one /\ c[one] = "/"
    BY <1>1, <1>2, Single
  <1>5. b \in Seq(Token) /\ Len(b) = m
    BY <1>2
  <1>6. z = Longer(v, nd)
    BY DEF Longer
  <1> HIDE DEF a, b, c
  <1>7. PICK p \in Nat : p = n + one
    OBVIOUS
  <1>8. PICK r \in Nat : r = p + m
    OBVIOUS
  <1>9. x \in Seq(Token) /\ Joined(x, v, n, a, one)
    BY <1>3, ConcatFacts
  <1> HIDE DEF x
  <1>10. Len(x) = p
    BY <1>7, <1>9 DEF Joined
  <1>11. y \in Seq(Token) /\ Joined(y, x, p, b, m)
    BY <1>5, <1>9, <1>10, ConcatFacts
  <1> HIDE DEF y
  <1>12. Len(y) = r
    BY <1>8, <1>11 DEF Joined
  <1>13. z \in Seq(Token) /\ Joined(z, y, r, c, one)
    BY <1>4, <1>11, <1>12, ConcatFacts
  <1> HIDE DEF z
  <1>14. r = (n + 1) + m /\ p = n + 1
    BY <1>1, <1>7, <1>8
  <1>15. Len(z) = ((n + 1) + m) + 1
    BY <1>1, <1>13, <1>14 DEF Joined
  <1>16. Agree(z, v, n)
    <2> SUFFICES ASSUME NEW i \in 1..n
                 PROVE  z[i] = v[i]
      BY DEF Agree
    <2>1. i \in 1..p /\ i \in 1..r
      BY <1>14
    <2>2. z[i] = y[i]
      BY <1>13, <2>1 DEF Joined
    <2>3. y[i] = x[i]
      BY <1>11, <2>1 DEF Joined
    <2>4. x[i] = v[i]
      BY <1>9 DEF Joined
    <2> QED
      BY <2>2, <2>3, <2>4
  <1>17. z[n + 1] = nd.name
    <2>1. p \in 1..p /\ p \in 1..r /\ one \in 1..one /\ n + one = p /\ n + 1 = p
      BY <1>1, <1>7, <1>14
    <2>2. z[p] = y[p]
      BY <1>13, <2>1 DEF Joined
    <2>3. y[p] = x[p]
      BY <1>11, <2>1 DEF Joined
    <2>4. x[p] = a[one]
      BY <1>9, <2>1 DEF Joined
    <2> QED
      BY <1>3, <2>1, <2>2, <2>3, <2>4
  <1>18. ASSUME NEW j \in 1..m
         PROVE  z[(n + 1) + j] = nd.text[j]
    <2>1. p + j \in 1..r /\ (n + 1) + j = p + j
      BY <1>8, <1>14
    <2>2. z[p + j] = y[p + j]
      BY <1>13, <2>1 DEF Joined
    <2>3. y[p + j] = b[j]
      BY <1>11 DEF Joined
    <2> QED
      BY <2>1, <2>2, <2>3 DEF b
  <1>19. z[((n + 1) + m) + 1] = "/"
    <2>1. one \in 1..one /\ r + one = ((n + 1) + m) + 1
      BY <1>1, <1>14
    <2>2. z[r + one] = c[one]
      BY <1>13, <2>1 DEF Joined
    <2> QED
      BY <1>4, <2>1, <2>2
  <1> QED
    BY <1>6, <1>13, <1>15, <1>16, <1>17, <1>18, <1>19 DEF Spells

(* The document up to the end of each node.                                *)
IsXml(u, nodes, K) ==
    /\ u \in [0..K -> Seq(Token)]
    /\ u[0] = <<"<">>
    /\ \A k \in 1..K : u[k] = Longer(u[k - 1], nodes[k])

(* Xml is made in this way.                                                *)
LEMMA XmlRun ==
    ASSUME NEW K \in Nat, NEW nodes \in Seq(Node), Len(nodes) = K
    PROVE  \E u : IsXml(u, nodes, K) /\ Xml(nodes) = Append(u[K], ">")
  <1> DEFINE S == Seq(Token)
             F(f) == [k \in 0..K |-> IF k = 0 THEN <<"<">> ELSE Longer(f[k - 1], nodes[k])]
             step == [k \in Nat |-> [v \in S |-> IF k \in 1..K THEN Longer(v, nodes[k]) ELSE v]]
  <1>1. \A k \in 1..K : nodes[k] \in Node
    OBVIOUS
  <1>2. ASSUME NEW v \in S, NEW k \in 1..K
        PROVE  Longer(v, nodes[k]) \in S
    <2> DEFINE nd == nodes[k]
    <2>1. nd \in Node
      BY <1>1
    <2> HIDE DEF nd
    <2>2. PICK n \in Nat : Len(v) = n
      OBVIOUS
    <2>3. nd.text \in Seq(Token)
      BY <2>1, TextTokens
    <2>4. PICK m \in Nat : Len(nd.text) = m
      BY <2>3
    <2>5. Longer(v, nd) \in Seq(Token)
      BY <2>1, <2>2, <2>4, LongerFacts
    <2> QED
      BY <2>5 DEF nd
  <1>3. <<"<">> \in S
    <2>1. "<" \in Token
      BY DEF Token, Markup, Tags
    <2> QED
      BY <2>1, Single
  <1> HIDE DEF S
  <1>4. step \in [Nat -> [S -> S]]
    BY <1>2
  <1>5. PICK g : Follows(g, S, <<"<">>, step, K)
    <2> HIDE DEF step
    <2> QED
      BY <1>3, <1>4, Recursion
  <1>6. g \in [0..K -> S] /\ g[0] = <<"<">> /\ \A k \in 1..K : g[k] = step[k][g[k - 1]]
    BY <1>5 DEF Follows
  <1>7. ASSUME NEW k \in 1..K
        PROVE  g[k] = Longer(g[k - 1], nodes[k])
    <2>1. k \in Nat /\ k - 1 \in 0..K
      OBVIOUS
    <2>2. g[k - 1] \in S
      BY <1>6, <2>1
    <2>3. step[k][g[k - 1]] = Longer(g[k - 1], nodes[k])
      BY <2>1, <2>2
    <2> HIDE DEF step
    <2> QED
      BY <1>6, <2>3
  <1> HIDE DEF step
  <1>8. g = F(g)
    <2>1. \A k \in 0..K : k # 0 => k \in 1..K
      OBVIOUS
    <2>2. \A k \in 0..K : g[k] = IF k = 0 THEN <<"<">> ELSE Longer(g[k - 1], nodes[k])
      BY <1>6, <1>7, <2>1
    <2> QED
      BY <1>6, <2>2
  <1> DEFINE c == CHOOSE f : f = F(f)
  <1>9. c = F(c)
    <2> HIDE DEF F
    <2> QED
      BY <1>8
  <1>10. Xml(nodes) = Append(c[K], ">")
    BY DEF Xml, Longer
  <1> HIDE DEF c
  <1>11. /\ c[0] = <<"<">>
         /\ \A k \in 1..K : c[k] = Longer(c[k - 1], nodes[k])
    <2>1. 0 \in 0..K /\ \A k \in 1..K : k \in 0..K /\ k # 0
      OBVIOUS
    <2>2. \A k \in 0..K : c[k] = IF k = 0 THEN <<"<">> ELSE Longer(c[k - 1], nodes[k])
      BY <1>9
    <2> QED
      BY <2>1, <2>2
  <1> DEFINE P == {k \in Nat : k <= K => c[k] \in S}
  <1>12. 0 \in P
    BY <1>3, <1>11
  <1>13. ASSUME NEW k \in Nat, k \in P
         PROVE  k + 1 \in P
    <2> SUFFICES ASSUME k + 1 <= K
                 PROVE  c[k + 1] \in S
      OBVIOUS
    <2>1. k + 1 \in 1..K /\ (k + 1) - 1 = k /\ c[k] \in S
      BY <1>13
    <2> QED
      BY <1>2, <1>11, <2>1
  <1>14. \A k \in Nat : k \in P
    <2> HIDE DEF P
    <2> QED
      BY <1>12, <1>13, SetInduction
  <1>15. c \in [0..K -> S]
    <2>1. \A k \in 0..K : c[k] \in S
      BY <1>14
    <2> QED
      BY <1>9, <2>1
  <1> QED
    BY <1>10, <1>11, <1>15 DEF IsXml, S

(* No token of s ends the first element.                                   *)
NoEnd(s) == \A i \in 1..Len(s) : s[i] # ">"

(* No token of a node does.                                                *)
LEMMA LongerNoEnd ==
    ASSUME NEW v \in Seq(Token), NEW nd \in Node, NoEnd(v)
    PROVE  NoEnd(Longer(v, nd))
  <1>1. PICK n \in Nat : Len(v) = n
    OBVIOUS
  <1>2. nd.name \in Names /\ nd.text \in Seq(Token) /\ \A j \in 1..Len(nd.text) : nd.text[j] \notin Markup
    BY TextTokens
  <1>3. PICK m \in Nat : Len(nd.text) = m
    BY <1>2
  <1> DEFINE w == Longer(v, nd)
  <1>4. Len(w) = ((n + 1) + m) + 1 /\ Agree(w, v, n) /\ Spells(w, n, nd)
    BY <1>1, <1>3, LongerFacts
  <1> HIDE DEF w
  <1>5. ">" \notin Names /\ ">" \in Markup
    BY DEF Names, Markup, Tags
  <1>6. ASSUME NEW i \in 1..((n + 1) + m) + 1
        PROVE  w[i] # ">"
    <2>1. CASE i \in 1..n
      BY <1>1, <1>4, <2>1 DEF Agree, NoEnd
    <2>2. CASE i = n + 1
      BY <1>2, <1>4, <1>5, <2>2 DEF Spells
    <2>3. CASE i \in n + 2..(n + 1) + m
      <3>1. PICK j \in 1..m : i = (n + 1) + j
        <4>1. i - (n + 1) \in 1..m /\ i = (n + 1) + (i - (n + 1))
          BY <2>3
        <4> QED
          BY <4>1
      <3>2. w[i] = nd.text[j]
        BY <1>3, <1>4, <3>1 DEF Spells
      <3> QED
        BY <1>2, <1>3, <1>5, <3>2
    <2>4. CASE i = ((n + 1) + m) + 1
      BY <1>3, <1>4, <2>4 DEF Spells
    <2> QED
      BY <2>1, <2>2, <2>3, <2>4
  <1> QED
    BY <1>4, <1>6 DEF NoEnd, w

(* The parser has the nodes up to which s is the document.                 *)
LEMMA NodesTaken ==
    ASSUME NEW K \in Nat, NEW nodes \in Seq(Node), Len(nodes) = K, NEW u, IsXml(u, nodes, K),
           NEW s \in Seq(Token), NEW N \in Nat, Len(s) = N, NEW q, IsParse(q, s, N),
           NEW L \in Nat, L <= N, Len(u[K]) = L, Agree(s, u[K], L)
    PROVE  Between(q[L], nodes, K)
  <1> DEFINE P == {k \in Nat : k <= K /\ Len(u[k]) <= N /\ Agree(s, u[k], Len(u[k])) =>
                                    Between(q[Len(u[k])], nodes, k)}
  <1>1. u[0] = <<"<">> /\ \A k \in 0..K : u[k] \in Seq(Token)
    BY DEF IsXml
  <1>2. 0 \in P
    <2> SUFFICES ASSUME Len(u[0]) <= N, Agree(s, u[0], Len(u[0]))
                 PROVE  Between(q[Len(u[0])], nodes, 0)
      OBVIOUS
    <2>1. Len(u[0]) = 1 /\ u[0][1] = "<"
      BY <1>1
    <2>2. s[1] = "<" /\ 1 <= N
      BY <2>1 DEF Agree
    <2>3. q[0] = Begin /\ q[1] = Take(q[0], s[1])
      <3>1. 1 \in 1..N /\ 1 - 1 = 0
        BY <2>2
      <3> QED
        BY <3>1 DEF IsParse
    <2>4. Begin.at = "begin" /\ Begin.nodes = <<>>
      BY DEF Begin
    <2>5. q[1] = [Begin EXCEPT !.at = "between"]
      BY <2>2, <2>3, <2>4 DEF Take
    <2>6. q[1].at = "between" /\ q[1].nodes = <<>>
      BY <2>5 DEF Begin
    <2>7. Len(q[1].nodes) = 0
      BY <2>6
    <2> QED
      BY <2>1, <2>6, <2>7 DEF Between
  <1>3. ASSUME NEW k \in Nat, k \in P
        PROVE  k + 1 \in P
    <2> SUFFICES ASSUME k + 1 <= K, Len(u[k + 1]) <= N, Agree(s, u[k + 1], Len(u[k + 1]))
                 PROVE  Between(q[Len(u[k + 1])], nodes, k + 1)
      OBVIOUS
    <2> DEFINE v == u[k]
               w == u[k + 1]
               nd == nodes[k + 1]
    <2>1. k \in 0..K /\ k + 1 \in 1..K /\ (k + 1) - 1 = k
      OBVIOUS
    <2>2. w = Longer(v, nd) /\ v \in Seq(Token) /\ nd \in Node
      BY <1>1, <2>1 DEF IsXml
    <2>3. k \in P
      BY <1>3
    <2> HIDE DEF nd
    <2>4. PICK n \in Nat : Len(v) = n
      BY <2>2
    <2>5. nd.text \in Seq(Token)
      BY <2>2, TextTokens
    <2>6. PICK m \in Nat : Len(nd.text) = m
      BY <2>5
    <2> HIDE DEF v, w, P
    <2>7. Len(w) = ((n + 1) + m) + 1 /\ Agree(w, v, n) /\ Spells(w, n, nd)
      BY <2>2, <2>4, <2>6, LongerFacts
    <2>8. ((n + 1) + m) + 1 <= N /\ \A i \in 1..((n + 1) + m) + 1 : s[i] = w[i]
      BY <2>7 DEF w, Agree
    <2>9. Agree(s, v, n)
      BY <2>7, <2>8 DEF Agree
    <2>10. Spells(s, n, nd)
      <3>1. n + 1 \in 1..((n + 1) + m) + 1 /\ ((n + 1) + m) + 1 \in 1..((n + 1) + m) + 1
        OBVIOUS
      <3>2. \A j \in 1..m : (n + 1) + j \in 1..((n + 1) + m) + 1
        OBVIOUS
      <3> QED
        BY <2>6, <2>7, <2>8, <3>1, <3>2 DEF Spells
    <2>11. Between(q[n], nodes, k)
      <3>1. k <= K /\ Len(u[k]) <= N /\ Agree(s, u[k], Len(u[k]))
        BY <2>4, <2>8, <2>9 DEF v
      <3> QED
        BY <2>3, <2>4, <3>1 DEF P, v
    <2>12. Between(q[((n + 1) + m) + 1], nodes, k + 1)
      BY <2>2, <2>6, <2>8, <2>10, <2>11, NodeTaken DEF nd
    <2> QED
      BY <2>7, <2>12 DEF w
  <1>4. K \in P
    <2> HIDE DEF P
    <2> QED
      BY <1>2, <1>3, SetInduction
  <1> QED
    BY <1>4

(* The text of a document.                                                 *)
LEMMA XmlText ==
    ASSUME NEW nodes \in Seq(Node)
    PROVE  /\ Xml(nodes) \in Seq(Token) /\ Len(Xml(nodes)) >= 2
           /\ Xml(nodes)[1] = "<" /\ Xml(nodes)[Len(Xml(nodes))] = ">"
           /\ \A i \in 1..Len(Xml(nodes)) - 1 : Xml(nodes)[i] # ">"
  <1>1. PICK K \in Nat : Len(nodes) = K
    OBVIOUS
  <1>2. PICK u : IsXml(u, nodes, K) /\ Xml(nodes) = Append(u[K], ">")
    BY <1>1, XmlRun
  <1>3. /\ u[0] = <<"<">>
        /\ \A k \in 0..K : u[k] \in Seq(Token)
        /\ \A k \in 1..K : u[k] = Longer(u[k - 1], nodes[k])
    BY <1>2 DEF IsXml
  <1> DEFINE Fine(v) == NoEnd(v) /\ Len(v) >= 1 /\ v[1] = "<"
             P == {k \in Nat : k <= K => Fine(u[k])}
  <1>4. 0 \in P
    <2>1. Len(<<"<">>) = 1 /\ <<"<">>[1] = "<"
      OBVIOUS
    <2> QED
      BY <1>3, <2>1 DEF NoEnd
  <1>5. ASSUME NEW k \in Nat, k \in P
        PROVE  k + 1 \in P
    <2> SUFFICES ASSUME k + 1 <= K
                 PROVE  Fine(u[k + 1])
      OBVIOUS
    <2> DEFINE v == u[k]
               nd == nodes[k + 1]
    <2>1. k \in 0..K /\ k + 1 \in 1..K /\ (k + 1) - 1 = k
      OBVIOUS
    <2>2. u[k + 1] = Longer(v, nd) /\ v \in Seq(Token) /\ nd \in Node
      BY <1>1, <1>3, <2>1
    <2>3. Fine(v)
      BY <1>5
    <2> HIDE DEF v, nd, P
    <2>4. PICK n \in Nat : Len(v) = n
      BY <2>2
    <2>5. nd.text \in Seq(Token)
      BY <2>2, TextTokens
    <2>6. PICK m \in Nat : Len(nd.text) = m
      BY <2>5
    <2>7. Len(Longer(v, nd)) = ((n + 1) + m) + 1 /\ Agree(Longer(v, nd), v, n)
      BY <2>2, <2>4, <2>6, LongerFacts
    <2>8. NoEnd(Longer(v, nd))
      BY <2>2, <2>3, LongerNoEnd
    <2>9. 1 \in 1..n
      BY <2>3, <2>4
    <2>10. Longer(v, nd)[1] = "<"
      BY <2>3, <2>7, <2>9 DEF Agree
    <2> QED
      BY <2>2, <2>7, <2>8, <2>10
  <1>6. K \in P
    <2> HIDE DEF P
    <2> QED
      BY <1>4, <1>5, SetInduction
  <1> DEFINE v == u[K]
             X == Xml(nodes)
  <1>7. Fine(v) /\ v \in Seq(Token) /\ X = Append(v, ">")
    BY <1>2, <1>3, <1>6
  <1> HIDE DEF v, P, X
  <1>8. PICK n \in Nat : Len(v) = n
    BY <1>7
  <1>9. ">" \in Token
    BY DEF Token, Markup, Tags
  <1>10. X \in Seq(Token) /\ Len(X) = n + 1 /\ X[n + 1] = ">" /\ \A i \in 1..n : X[i] = v[i]
    BY <1>7, <1>8, <1>9, AppendFacts
  <1>11. (n + 1) - 1 = n /\ 1 \in 1..n /\ n + 1 >= 2
    BY <1>7, <1>8
  <1> QED
    BY <1>7, <1>8, <1>10, <1>11 DEF NoEnd, X

(* No text is longer than the document.                                    *)
LEMMA TextsFit ==
    ASSUME NEW nodes \in Seq(Node), NEW i \in 1..Len(nodes)
    PROVE  Len(nodes[i].text) <= Len(Xml(nodes))
  <1>1. PICK K \in Nat : Len(nodes) = K
    OBVIOUS
  <1>2. PICK u : IsXml(u, nodes, K) /\ Xml(nodes) = Append(u[K], ">")
    BY <1>1, XmlRun
  <1>3. /\ \A k \in 0..K : u[k] \in Seq(Token)
        /\ \A k \in 1..K : u[k] = Longer(u[k - 1], nodes[k])
    BY <1>2 DEF IsXml
  <1>4. i \in 1..K /\ nodes[i] \in Node
    BY <1>1
  <1>5. nodes[i].text \in Seq(Token)
    BY <1>4, TextTokens
  <1>6. PICK l \in Nat : Len(nodes[i].text) = l
    BY <1>5
  <1> DEFINE P == {k \in Nat : k <= K /\ i <= k => l <= Len(u[k])}
  <1>7. 0 \in P
    BY <1>4
  <1>8. ASSUME NEW k \in Nat, k \in P
        PROVE  k + 1 \in P
    <2> SUFFICES ASSUME k + 1 <= K, i <= k + 1
                 PROVE  l <= Len(u[k + 1])
      OBVIOUS
    <2> DEFINE v == u[k]
               nd == nodes[k + 1]
    <2>1. k \in 0..K /\ k + 1 \in 1..K /\ (k + 1) - 1 = k
      OBVIOUS
    <2>2. u[k + 1] = Longer(v, nd) /\ v \in Seq(Token) /\ nd \in Node
      BY <1>1, <1>3, <2>1
    <2>3. i <= k => l <= Len(v)
      BY <1>8
    <2>4. i = k + 1 => Len(nd.text) = l
      BY <1>6
    <2>5. i <= k \/ i = k + 1
      BY <1>4
    <2> HIDE DEF v, nd, P
    <2>6. PICK n \in Nat : Len(v) = n
      BY <2>2
    <2>7. nd.text \in Seq(Token)
      BY <2>2, TextTokens
    <2>8. PICK m \in Nat : Len(nd.text) = m
      BY <2>7
    <2>9. Len(Longer(v, nd)) = ((n + 1) + m) + 1
      BY <2>2, <2>6, <2>8, LongerFacts
    <2>10. l <= n \/ l = m
      BY <2>3, <2>4, <2>5, <2>6, <2>8
    <2> QED
      BY <2>2, <2>9, <2>10
  <1>9. K \in P
    <2> HIDE DEF P
    <2> QED
      BY <1>7, <1>8, SetInduction
  <1>10. l <= Len(u[K]) /\ u[K] \in Seq(Token)
    BY <1>3, <1>4, <1>9
  <1> DEFINE v == u[K]
  <1> HIDE DEF v
  <1>11. PICK n \in Nat : Len(v) = n /\ l <= n /\ v \in Seq(Token)
    BY <1>10 DEF v
  <1>12. ">" \in Token
    BY DEF Token, Markup, Tags
  <1>13. Len(Append(v, ">")) = n + 1
    BY <1>11, <1>12, AppendFacts
  <1> QED
    BY <1>2, <1>6, <1>11, <1>13 DEF v

(* A text that begins with a document is parsed to its nodes.              *)
LEMMA WholeDocument ==
    ASSUME NEW nodes \in Seq(Node), NEW s \in Seq(Token), Len(Xml(nodes)) <= Len(s),
           Agree(s, Xml(nodes), Len(Xml(nodes)))
    PROVE  xml_parse_document(s).at = "done" /\ xml_parse_document(s).nodes = nodes
  <1>1. PICK K \in Nat : Len(nodes) = K
    OBVIOUS
  <1>2. PICK u : IsXml(u, nodes, K) /\ Xml(nodes) = Append(u[K], ">")
    BY <1>1, XmlRun
  <1> DEFINE v == u[K]
             X == Xml(nodes)
  <1>3. v \in Seq(Token) /\ X = Append(v, ">")
    BY <1>2 DEF IsXml
  <1> HIDE DEF v, X
  <1>4. PICK L \in Nat : Len(v) = L
    BY <1>3
  <1>5. ">" \in Token
    BY DEF Token, Markup, Tags
  <1>6. Len(X) = L + 1 /\ X[L + 1] = ">" /\ \A i \in 1..L : X[i] = v[i]
    BY <1>3, <1>4, <1>5, AppendFacts
  <1>7. PICK N \in Nat : Len(s) = N
    OBVIOUS
  <1>8. L + 1 <= N /\ s[L + 1] = ">" /\ Agree(s, v, L)
    <2>1. L + 1 <= N /\ \A i \in 1..L + 1 : s[i] = X[i]
      BY <1>6, <1>7 DEF Agree, X
    <2> QED
      BY <1>6, <2>1 DEF Agree
  <1>9. PICK q : IsParse(q, s, N) /\ xml_parse_document(s) = q[N]
    BY <1>7, ParseRun
  <1>10. Between(q[L], nodes, K)
    BY <1>1, <1>2, <1>4, <1>7, <1>8, <1>9, NodesTaken DEF v
  <1>11. ASSUME NEW i \in Nat, i + 1 <= N
         PROVE  q[i] \in State /\ s[i + 1] \in Token /\ q[i + 1] = Take(q[i], s[i + 1])
    BY <1>7, <1>9, <1>11, ParseStep
  <1> DEFINE r == q[L]
             e == q[L + 1]
  <1>12. r \in State /\ e = Take(r, ">") /\ Between(r, nodes, K)
    BY <1>8, <1>10, <1>11
  <1> HIDE DEF r, e
  <1>13. r.at = "between"
    BY <1>12 DEF Between
  <1>14. e = [r EXCEPT !.at = "done"]
    BY <1>5, <1>12, <1>13, TakeFacts
  <1>15. e.at = "done" /\ e.nodes = r.nodes
    BY <1>12, <1>14 DEF State
  <1>16. r.nodes = nodes
    <2> DEFINE a == r.nodes
    <2>1. a \in Seq([name : Token, text : Seq(Token)]) /\ Len(a) = K /\ \A i \in 1..K : a[i] = nodes[i]
      BY <1>12 DEF State, Between
    <2> HIDE DEF a
    <2>2. a \in [1..K -> [name : Token, text : Seq(Token)]] /\ nodes \in [1..K -> Node]
      <3>1. a \in [1..K -> [name : Token, text : Seq(Token)]]
        <4> DEFINE R == [name : Token, text : Seq(Token)]
        <4>1. a \in Seq(R)
          BY <2>1
        <4> HIDE DEF R
        <4>2. a \in [1..K -> R]
          BY <2>1, <4>1, SeqIsFunction
        <4> QED
          BY <4>2 DEF R
      <3>2. nodes \in [1..K -> Node]
        BY <1>1, SeqIsFunction
      <3> QED
        BY <3>1, <3>2
    <2>3. a = nodes
      BY <2>1, <2>2
    <2> QED
      BY <2>3 DEF a
  <1> DEFINE P == {n \in Nat : L + 1 + n <= N => q[(L + 1) + n] = e}
  <1>17. 0 \in P
    BY DEF e
  <1>18. ASSUME NEW n \in Nat, n \in P
         PROVE  n + 1 \in P
    <2> SUFFICES ASSUME L + 1 + (n + 1) <= N
                 PROVE  q[(L + 1) + (n + 1)] = e
      OBVIOUS
    <2>1. PICK i \in Nat : i = (L + 1) + n
      OBVIOUS
    <2>2. i + 1 <= N /\ (L + 1) + (n + 1) = i + 1
      BY <2>1
    <2>3. q[i] = e
      BY <1>18, <2>1
    <2>4. e \in State /\ s[i + 1] \in Token /\ q[i + 1] = Take(e, s[i + 1])
      BY <1>11, <2>2, <2>3
    <2> DEFINE x == s[i + 1]
    <2> HIDE DEF x, P
    <2>5. Take(e, x) = e
      BY <1>15, <2>4, TakeFacts DEF x
    <2> QED
      BY <2>2, <2>4, <2>5 DEF x
  <1>19. PICK n \in Nat : N = (L + 1) + n
    <2>1. N - (L + 1) \in Nat /\ N = (L + 1) + (N - (L + 1))
      BY <1>8
    <2> QED
      BY <2>1
  <1>20. n \in P
    <2> HIDE DEF P
    <2> QED
      BY <1>17, <1>18, SetInduction
  <1>21. q[N] = e
    BY <1>19, <1>20
  <1> QED
    BY <1>9, <1>15, <1>16, <1>21

-----------------------------------------------------------------------------
(* Pieces of a text                                                        *)

(* A part of a sequence.                                                   *)
LEMMA PieceFacts ==
    ASSUME NEW s \in Seq(Token), NEW L \in Nat, Len(s) = L, NEW n \in Nat, NEW m \in Nat, n + m <= L
    PROVE  /\ SubSeq(s, n + 1, n + m) \in Seq(Token) /\ Len(SubSeq(s, n + 1, n + m)) = m
           /\ \A i \in 1..m : SubSeq(s, n + 1, n + m)[i] = s[n + i]
  <1>1. PICK a \in Int, b \in Int : a = n + 1 /\ b = n + m
    OBVIOUS
  <1>2. \A i \in a..b : s[i] \in Token
    <2> TAKE i \in a..b
    <2>1. i \in 1..L
      BY <1>1
    <2> QED
      BY <2>1
  <1> DEFINE u == SubSeq(s, a, b)
  <1>3. /\ u \in Seq(Token)
        /\ Len(u) = IF a <= b THEN (b - a) + 1 ELSE 0
        /\ \A i \in 1..(b - a) + 1 : u[i] = s[(a + i) - 1]
    BY <1>2, SubSeqProperties
  <1> HIDE DEF u
  <1>4. (b - a) + 1 = m /\ (a <= b \/ m = 0) /\ \A i \in 1..m : (a + i) - 1 = n + i
    BY <1>1
  <1>5. Len(u) = m /\ \A i \in 1..m : u[i] = s[n + i]
    BY <1>3, <1>4
  <1> QED
    BY <1>1, <1>3, <1>5 DEF u

(* m is the lesser of n and L.                                             *)
Lesser(m, n, L) == m <= n /\ m <= L /\ (m = n \/ m = L)

(* The first tokens of a text.                                             *)
LEMMA PrefixFacts ==
    ASSUME NEW s \in Seq(Token), NEW L \in Nat, Len(s) = L, NEW n \in Nat, NEW m \in Nat, Lesser(m, n, L)
    PROVE  Prefix(s, n) \in Seq(Token) /\ Len(Prefix(s, n)) = m /\ \A i \in 1..m : Prefix(s, n)[i] = s[i]
  <1>1. PICK z \in Nat : z = 0
    OBVIOUS
  <1>2. Prefix(s, n) = SubSeq(s, z + 1, z + m)
    <2>1. z + 1 = 1 /\ z + m = m
      BY <1>1
    <2> QED
      BY <2>1 DEF Prefix, Lesser
  <1> DEFINE u == SubSeq(s, z + 1, z + m)
  <1>3. z + m <= L
    BY <1>1 DEF Lesser
  <1>4. u \in Seq(Token) /\ Len(u) = m /\ \A i \in 1..m : u[i] = s[z + i]
    BY <1>3, PieceFacts
  <1> HIDE DEF u
  <1>5. \A i \in 1..m : z + i = i
    BY <1>1
  <1>6. u \in Seq(Token) /\ Len(u) = m /\ \A i \in 1..m : u[i] = s[i]
    BY <1>4, <1>5
  <1> QED
    BY <1>2, <1>6 DEF u

(* The first n of at least n tokens.                                       *)
LEMMA FirstTokens ==
    ASSUME NEW s \in Seq(Token), NEW L \in Nat, Len(s) = L, NEW n \in Nat, n <= L
    PROVE  Prefix(s, n) \in Seq(Token) /\ Len(Prefix(s, n)) = n /\ \A i \in 1..n : Prefix(s, n)[i] = s[i]
  <1>1. PICK m \in Nat : m = n
    OBVIOUS
  <1>2. Lesser(m, n, L)
    BY <1>1 DEF Lesser
  <1>3. Prefix(s, n) \in Seq(Token) /\ Len(Prefix(s, n)) = m /\ \A i \in 1..m : Prefix(s, n)[i] = s[i]
    BY <1>2, PrefixFacts
  <1> QED
    BY <1>1, <1>3

(* A text without its first n tokens.                                      *)
LEMMA SuffixFacts ==
    ASSUME NEW s \in Seq(Token), NEW n \in Nat, NEW m \in Nat, Len(s) = n + m
    PROVE  /\ Suffix(s, n + 1) \in Seq(Token) /\ Len(Suffix(s, n + 1)) = m
           /\ \A i \in 1..m : Suffix(s, n + 1)[i] = s[n + i]
  <1>1. PICK L \in Nat : L = n + m
    OBVIOUS
  <1>2. Suffix(s, n + 1) = SubSeq(s, n + 1, n + m)
    BY DEF Suffix
  <1> DEFINE u == SubSeq(s, n + 1, n + m)
  <1>3. Len(s) = L /\ n + m <= L
    BY <1>1
  <1>4. u \in Seq(Token) /\ Len(u) = m /\ \A i \in 1..m : u[i] = s[n + i]
    BY <1>3, PieceFacts
  <1> HIDE DEF u
  <1> QED
    BY <1>2, <1>4 DEF u

(* The first of several places.                                            *)
LEMMA MinFacts ==
    ASSUME NEW S, S \subseteq Nat, NEW k \in S, \A x \in S : k <= x
    PROVE  Min(S) = k
  <1>1. \E x \in S : \A y \in S : x <= y
    OBVIOUS
  <1>2. Min(S) \in S /\ \A y \in S : Min(S) <= y
    BY <1>1 DEF Min
  <1>3. Min(S) <= k /\ k <= Min(S) /\ Min(S) \in Nat
    BY <1>2
  <1> HIDE DEF Min
  <1> QED
    BY <1>3

(* strnstr finds the first place of a token.                               *)
LEMMA Found ==
    ASSUME NEW s \in Seq(Token), NEW t, NEW len \in Nat, NEW k \in 1..Len(s), k <= len, s[k] = t,
           \A i \in 1..k - 1 : s[i] # t
    PROVE  strnstr(s, t, len) = k
  <1> DEFINE S == {i \in 1..Len(s) : i <= len /\ s[i] = t}
  <1>1. k \in S /\ S # {} /\ S \subseteq Nat
    OBVIOUS
  <1>2. \A x \in S : k <= x
    <2> TAKE x \in S
    <2>1. ~ (x \in 1..k - 1)
      OBVIOUS
    <2>2. x \in Nat /\ x >= 1
      OBVIOUS
    <2> QED
      BY <2>1, <2>2
  <1>3. strnstr(s, t, len) = IF S = {} THEN 0 ELSE Min(S)
    BY DEF strnstr
  <1> HIDE DEF S
  <1>4. Min(S) = k
    BY <1>1, <1>2, MinFacts
  <1> QED
    BY <1>1, <1>3, <1>4

(* It finds none where there is none.                                      *)
LEMMA NotFound ==
    ASSUME NEW s, NEW t, NEW len \in Nat, \A i \in 1..Len(s) : i <= len => s[i] # t
    PROVE  strnstr(s, t, len) = 0
  <1> DEFINE S == {i \in 1..Len(s) : i <= len /\ s[i] = t}
  <1>1. S = {}
    OBVIOUS
  <1>2. strnstr(s, t, len) = IF S = {} THEN 0 ELSE Min(S)
    BY DEF strnstr
  <1> HIDE DEF S
  <1> QED
    BY <1>1, <1>2

-----------------------------------------------------------------------------
(* The text of an answer                                                   *)

(* How many tokens there are before the document.                          *)
Before(a) == IF a.decl THEN 5 ELSE 3

(* T is the text of a.                                                     *)
Spelt(T, a) ==
    /\ T[1] = IF a.ok THEN "200 OK" ELSE "500"
    /\ T[2] = "field"
    /\ T[3] = "blank line"
    /\ a.decl => T[4] = "<?xml" /\ T[5] = "?>"
    /\ \A i \in 1..Len(Xml(a.nodes)) : T[Before(a) + i] = Xml(a.nodes)[i]

(* The nodes of an answer.                                                 *)
LEMMA AnswerNodes ==
    ASSUME NEW a \in Answers
    PROVE  a.ok \in BOOLEAN /\ a.decl \in BOOLEAN /\ a.nodes \in Seq(Node) /\ WellPlaced(a.nodes)
  BY AnswerAssumption DEF Node

(* Text puts an answer together in this way.                               *)
LEMMA TextFacts ==
    ASSUME NEW a \in Answers
    PROVE  /\ Text(a) \in Seq(Token) /\ Len(Text(a)) = Before(a) + Len(Xml(a.nodes))
           /\ Spelt(Text(a), a)
  <1> DEFINE X == Xml(a.nodes)
             status == IF a.ok THEN "200 OK" ELSE "500"
             h == <<status, "field", "blank line">>
             d == IF a.decl THEN <<"<?xml", "?>">> ELSE <<>>
             hd == h \o d
             T == hd \o X
  <1>1. a.ok \in BOOLEAN /\ a.decl \in BOOLEAN /\ a.nodes \in Seq(Node)
    BY AnswerNodes
  <1>2. X \in Seq(Token)
    BY <1>1, XmlText
  <1>3. PICK x \in Nat : Len(X) = x
    BY <1>2
  <1>4. Text(a) = T
    BY DEF Text
  <1>5. PICK three \in Nat : three = 3
    OBVIOUS
  <1>6. h \in Seq(Token) /\ Len(h) = three /\ h[1] = status /\ h[2] = "field" /\ h[3] = "blank line"
    <2>1. status \in Token /\ "field" \in Token /\ "blank line" \in Token
      BY DEF Token, Markup, Tags
    <2> HIDE DEF status
    <2> QED
      BY <1>5, <2>1, Triple
  <1>7. PICK e \in Nat : e = IF a.decl THEN 2 ELSE 0
    OBVIOUS
  <1>8. d \in Seq(Token) /\ Len(d) = e /\ (a.decl => d[1] = "<?xml" /\ d[2] = "?>")
    <2>1. CASE a.decl
      <3>1. "<?xml" \in Token /\ "?>" \in Token
        BY DEF Token, Markup, Tags
      <3>2. d = <<"<?xml", "?>">>
        BY <2>1
      <3>3. <<"<?xml", "?>">> \in Seq(Token) /\ Len(<<"<?xml", "?>">>) = 2
        BY <3>1
      <3> QED
        BY <1>7, <2>1, <3>2, <3>3
    <2>2. CASE ~a.decl
      <3>1. d = <<>>
        BY <2>2
      <3> QED
        BY <1>7, <2>2, <3>1, EmptySeq
    <2> QED
      BY <2>1, <2>2
  <1> HIDE DEF h, d, X, status
  <1>9. hd \in Seq(Token) /\ Joined(hd, h, three, d, e)
    BY <1>6, <1>8, ConcatFacts
  <1>10. PICK b \in Nat : b = three + e
    OBVIOUS
  <1> HIDE DEF hd
  <1>11. Len(hd) = b
    BY <1>9, <1>10 DEF Joined
  <1>12. T \in Seq(Token) /\ Joined(T, hd, b, X, x)
    BY <1>2, <1>3, <1>9, <1>11, ConcatFacts
  <1> HIDE DEF T
  <1>13. b = Before(a)
    BY <1>5, <1>7, <1>10 DEF Before
  <1>14. Len(T) = Before(a) + x
    BY <1>12, <1>13 DEF Joined
  <1>15. T[1] = status /\ T[2] = "field" /\ T[3] = "blank line"
    <2>1. \A i \in 1..3 : i \in 1..three /\ i \in 1..b
      BY <1>5, <1>10
    <2>2. \A i \in 1..3 : T[i] = h[i]
      BY <1>9, <1>12, <2>1 DEF Joined
    <2>3. T[1] = h[1] /\ T[2] = h[2] /\ T[3] = h[3]
      BY <2>2
    <2> QED
      BY <1>6, <2>3
  <1>16. ASSUME a.decl
         PROVE  T[4] = "<?xml" /\ T[5] = "?>"
    <2>1. e = 2 /\ 4 = three + 1 /\ 5 = three + 2 /\ 4 \in 1..b /\ 5 \in 1..b /\ 1 \in 1..e /\ 2 \in 1..e
      BY <1>5, <1>7, <1>10, <1>16
    <2>2. T[4] = hd[4] /\ T[5] = hd[5]
      BY <1>12, <2>1 DEF Joined
    <2>3. hd[4] = d[1] /\ hd[5] = d[2]
      BY <1>9, <2>1 DEF Joined
    <2> QED
      BY <1>8, <1>16, <2>2, <2>3
  <1>17. \A i \in 1..x : T[Before(a) + i] = X[i]
    BY <1>12, <1>13 DEF Joined
  <1> QED
    BY <1>3, <1>4, <1>12, <1>14, <1>15, <1>16, <1>17 DEF Spelt, X, status

(* Only the last token of a text ends the first element.                   *)
LEMMA TextEnd ==
    ASSUME NEW a \in Answers, NEW i \in 1..Len(Text(a)) - 1
    PROVE  Text(a)[i] # ">"
  <1> DEFINE X == Xml(a.nodes)
             T == Text(a)
  <1>1. a.nodes \in Seq(Node)
    BY AnswerNodes
  <1>2. X \in Seq(Token) /\ \A j \in 1..Len(X) - 1 : X[j] # ">"
    BY <1>1, XmlText
  <1>3. Len(T) = Before(a) + Len(X) /\ Spelt(T, a)
    BY TextFacts
  <1>4. PICK x \in Nat : Len(X) = x
    BY <1>2
  <1> HIDE DEF X, T
  <1>5. PICK b \in Nat : b = Before(a) /\ b = IF a.decl THEN 5 ELSE 3
    BY DEF Before
  <1>6. CASE i > b
    <2>1. PICK j \in Nat : j = i - b
      BY <1>6
    <2>2. j \in 1..x - 1 /\ j \in 1..x /\ i = b + j
      BY <1>3, <1>4, <1>5, <1>6, <2>1 DEF T
    <2>3. T[i] = X[j]
      BY <1>3, <1>4, <1>5, <2>2 DEF Spelt, X
    <2> QED
      BY <1>2, <1>4, <2>2, <2>3 DEF T
  <1>7. CASE i <= b
    <2>1. i \in {1, 2, 3} \/ (a.decl /\ i \in {4, 5})
      BY <1>5, <1>7
    <2>2. T[i] # ">"
      BY <1>3, <2>1 DEF Spelt
    <2> QED
      BY <2>2 DEF T
  <1> QED
    BY <1>6, <1>7

(* The node the code looks at is the one meant.                            *)
LEMMA MeantFacts ==
    ASSUME answer \in Answers
    PROVE  NodeText(answer.nodes, answer.ok) = MeantText
  <1> DEFINE nodes == answer.nodes
             named(name) == {k \in 1..Len(nodes) : nodes[k].name = name}
             there == IF answer.ok THEN named("result")
                      ELSE IF named("detail") # {} THEN named("detail") ELSE named("faultstring")
  <1>1. nodes \in Seq(Node) /\ WellPlaced(nodes)
    BY AnswerNodes
  <1>2. PICK K \in Nat : Len(nodes) = K
    BY <1>1
  <1>3. MeantText = IF there = {} THEN <<>> ELSE nodes[Min(there)].text
    BY DEF MeantText
  <1> HIDE DEF nodes
  <1>4. /\ \A k \in 1..K : nodes[k].name = "result" => k = 1
        /\ \A k \in 1..K : nodes[k].name = "faultstring" => k = 2
        /\ \A k \in 1..K : nodes[k].name = "detail" => k = 3
        /\ K >= 3 => nodes[3].name = "detail"
    BY <1>1, <1>2 DEF WellPlaced
  <1>5. \A name : named(name) = {k \in 1..K : nodes[k].name = name}
    BY <1>2
  <1>6. ASSUME NEW k \in Nat
        PROVE  Min({k}) = k
    <2> DEFINE S == {k}
    <2>1. S \subseteq Nat /\ k \in S /\ \A y \in S : k <= y
      OBVIOUS
    <2> HIDE DEF S
    <2>2. Min(S) = k
      BY <2>1, MinFacts
    <2> QED
      BY <2>2 DEF S
  <1>7. CASE answer.ok
    <2>1. there = named("result")
      BY <1>7
    <2>2. CASE 1 <= K /\ nodes[1].name = "result"
      <3>1. 1 \in 1..K
        BY <2>2
      <3>2. named("result") = {1}
        BY <1>4, <1>5, <2>2, <3>1
      <3>3. Min({1}) = 1
        BY <1>6
      <3>4. MeantText = nodes[1].text
        BY <1>3, <2>1, <3>2, <3>3
      <3>5. NodeText(nodes, TRUE) = nodes[1].text
        BY <1>2, <2>2 DEF NodeText
      <3> QED
        BY <1>7, <3>4, <3>5 DEF nodes
    <2>3. CASE ~ (1 <= K /\ nodes[1].name = "result")
      <3>1. named("result") = {}
        <4> SUFFICES ASSUME NEW k \in named("result")
                     PROVE  FALSE
          OBVIOUS
        <4>1. k \in 1..K /\ nodes[k].name = "result"
          BY <1>5
        <4>2. k = 1
          BY <1>4, <4>1
        <4> QED
          BY <2>3, <4>1, <4>2
      <3>2. NodeText(nodes, TRUE) = <<>>
        BY <1>2, <2>3 DEF NodeText
      <3> QED
        BY <1>3, <1>7, <2>1, <3>1, <3>2 DEF nodes
    <2> QED
      BY <2>2, <2>3
  <1>8. CASE ~answer.ok
    <2>0. answer.ok = FALSE
      BY <1>8, AnswerNodes
    <2>1. CASE K >= 3
      <3>1. 3 \in 1..K /\ nodes[3].name = "detail"
        BY <1>4, <2>1
      <3>2. named("detail") = {3}
        <4>1. 3 \in named("detail")
          BY <1>5, <3>1
        <4>2. \A k \in named("detail") : k = 3
          BY <1>4, <1>5
        <4> QED
          BY <4>1, <4>2
      <3>3. there = {3} /\ Min({3}) = 3
        BY <1>6, <1>8, <3>2
      <3>4. NodeText(nodes, FALSE) = nodes[3].text
        BY <1>2, <2>1, <3>1 DEF NodeText
      <3> QED
        BY <1>3, <2>0, <3>3, <3>4 DEF nodes
    <2>2. CASE ~ (K >= 3)
      <3>1. named("detail") = {}
        <4> SUFFICES ASSUME NEW k \in named("detail")
                     PROVE  FALSE
          OBVIOUS
        <4>1. k \in 1..K /\ nodes[k].name = "detail"
          BY <1>5
        <4>2. k = 3
          BY <1>4, <4>1
        <4> QED
          BY <2>2, <4>1, <4>2
      <3>2. there = named("faultstring")
        BY <1>8, <3>1
      <3>3. CASE 2 <= K /\ nodes[2].name = "faultstring"
        <4>1. 2 \in 1..K
          BY <3>3
        <4>2. named("faultstring") = {2}
          BY <1>4, <1>5, <3>3, <4>1
        <4>3. Min({2}) = 2
          BY <1>6
        <4>4. NodeText(nodes, FALSE) = nodes[2].text
          BY <1>2, <2>2, <3>3 DEF NodeText
        <4> QED
          BY <1>3, <2>0, <3>2, <4>2, <4>3, <4>4 DEF nodes
      <3>4. CASE ~ (2 <= K /\ nodes[2].name = "faultstring")
        <4>1. named("faultstring") = {}
          <5> SUFFICES ASSUME NEW k \in named("faultstring")
                       PROVE  FALSE
            OBVIOUS
          <5>1. k \in 1..K /\ nodes[k].name = "faultstring"
            BY <1>5
          <5>2. k = 2
            BY <1>4, <5>1
          <5> QED
            BY <3>4, <5>1, <5>2
        <4>2. ~ (2 <= K /\ nodes[2].name \in {"faultstring", "detail"})
          <5>1. ASSUME 2 <= K
                PROVE  nodes[2].name # "detail"
            <6>1. 2 \in 1..K /\ 2 # 3
              BY <5>1
            <6> QED
              BY <1>4, <6>1
          <5> QED
            BY <3>4, <5>1
        <4>3. NodeText(nodes, FALSE) = <<>>
          BY <1>2, <2>2, <4>2 DEF NodeText
        <4> QED
          BY <1>3, <2>0, <3>2, <4>1, <4>3 DEF nodes
      <3> QED
        BY <3>3, <3>4
    <2> QED
      BY <2>1, <2>2
  <1> QED
    BY <1>7, <1>8

(* It has room wherever the answer has.                                    *)
LEMMA MeantFits ==
    ASSUME answer \in Answers
    PROVE  \E l \in Nat : Len(MeantText) = l /\ l <= Len(Text(answer))
  <1> DEFINE nodes == answer.nodes
  <1>1. nodes \in Seq(Node) /\ MeantText = NodeText(nodes, answer.ok)
    BY AnswerNodes, MeantFacts
  <1>2. Xml(nodes) \in Seq(Token)
    BY <1>1, XmlText
  <1>3. PICK x \in Nat : Len(Xml(nodes)) = x
    BY <1>2
  <1>4. x <= Len(Text(answer))
    <2>1. Len(Text(answer)) = Before(answer) + x
      BY <1>3, TextFacts
    <2>2. Before(answer) \in Nat
      BY DEF Before
    <2> QED
      BY <2>1, <2>2
  <1> HIDE DEF nodes
  <1>5. CASE MeantText = <<>>
    BY <1>4, <1>5
  <1>6. CASE \E k \in 1..Len(nodes) : MeantText = nodes[k].text
    <2>1. PICK k \in 1..Len(nodes) : MeantText = nodes[k].text
      BY <1>6
    <2>2. Len(nodes[k].text) <= x
      BY <1>1, <1>3, TextsFit
    <2>3. nodes[k].text \in Seq(Token)
      <3>1. nodes[k] \in Node
        BY <1>1
      <3> QED
        BY <3>1, TextTokens
    <2>4. PICK l \in Nat : Len(nodes[k].text) = l
      BY <2>3
    <2>5. PICK N \in Nat : Len(Text(answer)) = N
      BY <1>3, TextFacts DEF Before, nodes
    <2> QED
      BY <1>4, <2>1, <2>2, <2>4, <2>5
  <1>7. MeantText = <<>> \/ \E k \in 1..Len(nodes) : MeantText = nodes[k].text
    <2>1. PICK K \in Nat : Len(nodes) = K
      BY <1>1
    <2> DEFINE k == IF answer.ok THEN 1 ELSE IF K >= 3 THEN 3 ELSE 2
    <2>2. k \in Nat /\ k >= 1
      OBVIOUS
    <2>3. NodeText(nodes, answer.ok) = <<>> \/ (k <= K /\ NodeText(nodes, answer.ok) = nodes[k].text)
      BY <2>1 DEF NodeText
    <2> HIDE DEF k
    <2>4. k <= K => k \in 1..Len(nodes)
      BY <2>1, <2>2
    <2> QED
      BY <1>1, <2>3, <2>4
  <1> QED
    BY <1>5, <1>6, <1>7

-----------------------------------------------------------------------------
(* What is taken from a response                                           *)

(* s begins with n tokens of the text of a.                                *)
Starts(s, a, n) == n <= Len(Text(a)) /\ n <= Len(s) /\ Agree(s, Text(a), n)

(* The header of a response that has it whole.                             *)
LEMMA HeaderTokens ==
    ASSUME NEW a \in Answers, NEW s \in Seq(Token), Starts(s, a, 3)
    PROVE  /\ Len(s) >= 3 /\ s[1] = (IF a.ok THEN "200 OK" ELSE "500") /\ s[2] = "field" /\ s[3] = "blank line"
  <1>1. Len(s) >= 3 /\ \A i \in 1..3 : s[i] = Text(a)[i]
    BY DEF Starts, Agree
  <1>2. s[1] = Text(a)[1] /\ s[2] = Text(a)[2] /\ s[3] = Text(a)[3]
    BY <1>1
  <1>3. Spelt(Text(a), a)
    BY TextFacts
  <1> QED
    BY <1>1, <1>2, <1>3 DEF Spelt

(* The end of the header is found.                                         *)
LEMMA BlankFound ==
    ASSUME NEW a \in Answers, NEW s \in Seq(Token), Starts(s, a, 3), NEW len \in Nat, len >= 3
    PROVE  strnstr(s, "blank line", len) = 3
  <1>1. /\ Len(s) >= 3 /\ s[1] = (IF a.ok THEN "200 OK" ELSE "500") /\ s[2] = "field" /\ s[3] = "blank line"
    BY HeaderTokens
  <1>2. PICK k \in 1..Len(s) : k = 3
    <2>0. PICK L \in Nat : Len(s) = L
      OBVIOUS
    <2>1. L >= 3
      BY <1>1, <2>0
    <2>2. 3 \in 1..L
      BY <2>1
    <2> QED
      BY <2>0, <2>2
  <1>3. \A i \in 1..k - 1 : s[i] # "blank line"
    <2> TAKE i \in 1..k - 1
    <2>1. i \in {1, 2}
      BY <1>2
    <2> QED
      BY <1>1, <2>1
  <1>4. s[k] = "blank line" /\ k <= len
    BY <1>1, <1>2
  <1>5. strnstr(s, "blank line", len) = k
    BY <1>3, <1>4, Found
  <1> QED
    BY <1>2, <1>5

(* It is not found before it has been read.                                *)
LEMMA BlankMissing ==
    ASSUME NEW a \in Answers, NEW s \in Seq(Token), NEW len \in Nat, len < 3, Len(s) = len, Starts(s, a, len)
    PROVE  strnstr(s, "blank line", len) = 0
  <1>1. Spelt(Text(a), a)
    BY TextFacts
  <1>2. \A i \in 1..Len(s) : i <= len => s[i] # "blank line"
    <2> TAKE i \in 1..Len(s)
    <2>1. s[i] = Text(a)[i] /\ i \in {1, 2}
      BY DEF Starts, Agree
    <2> QED
      BY <1>1, <2>1 DEF Spelt
  <1> QED
    BY <1>2, NotFound

(* The status is that of the header.                                       *)
LEMMA StatusRead ==
    ASSUME NEW a \in Answers, NEW s \in Seq(Token), Starts(s, a, 3), NEW len \in Nat, len >= 3
    PROVE  get_http_status(s, len) <=> a.ok
  <1>1. /\ Len(s) >= 3 /\ s[1] = (IF a.ok THEN "200 OK" ELSE "500") /\ s[2] = "field" /\ s[3] = "blank line"
    BY HeaderTokens
  <1>2. PICK two \in Nat : two = 2
    OBVIOUS
  <1>3. PICK L \in Nat : Len(s) = L
    OBVIOUS
  <1> DEFINE h == http_header(s, len)
  <1>4. h = Prefix(s, two)
    <2>1. strnstr(s, "blank line", len) = 3
      BY BlankFound
    <2>2. 3 - 1 = two
      BY <1>2
    <2> QED
      BY <2>1, <2>2 DEF http_header
  <1>5. two <= L
    <2>1. L >= 3
      BY <1>1, <1>3
    <2> QED
      BY <1>2, <2>1
  <1>6. h \in Seq(Token) /\ Len(h) = two /\ \A i \in 1..two : h[i] = s[i]
    <2> HIDE DEF h
    <2>1. /\ Prefix(s, two) \in Seq(Token) /\ Len(Prefix(s, two)) = two
          /\ \A i \in 1..two : Prefix(s, two)[i] = s[i]
      BY <1>3, <1>5, FirstTokens
    <2> QED
      BY <1>4, <2>1
  <1>7. get_http_status(s, len) <=> strnstr(h, "200 OK", Len(h)) # 0
    BY DEF get_http_status
  <1> HIDE DEF h
  <1>8. h[1] = s[1] /\ h[2] = s[2]
    BY <1>2, <1>6
  <1>9. CASE a.ok
    <2>1. PICK k \in 1..Len(h) : k = 1
      <3>1. 1 \in 1..Len(h)
        BY <1>2, <1>6
      <3> QED
        BY <3>1
    <2>2. h[k] = "200 OK" /\ k <= Len(h) /\ Len(h) \in Nat /\ \A i \in 1..k - 1 : h[i] # "200 OK"
      <3>1. h[1] = "200 OK"
        BY <1>1, <1>8, <1>9
      <3>2. 1 <= Len(h) /\ Len(h) \in Nat
        BY <1>2, <1>6
      <3>3. 1..k - 1 = {}
        BY <2>1
      <3> QED
        BY <2>1, <3>1, <3>2, <3>3
    <2>3. strnstr(h, "200 OK", Len(h)) = k
      BY <1>6, <2>2, Found
    <2>4. strnstr(h, "200 OK", Len(h)) # 0
      <3>1. k # 0
        BY <2>1
      <3> QED
        BY <2>3, <3>1
    <2> QED
      BY <1>7, <1>9, <2>4
  <1>10. CASE ~a.ok
    <2>1. \A i \in 1..Len(h) : i <= Len(h) => h[i] # "200 OK"
      <3> TAKE i \in 1..Len(h)
      <3>1. i \in {1, 2}
        BY <1>2, <1>6
      <3> QED
        BY <1>1, <1>8, <1>10, <3>1
    <2>2. Len(h) \in Nat
      BY <1>6
    <2>3. strnstr(h, "200 OK", Len(h)) = 0
      BY <2>1, <2>2, NotFound
    <2> QED
      BY <1>7, <1>10, <2>3
  <1> QED
    BY <1>9, <1>10

(* Where the document is found.                                            *)
LEMMA StartFound ==
    ASSUME NEW a \in Answers, NEW s \in Seq(Token), Starts(s, a, 3), NEW len \in Nat, len >= 3,
           NEW n \in Nat, Starts(s, a, n), n >= 6 \/ Len(s) = n
    PROVE  SoapStart(s, len) = IF n = 3 THEN 4 ELSE Before(a) + 1
  <1>1. PICK three \in Nat : three = 3
    OBVIOUS
  <1>2. PICK m \in Nat : Len(s) = three + m
    <2>0. PICK L \in Nat : Len(s) = L
      OBVIOUS
    <2>1. L >= 3
      BY <2>0, HeaderTokens
    <2>2. L - 3 \in Nat /\ L = three + (L - 3)
      BY <1>1, <2>1
    <2> QED
      BY <2>0, <2>2
  <1> DEFINE z == Suffix(s, three + 1)
  <1>3. z \in Seq(Token) /\ Len(z) = m /\ \A i \in 1..m : z[i] = s[three + i]
    BY <1>2, SuffixFacts
  <1>4. z = Suffix(s, 4)
    BY <1>1
  <1> DEFINE close == strnstr(z, "?>", len)
             decl == Prefix(z, 1) = <<"<?xml">>
  <1>5. SoapStart(s, len) = IF ~decl THEN 4 ELSE IF close = 0 THEN Len(s) + 2 ELSE 4 + close
    <2>1. strnstr(s, "blank line", len) = 3
      BY BlankFound
    <2>2. 3 # 0 /\ 3 + 1 = 4
      OBVIOUS
    <2> HIDE DEF z
    <2>3. SoapStart(s, len) = IF ~decl THEN 4 ELSE IF close = 0 THEN Len(s) + 2 ELSE 3 + close + 1
      BY <1>4, <2>1, <2>2 DEF SoapStart
    <2>4. close \in Nat => 3 + close + 1 = 4 + close
      OBVIOUS
    <2>5. close \in Nat
      <3> DEFINE S == {i \in 1..Len(z) : i <= len /\ z[i] = "?>"}
      <3>1. close = IF S = {} THEN 0 ELSE Min(S)
        BY DEF strnstr
      <3>2. S \in SUBSET Nat
        OBVIOUS
      <3> HIDE DEF S
      <3>3. S # {} => \E x \in S : \A y \in S : x <= y
        BY <3>2, LeastNumber
      <3>4. S # {} => Min(S) \in S
        BY <3>3 DEF Min
      <3>5. CASE S = {}
        BY <3>1, <3>5
      <3>6. CASE S # {}
        <4>1. Min(S) \in Nat
          BY <3>2, <3>4, <3>6
        <4> QED
          BY <3>1, <3>6, <4>1
      <3> QED
        BY <3>5, <3>6
    <2> QED
      BY <2>3, <2>4, <2>5
  <1>6. Spelt(Text(a), a) /\ Len(Text(a)) = Before(a) + Len(Xml(a.nodes)) /\ Len(Xml(a.nodes)) >= 2
    BY TextFacts, AnswerNodes, XmlText
  <1>7. Xml(a.nodes)[1] = "<" /\ 1 \in 1..Len(Xml(a.nodes))
    BY <1>6, AnswerNodes, XmlText
  <1>8. n >= 3
    BY DEF Starts
  <1>9. \A i \in 1..n : s[i] = Text(a)[i]
    BY DEF Starts, Agree
  <1> HIDE DEF z
  <1>10. decl <=> m >= 1 /\ z[1] = "<?xml"
    <2>1. PICK one \in Nat : one = 1
      OBVIOUS
    <2>2. CASE m >= 1
      <3>1. one <= m
        BY <2>1, <2>2
      <3>a. z \in Seq(Token) /\ Len(z) = m
        BY <1>3
      <3>2. Prefix(z, one) \in Seq(Token) /\ Len(Prefix(z, one)) = one /\ \A i \in 1..one : Prefix(z, one)[i] = z[i]
        BY <3>a, <3>1, FirstTokens
      <3>3. Prefix(z, 1) \in Seq(Token) /\ Len(Prefix(z, 1)) = 1 /\ Prefix(z, 1)[1] = z[1]
        BY <2>1, <3>2
      <3> DEFINE w == Prefix(z, 1)
      <3> HIDE DEF w
      <3>4. w = <<w[1]>>
        BY <3>3 DEF w
      <3>5. w = <<"<?xml">> <=> w[1] = "<?xml"
        BY <3>4
      <3> QED
        BY <2>2, <3>3, <3>5 DEF w
    <2>3. CASE m = 0
      <3>1. Lesser(m, one, m)
        BY <2>1, <2>3 DEF Lesser
      <3>2. Len(Prefix(z, one)) = m
        BY <1>3, <3>1, PrefixFacts
      <3>3. Len(Prefix(z, 1)) = 0
        BY <2>1, <2>3, <3>2
      <3>4. Len(<<"<?xml">>) = 1
        OBVIOUS
      <3>5. ~decl
        <4> SUFFICES ASSUME decl
                     PROVE  FALSE
          OBVIOUS
        <4> DEFINE w == Prefix(z, 1)
        <4>1. w = <<"<?xml">> /\ Len(w) = 0
          BY <3>3
        <4> HIDE DEF w
        <4>2. Len(w) = 1
          BY <4>1
        <4> QED
          BY <4>1, <4>2
      <3>6. ~ (m >= 1)
        BY <2>3
      <3> HIDE DEF decl
      <3> QED
        BY <3>5, <3>6
    <2> QED
      BY <2>2, <2>3
  <1>11. CASE n = 3
    <2>1. m = 0
      BY <1>1, <1>2, <1>11
    <2> QED
      BY <1>5, <1>10, <1>11, <2>1
  <1>12. CASE n > 3 /\ ~a.decl
    <2>1. 4 \in 1..n /\ m >= 1 /\ three + 1 = 4 /\ 1 \in 1..m
      BY <1>1, <1>2, <1>12 DEF Starts
    <2>2. Before(a) = 3 /\ 3 + 1 = 4
      BY <1>12 DEF Before
    <2>3. Text(a)[4] = "<"
      BY <1>6, <1>7, <2>2 DEF Spelt
    <2>4. z[1] = "<"
      BY <1>3, <1>9, <2>1, <2>3
    <2>5. SoapStart(s, len) = 4
      BY <1>5, <1>10, <2>4
    <2> QED
      BY <1>12, <2>2, <2>5
  <1>13. CASE n > 3 /\ a.decl
    <2>1. 4 \in 1..n /\ m >= 1 /\ three + 1 = 4 /\ 1 \in 1..m
      BY <1>1, <1>2, <1>13 DEF Starts
    <2>2. z[1] = "<?xml"
      <3>1. Text(a)[4] = "<?xml"
        BY <1>6, <1>13 DEF Spelt
      <3>2. s[4] = Text(a)[4]
        BY <1>9, <2>1
      <3>3. z[1] = s[4]
        BY <1>3, <2>1
      <3> QED
        BY <3>1, <3>2, <3>3
    <2>3. SoapStart(s, len) = IF close = 0 THEN Len(s) + 2 ELSE 4 + close
      BY <1>5, <1>10, <2>1, <2>2
    <2>4. Before(a) = 5
      BY <1>13 DEF Before
    <2>5. CASE n = 4
      <3>1. Len(s) = 4 /\ m = 1
        BY <1>1, <1>2, <2>5
      <3>2. \A i \in 1..Len(z) : i <= len => z[i] # "?>"
        BY <1>3, <2>2, <3>1
      <3>3. close = 0
        BY <3>2, NotFound
      <3> QED
        BY <2>3, <2>4, <2>5, <3>1, <3>3
    <2>6. CASE n # 4
      <3>1. 5 \in 1..n /\ m >= 2 /\ three + 2 = 5 /\ 2 \in 1..m
        BY <1>1, <1>2, <1>13, <2>6 DEF Starts
      <3>2. z[2] = "?>"
        <4>1. Text(a)[5] = "?>"
          BY <1>6, <1>13 DEF Spelt
        <4>2. s[5] = Text(a)[5]
          BY <1>9, <3>1
        <4>3. z[2] = s[5]
          BY <1>3, <3>1
        <4> QED
          BY <4>1, <4>2, <4>3
      <3>3. PICK k \in 1..Len(z) : k = 2
        BY <1>3, <3>1
      <3>4. \A i \in 1..k - 1 : z[i] # "?>"
        BY <2>2, <3>3
      <3>5. k <= len /\ z[k] = "?>"
        BY <3>2, <3>3
      <3>6. close = k
        BY <1>3, <3>4, <3>5, Found
      <3>7. SoapStart(s, len) = 6
        BY <2>3, <3>3, <3>6
      <3> QED
        BY <1>13, <2>4, <3>7
    <2> QED
      BY <2>5, <2>6
  <1> QED
    BY <1>8, <1>11, <1>12, <1>13

-----------------------------------------------------------------------------
(* The inductive invariant                                                 *)

(* What the variables hold.                                                *)
TypeInv ==
    /\ answer \in Answers
    /\ resp \in BOOLEAN
    /\ air \in Seq(Token) /\ stream \in Seq(Token)
    /\ szBuf \in Seq(Token) /\ szData \in Seq(Token)
    /\ total \in Nat

(* Nothing has been read.                                                  *)
Fresh ==
    /\ szBuf = <<>> /\ szData = <<>> /\ total = 0
    /\ Joined(Text(answer), stream, Len(stream), air, Len(air))

(* s begins with a full buffer, the beginning of the answer.               *)
Full(s) == Starts(s, answer, MAX_BUF_SIZE)

(* There is no end of a document among these tokens of s.                  *)
NoEndIn(s, m, n) == \A i \in m + 1..n : s[i] # ">"

(* One full buffer has been read, and appended with what is behind it.     *)
Filled ==
    /\ total = MAX_BUF_SIZE /\ Len(szBuf) = MAX_BUF_SIZE
    /\ Full(szBuf) /\ Full(szData)
    /\ NoEndIn(szData, MAX_BUF_SIZE, Len(szData))

(* More has been read than analysis_soap_response has room for.            *)
Past == total > MAX_BUF_SIZE /\ Full(szData) /\ Len(szData) >= 2 * MAX_BUF_SIZE

Beyond == total >= 2 * MAX_BUF_SIZE /\ Past

(* An answer, or the beginning of one, that did not fill the buffer.       *)
Short ==
    /\ total < MAX_BUF_SIZE /\ Len(szData) = total
    /\ Starts(szData, answer, total)

(* The read behind one full buffer found the end, or failed.  Behind the   *)
(* first buffer is what lies there in memory, and the header again.        *)
Twice ==
    /\ total \in {MAX_BUF_SIZE - 1, MAX_BUF_SIZE}
    /\ Full(szData) /\ Len(szData) >= 2 * MAX_BUF_SIZE
    /\ NoEndIn(szData, MAX_BUF_SIZE, MAX_BUF_SIZE + 5)

(* The answer was read to its end, and has room.                           *)
Whole == total = Len(Text(answer)) /\ total <= MAX_BUF_SIZE

(* What may be told of the answer.                                         *)
Safe(t) == (t.isOpOk => answer.ok) /\ t.msg \in {<<>>, MeantText}
Right(t) == Safe(t) /\ (Whole => t = Result(answer.ok, MeantText))

AnswerInv ==
    /\ TypeInv
    /\ pc = "select" => Fresh
    /\ pc = "read" => Fresh \/ Filled \/ Beyond
    /\ pc = "analyse" => total = 0 \/ Short \/ Twice \/ Past
    /\ pc = "silent" => total = 0 \/ ~resp
    /\ pc = "undefined" => ~Whole \/ Len(szData) >= 4 * MAX_BUF_SIZE \/ MeantText = <<>>
    /\ Safe(told)
    /\ pc = "told" => Right(told)

-----------------------------------------------------------------------------
(* What is told of a response                                              *)

(* The SOAP text begins behind the first b tokens of s.                    *)
CutAt(s, len, b, m) == Len(s) = b + m /\ SoapStart(s, len) = b + 1

(* The SOAP text, once its place is known.                                 *)
LEMMA SoapPiece ==
    ASSUME NEW s \in Seq(Token), NEW len \in Nat, NEW b \in Nat, NEW m \in Nat, CutAt(s, len, b, m),
           NEW r \in Nat, Lesser(r, len, m)
    PROVE  /\ soap(s, len) \in Seq(Token) /\ Len(soap(s, len)) = r
           /\ \A i \in 1..r : soap(s, len)[i] = s[b + i]
  <1> DEFINE z == Suffix(s, b + 1)
  <1>1. z \in Seq(Token) /\ Len(z) = m /\ \A i \in 1..m : z[i] = s[b + i]
    <2>1. Len(s) = b + m
      BY DEF CutAt
    <2> QED
      BY <2>1, SuffixFacts
  <1>2. soap(s, len) = Prefix(z, len)
    BY DEF soap, CutAt
  <1> HIDE DEF z
  <1>3. z \in Seq(Token) /\ Len(z) = m
    BY <1>1
  <1> DEFINE p == Prefix(z, len)
  <1>4. p \in Seq(Token) /\ Len(p) = r /\ \A i \in 1..r : p[i] = z[i]
    BY <1>3, PrefixFacts
  <1> HIDE DEF p
  <1>5. \A i \in 1..r : i \in 1..m
    BY DEF Lesser
  <1>6. \A i \in 1..r : p[i] = s[b + i]
    BY <1>1, <1>4, <1>5
  <1> QED
    BY <1>2, <1>4, <1>6 DEF p

(* A document that is there whole is understood.                           *)
LEMMA ContentThere ==
    ASSUME NEW nodes \in Seq(Node), NEW s \in Seq(Token), Len(Xml(nodes)) <= Len(s),
           Agree(s, Xml(nodes), Len(Xml(nodes))), NEW isOK
    PROVE  get_soap_content(s, isOK) = NodeText(nodes, isOK)
  <1>1. xml_parse_document(s).at = "done" /\ xml_parse_document(s).nodes = nodes
    BY WholeDocument
  <1> QED
    BY <1>1 DEF get_soap_content

(* One whose end is missing has no content.                                *)
LEMMA ContentMissing ==
    ASSUME NEW s \in Seq(Token), NoEnd(s), NEW isOK
    PROVE  get_soap_content(s, isOK) = <<>>
  <1>1. xml_parse_document(s).at # "done"
    BY NoEndNoDocument DEF NoEnd
  <1> QED
    BY <1>1 DEF get_soap_content

(* What is told of a response from which this status and this text are     *)
(* taken.                                                                  *)
LEMMA ToldRight ==
    ASSUME TypeInv, NEW s, NEW len, SoapStart(s, len) # 0, get_http_status(s, len) <=> answer.ok,
           LET content == get_soap_content(soap(s, len), answer.ok)
           IN  content = MeantText \/ (content = <<>> /\ ~Whole)
    PROVE  Right(analysis_soap_response(s, len))
  <1>1. get_http_status(s, len) \in BOOLEAN
    BY DEF get_http_status
  <1>2. answer.ok \in BOOLEAN
    BY AnswerNodes DEF TypeInv
  <1>3. get_http_status(s, len) = answer.ok
    BY <1>1, <1>2
  <1> DEFINE content == get_soap_content(soap(s, len), answer.ok)
             t == Result(answer.ok, content)
  <1>4. analysis_soap_response(s, len) = t
    BY <1>3 DEF analysis_soap_response
  <1>5. content = MeantText \/ (content = <<>> /\ ~Whole)
    OBVIOUS
  <1> HIDE DEF content
  <1>6. t.isOpOk = answer.ok /\ t.msg = content
    BY DEF Result
  <1>7. content = MeantText => t = Result(answer.ok, MeantText)
    OBVIOUS
  <1> HIDE DEF t
  <1>8. Right(t)
    BY <1>5, <1>6, <1>7 DEF Right, Safe
  <1> QED
    BY <1>4, <1>8

(* The sizes of an answer, and where its document is in its text.          *)
LEMMA AnswerShape ==
    ASSUME NEW a \in Answers
    PROVE  \E b \in Nat, x \in Nat :
               /\ b = Before(a) /\ b \in {3, 5} /\ x >= 2
               /\ Len(Xml(a.nodes)) = x /\ Len(Text(a)) = b + x
               /\ \A i \in 1..x : Text(a)[b + i] = Xml(a.nodes)[i]
  <1>1. a.nodes \in Seq(Node)
    BY AnswerNodes
  <1>2. Xml(a.nodes) \in Seq(Token) /\ Len(Xml(a.nodes)) >= 2
    BY <1>1, XmlText
  <1>3. PICK x \in Nat : Len(Xml(a.nodes)) = x
    BY <1>2
  <1>4. PICK b \in Nat : b = Before(a) /\ b \in {3, 5}
    BY DEF Before
  <1>5. Len(Text(a)) = Before(a) + Len(Xml(a.nodes)) /\ Spelt(Text(a), a)
    BY TextFacts
  <1>6. \A i \in 1..x : Text(a)[b + i] = Xml(a.nodes)[i]
    BY <1>3, <1>4, <1>5 DEF Spelt
  <1> QED
    BY <1>2, <1>3, <1>4, <1>5, <1>6

(* The document of an answer is understood.                                *)
LEMMA Understood ==
    ASSUME answer \in Answers, NEW u \in Seq(Token), NEW b \in Nat, NEW x \in Nat, NEW r \in Nat,
           Len(Xml(answer.nodes)) = x, Len(u) = r, x <= r,
           \A i \in 1..x : Text(answer)[b + i] = Xml(answer.nodes)[i],
           \A i \in 1..x : u[i] = Text(answer)[b + i]
    PROVE  get_soap_content(u, answer.ok) = MeantText
  <1>1. answer.nodes \in Seq(Node)
    BY AnswerNodes
  <1>2. Agree(u, Xml(answer.nodes), Len(Xml(answer.nodes)))
    BY DEF Agree
  <1>3. Len(Xml(answer.nodes)) <= Len(u)
    OBVIOUS
  <1>4. get_soap_content(u, answer.ok) = NodeText(answer.nodes, answer.ok)
    BY <1>1, <1>2, <1>3, ContentThere
  <1> QED
    BY <1>4, MeantFacts

(* The length of a buffer.                                                 *)
LEMMA Room == MAX_BUF_SIZE \in Nat /\ MAX_BUF_SIZE > 5
  BY AnswerAssumption

(* The header has room.                                                    *)
LEMMA HeaderRoom ==
    ASSUME NEW pos \in Nat, 0 < pos, pos <= 3
    PROVE  pos > 0 /\ ~ (pos - 1 > MAX_BUF_SIZE)
  BY Room

(* When analysis_soap_response stays inside its buffers.                   *)
LEMMA Within ==
    ASSUME NEW s \in Seq(Token), NEW len \in Nat, NEW L \in Nat, Len(s) = L, NEW st \in Nat, NEW r \in Nat,
           NEW pos \in Nat, 0 < pos, pos <= 3,
           strnstr(s, "blank line", len) = pos, SoapStart(s, len) = st, Len(soap(s, len)) = r
    PROVE  Overrun(s, len) <=> st > L + 1 \/ len > 3 * MAX_BUF_SIZE \/ r > MAX_BUF_SIZE
  <1>1. pos > 0 /\ ~ (pos - 1 > MAX_BUF_SIZE)
    BY HeaderRoom
  <1>2. Overrun(s, len) <=> pos > 0 /\ \/ pos - 1 > MAX_BUF_SIZE
                                       \/ st > L + 1
                                       \/ len > 3 * MAX_BUF_SIZE
                                       \/ r > MAX_BUF_SIZE
    BY DEF Overrun
  <1> QED
    BY <1>1, <1>2

(* A response that stops within the declaration runs over.                 *)
LEMMA Outside ==
    ASSUME NEW s \in Seq(Token), NEW len \in Nat, NEW L \in Nat, Len(s) = L, NEW st \in Nat, st > L + 1,
           NEW pos \in Nat, 0 < pos, strnstr(s, "blank line", len) = pos, SoapStart(s, len) = st
    PROVE  Overrun(s, len)
  <1>1. pos > 0
    OBVIOUS
  <1>2. Overrun(s, len) <=> pos > 0 /\ \/ pos - 1 > MAX_BUF_SIZE
                                       \/ st > L + 1
                                       \/ len > 3 * MAX_BUF_SIZE
                                       \/ Len(soap(s, len)) > MAX_BUF_SIZE
    BY DEF Overrun
  <1> QED
    BY <1>1, <1>2

(* A text that stops before the end of the answer has no end of a document.*)
LEMMA CutShort ==
    ASSUME NEW a \in Answers, NEW u \in Seq(Token), NEW r \in Nat, Len(u) = r,
           \A i \in 1..r : u[i] # ">" \/ \E j \in Nat : 1 <= j /\ j < Len(Text(a)) /\ u[i] = Text(a)[j]
    PROVE  NoEnd(u)
  <1>1. PICK N \in Nat : Len(Text(a)) = N
    BY AnswerShape
  <1>2. ASSUME NEW i \in 1..r
        PROVE  u[i] # ">"
    <2> SUFFICES ASSUME u[i] = ">"
                 PROVE  FALSE
      OBVIOUS
    <2>1. PICK j \in Nat : 1 <= j /\ j < N /\ u[i] = Text(a)[j]
      BY <1>1, <1>2
    <2>2. j \in 1..Len(Text(a)) - 1
      BY <1>1, <2>1
    <2>3. Text(a)[j] # ">"
      BY <2>2, TextEnd
    <2> QED
      BY <2>1, <2>3
  <1> QED
    BY <1>2 DEF NoEnd

(* What is told of an answer that did not fill the buffer of readn_fd.     *)
LEMMA ShortTold ==
    ASSUME TypeInv, Short, total # 0
    PROVE  /\ ~Overrun(szData, total) => Right(analysis_soap_response(szData, total))
           /\ total = Len(Text(answer)) => ~Overrun(szData, total)
  <1> DEFINE T == Text(answer)
  <1>1. answer \in Answers /\ szData \in Seq(Token) /\ total \in Nat
    BY DEF TypeInv
  <1>2. PICK n \in Nat : n = total
    BY <1>1
  <1>3. PICK s \in Seq(Token) : s = szData
    BY <1>1
  <1>4. Len(s) = n /\ n < MAX_BUF_SIZE /\ n # 0 /\ Starts(s, answer, n)
    BY <1>2, <1>3 DEF Short
  <1>5. PICK b \in Nat, x \in Nat :
            /\ b = Before(answer) /\ b \in {3, 5} /\ x >= 2
            /\ Len(Xml(answer.nodes)) = x /\ Len(T) = b + x
            /\ \A i \in 1..x : T[b + i] = Xml(answer.nodes)[i]
    BY <1>1, AnswerShape
  <1> HIDE DEF T
  <1>6. n <= b + x /\ \A i \in 1..n : s[i] = T[i]
    BY <1>4, <1>5 DEF Starts, Agree, T
  <1>7. CASE n < 3
    <2>1. strnstr(s, "blank line", n) = 0
      BY <1>1, <1>4, <1>7, BlankMissing
    <2>2. SoapStart(s, n) = 0
      BY <2>1 DEF SoapStart
    <2>3. analysis_soap_response(s, n) = Result(FALSE, <<>>)
      BY <2>2 DEF analysis_soap_response
    <2>4. total # Len(Text(answer))
      BY <1>2, <1>5, <1>7 DEF T
    <2>5. Right(Result(FALSE, <<>>))
      <3>1. Result(FALSE, <<>>).isOpOk = FALSE /\ Result(FALSE, <<>>).msg = <<>>
        BY DEF Result
      <3> QED
        BY <2>4, <3>1 DEF Right, Safe, Whole
    <2> QED
      BY <1>2, <1>3, <2>3, <2>4, <2>5
  <1>8. CASE n >= 3
    <2>1. Starts(s, answer, 3)
      <3>1. \A i \in 1..3 : i \in 1..n
        BY <1>8
      <3> QED
        BY <1>4, <1>5, <1>6, <1>8, <3>1 DEF Starts, Agree, T
    <2>2. PICK pos \in Nat : 0 < pos /\ pos <= 3 /\ strnstr(s, "blank line", n) = pos
      <3>1. strnstr(s, "blank line", n) = 3
        BY <1>1, <1>8, <2>1, BlankFound
      <3>2. 0 < 3 /\ 3 <= 3 /\ 3 \in Nat
        OBVIOUS
      <3> QED
        BY <3>1, <3>2
    <2>3. get_http_status(s, n) <=> answer.ok
      BY <1>1, <1>8, <2>1, StatusRead
    <2>4. SoapStart(s, n) = IF n = 3 THEN 4 ELSE b + 1
      BY <1>1, <1>4, <1>5, <1>8, <2>1, StartFound
    <2>5. PICK st \in Nat : st = IF n = 3 THEN 4 ELSE b + 1
      OBVIOUS
    <2>6. SoapStart(s, n) = st /\ st # 0
      BY <2>4, <2>5
    <2>7. CASE st > n + 1
      <3>1. Overrun(s, n)
        BY <1>4, <2>2, <2>6, <2>7, Outside
      <3>2. n # b + x
        BY <1>5, <2>5, <2>7
      <3> QED
        BY <1>2, <1>3, <1>5, <3>1, <3>2 DEF T
    <2>8. CASE st <= n + 1
      <3>1. PICK d \in Nat, m \in Nat : st = d + 1 /\ n = d + m
        <4>1. st - 1 \in Nat /\ n - (st - 1) \in Nat /\ st = (st - 1) + 1 /\ n = (st - 1) + (n - (st - 1))
          BY <2>5, <2>8
        <4> QED
          BY <4>1
      <3>2. Lesser(m, n, m)
        BY <3>1 DEF Lesser
      <3>3. CutAt(s, n, d, m)
        BY <1>4, <2>6, <3>1 DEF CutAt
      <3> DEFINE u == soap(s, n)
      <3>4. u \in Seq(Token) /\ Len(u) = m /\ \A i \in 1..m : u[i] = s[d + i]
        BY <3>2, <3>3, SoapPiece
      <3>5. ~Overrun(s, n)
        <4>1. ~ (st > n + 1) /\ ~ (n > 3 * MAX_BUF_SIZE) /\ ~ (m > MAX_BUF_SIZE)
          BY <1>4, <2>8, <3>1, Room
        <4> QED
          BY <1>4, <2>2, <2>6, <3>4, <4>1, Within
      <3> HIDE DEF u
      <3>6. \A i \in 1..m : d + i \in 1..n
        BY <3>1
      <3>7. \A i \in 1..m : u[i] = T[d + i]
        BY <1>6, <3>4, <3>6
      <3> DEFINE content == get_soap_content(u, answer.ok)
      <3>8. CASE n = b + x
        <4>1. d = b /\ m = x
          BY <1>5, <2>5, <3>1, <3>8
        <4>2. \A i \in 1..x : u[i] = T[b + i]
          BY <3>7, <4>1
        <4>3. x <= m
          BY <4>1
        <4>4. content = MeantText
          BY <1>1, <1>5, <3>4, <4>2, <4>3, Understood DEF T
        <4>5. Right(analysis_soap_response(s, n))
          BY <2>3, <2>6, <4>4, ToldRight DEF u
        <4> QED
          BY <1>2, <1>3, <3>5, <4>5
      <3>9. CASE n # b + x
        <4>1. \A i \in 1..m : u[i] # ">" \/ \E j \in Nat : 1 <= j /\ j < Len(T) /\ u[i] = T[j]
          <5> TAKE i \in 1..m
          <5>1. d + i \in Nat /\ 1 <= d + i /\ d + i < Len(T)
            BY <1>5, <1>6, <3>1, <3>9
          <5>2. u[i] = T[d + i]
            BY <3>7
          <5> QED
            BY <5>1, <5>2
        <4>2. NoEnd(u)
          BY <1>1, <3>4, <4>1, CutShort DEF T
        <4>3. content = <<>>
          BY <3>4, <4>2, ContentMissing
        <4>4. total # Len(Text(answer))
          BY <1>2, <1>5, <3>9 DEF T
        <4>5. Right(analysis_soap_response(s, n))
          BY <2>3, <2>6, <4>3, <4>4, ToldRight DEF u, Whole
        <4> QED
          BY <1>2, <1>3, <4>4, <4>5
      <3> QED
        BY <3>8, <3>9
    <2> QED
      BY <2>7, <2>8
  <1> QED
    BY <1>7, <1>8

(* The header of a response that begins with a full buffer.                *)
LEMMA FullHeader ==
    ASSUME answer \in Answers, NEW s \in Seq(Token), Full(s), NEW len \in Nat, len >= 3
    PROVE  /\ \E pos \in Nat : 0 < pos /\ pos <= 3 /\ strnstr(s, "blank line", len) = pos
           /\ get_http_status(s, len) <=> answer.ok
           /\ SoapStart(s, len) = Before(answer) + 1
  <1>1. PICK M \in Nat : M = MAX_BUF_SIZE /\ M > 5
    BY Room
  <1>2. Starts(s, answer, M)
    BY <1>1 DEF Full
  <1>3. PICK L \in Nat : Len(s) = L
    OBVIOUS
  <1>4. PICK N \in Nat : Len(Text(answer)) = N
    BY AnswerShape
  <1>5. Starts(s, answer, 3)
    <2>1. M <= L /\ M <= N /\ \A i \in 1..M : s[i] = Text(answer)[i]
      BY <1>2, <1>3, <1>4 DEF Starts, Agree
    <2>2. 3 <= L /\ 3 <= N /\ \A i \in 1..3 : i \in 1..M
      BY <1>1, <2>1
    <2> QED
      BY <1>3, <1>4, <2>1, <2>2 DEF Starts, Agree
  <1>6. strnstr(s, "blank line", len) = 3
    BY <1>5, BlankFound
  <1>7. 3 \in Nat /\ 0 < 3 /\ 3 <= 3
    OBVIOUS
  <1>8. get_http_status(s, len) <=> answer.ok
    BY <1>5, StatusRead
  <1>9. M >= 6 /\ M # 3
    BY <1>1
  <1>10. SoapStart(s, len) = IF M = 3 THEN 4 ELSE Before(answer) + 1
    BY <1>2, <1>5, <1>9, StartFound
  <1> QED
    BY <1>6, <1>7, <1>8, <1>9, <1>10

(* What is told of an answer whose beginning was appended twice.           *)
LEMMA TwiceTold ==
    ASSUME TypeInv, Twice
    PROVE  ~Overrun(szData, total) /\ Right(analysis_soap_response(szData, total))
  <1> DEFINE T == Text(answer)
  <1>1. answer \in Answers /\ szData \in Seq(Token) /\ total \in Nat
    BY DEF TypeInv
  <1>2. PICK M \in Nat : M = MAX_BUF_SIZE /\ M > 5
    BY Room
  <1>3. PICK n \in Nat : n = total /\ n <= M /\ n >= M - 1
    BY <1>1, <1>2 DEF Twice
  <1>4. PICK s \in Seq(Token) : s = szData
    BY <1>1
  <1>6. PICK L \in Nat : Len(s) = L
    OBVIOUS
  <1>7. PICK b \in Nat, x \in Nat :
            /\ b = Before(answer) /\ b \in {3, 5} /\ x >= 2
            /\ Len(Xml(answer.nodes)) = x /\ Len(T) = b + x
            /\ \A i \in 1..x : T[b + i] = Xml(answer.nodes)[i]
    BY <1>1, AnswerShape
  <1> HIDE DEF T
  <1>8. Full(s) /\ L >= 2 * M /\ NoEndIn(s, M, M + 5)
    BY <1>2, <1>4, <1>6 DEF Twice
  <1>9. M <= b + x /\ \A i \in 1..M : s[i] = T[i]
    BY <1>2, <1>7, <1>8 DEF Full, Starts, Agree, T
  <1>10. n >= 3
    BY <1>2, <1>3
  <1>11. /\ \E pos \in Nat : 0 < pos /\ pos <= 3 /\ strnstr(s, "blank line", n) = pos
         /\ get_http_status(s, n) <=> answer.ok
         /\ SoapStart(s, n) = b + 1
    BY <1>1, <1>7, <1>8, <1>10, FullHeader
  <1>12. PICK pos \in Nat : 0 < pos /\ pos <= 3 /\ strnstr(s, "blank line", n) = pos
    BY <1>11
  <1>13. PICK m \in Nat : L = b + m
    <2>1. L - b \in Nat /\ L = b + (L - b)
      BY <1>2, <1>7, <1>8
    <2> QED
      BY <2>1
  <1>14. CutAt(s, n, b, m)
    BY <1>6, <1>11, <1>13 DEF CutAt
  <1>15. Lesser(n, n, m)
    <2>1. L >= 2 * M /\ b <= 5
      BY <1>7, <1>8
    <2>2. n <= m
      BY <1>2, <1>3, <1>13, <2>1
    <2> QED
      BY <2>2 DEF Lesser
  <1> DEFINE u == soap(s, n)
  <1>16. u \in Seq(Token) /\ Len(u) = n /\ \A i \in 1..n : u[i] = s[b + i]
    BY <1>14, <1>15, SoapPiece
  <1>17. ~Overrun(s, n)
    <2>1. PICK st \in Nat : st = b + 1
      OBVIOUS
    <2>2. ~ (st > L + 1) /\ ~ (n > 3 * MAX_BUF_SIZE) /\ ~ (n > MAX_BUF_SIZE)
      BY <1>2, <1>3, <1>13, <2>1
    <2>3. SoapStart(s, n) = st
      BY <1>11, <2>1
    <2> QED
      BY <1>6, <1>12, <1>16, <2>2, <2>3, Within
  <1> HIDE DEF u
  <1>18. SoapStart(s, n) # 0
    <2>1. b + 1 # 0
      OBVIOUS
    <2> QED
      BY <1>11, <2>1
  <1> DEFINE content == get_soap_content(u, answer.ok)
  <1>19. CASE M = b + x
    <2>1. x <= n
      BY <1>3, <1>7, <1>19
    <2>2. \A i \in 1..x : u[i] = T[b + i]
      <3> TAKE i \in 1..x
      <3>1. i \in 1..n /\ b + i \in 1..M
        BY <1>19, <2>1
      <3> QED
        BY <1>9, <1>16, <3>1
    <2>3. content = MeantText
      BY <1>1, <1>7, <1>16, <2>1, <2>2, Understood DEF T
    <2>4. Right(analysis_soap_response(s, n))
      BY <1>11, <1>18, <2>3, ToldRight DEF u
    <2> QED
      BY <1>3, <1>4, <1>17, <2>4
  <1>20. CASE M # b + x
    <2>1. \A i \in 1..n : u[i] # ">" \/ \E j \in Nat : 1 <= j /\ j < Len(T) /\ u[i] = T[j]
      <3> TAKE i \in 1..n
      <3>1. u[i] = s[b + i]
        BY <1>16
      <3>2. PICK k \in Nat : k = b + i /\ k >= 1 /\ k <= M + 5
        BY <1>3, <1>7
      <3>3. CASE k <= M
        <4>1. k \in 1..M /\ 1 <= k /\ k < Len(T)
          BY <1>7, <1>9, <1>20, <3>2, <3>3
        <4>2. u[i] = T[k]
          BY <1>9, <3>1, <3>2, <4>1
        <4> QED
          BY <4>1, <4>2
      <3>4. CASE k > M
        <4>1. k \in M + 1..M + 5
          BY <3>2, <3>4
        <4> QED
          BY <1>8, <3>1, <3>2, <4>1 DEF NoEndIn
      <3> QED
        BY <3>3, <3>4
    <2>2. NoEnd(u)
      BY <1>1, <1>16, <2>1, CutShort DEF T
    <2>3. content = <<>>
      BY <1>16, <2>2, ContentMissing
    <2>4. total # Len(Text(answer))
      BY <1>3, <1>7, <1>9, <1>20 DEF T
    <2>5. Right(analysis_soap_response(s, n))
      BY <1>11, <1>18, <2>3, <2>4, ToldRight DEF u, Whole
    <2> QED
      BY <1>3, <1>4, <1>17, <2>5
  <1> QED
    BY <1>19, <1>20

(* A longer one runs over the buffer of the SOAP text.                     *)
LEMMA PastOverrun ==
    ASSUME TypeInv, Past
    PROVE  Overrun(szData, total)
  <1>1. answer \in Answers /\ szData \in Seq(Token) /\ total \in Nat
    BY DEF TypeInv
  <1>2. PICK M \in Nat : M = MAX_BUF_SIZE /\ M > 5
    BY Room
  <1>3. PICK n \in Nat : n = total /\ n > M
    BY <1>1, <1>2 DEF Past
  <1>4. PICK s \in Seq(Token) : s = szData
    BY <1>1
  <1>5. PICK L \in Nat : Len(s) = L
    OBVIOUS
  <1>6. Full(s) /\ L >= 2 * M
    BY <1>2, <1>4, <1>5 DEF Past
  <1>7. PICK b \in Nat : b = Before(answer) /\ b \in {3, 5}
    BY <1>1, AnswerShape
  <1>8. n >= 3
    BY <1>2, <1>3
  <1>9. /\ \E pos \in Nat : 0 < pos /\ pos <= 3 /\ strnstr(s, "blank line", n) = pos
        /\ SoapStart(s, n) = b + 1
    BY <1>1, <1>6, <1>7, <1>8, FullHeader
  <1>10. PICK pos \in Nat : 0 < pos /\ pos <= 3 /\ strnstr(s, "blank line", n) = pos
    BY <1>9
  <1>11. PICK m \in Nat : L = b + m
    <2>1. L - b \in Nat /\ L = b + (L - b)
      BY <1>2, <1>6, <1>7
    <2> QED
      BY <2>1
  <1>12. CutAt(s, n, b, m)
    BY <1>5, <1>9, <1>11 DEF CutAt
  <1>13. PICK r \in Nat : r <= n /\ r <= m /\ (r = n \/ r = m)
    OBVIOUS
  <1>14. Lesser(r, n, m)
    BY <1>13 DEF Lesser
  <1>15. Len(soap(s, n)) = r
    BY <1>12, <1>14, SoapPiece
  <1>16. r > M
    BY <1>2, <1>3, <1>6, <1>7, <1>11, <1>13
  <1>17. PICK st \in Nat : st = b + 1
    OBVIOUS
  <1>18. SoapStart(s, n) = st
    BY <1>9, <1>17
  <1>19. r > MAX_BUF_SIZE
    BY <1>2, <1>16
  <1>20. Overrun(s, n)
    BY <1>5, <1>10, <1>15, <1>18, <1>19, Within
  <1> QED
    BY <1>3, <1>4, <1>20

-----------------------------------------------------------------------------
(* Reading                                                                 *)

(* A text without its first n tokens, however many it has.                 *)
LEMMA RestFacts ==
    ASSUME NEW s \in Seq(Token), NEW L \in Nat, Len(s) = L, NEW n \in Nat, NEW m \in Nat,
           m = IF n <= L THEN L - n ELSE 0
    PROVE  Suffix(s, n + 1) \in Seq(Token) /\ Len(Suffix(s, n + 1)) = m
  <1>1. CASE n <= L
    <2>1. Len(s) = n + m
      BY <1>1
    <2> QED
      BY <2>1, SuffixFacts
  <1>2. CASE n > L
    <2>1. PICK a \in Int, b \in Int : a = n + 1 /\ b = L
      OBVIOUS
    <2>2. \A i \in a..b : s[i] \in Token
      BY <1>2, <2>1
    <2> DEFINE u == SubSeq(s, a, b)
    <2>3. u \in Seq(Token) /\ Len(u) = IF a <= b THEN (b - a) + 1 ELSE 0
      BY <2>2, SubSeqProperties
    <2>4. Suffix(s, n + 1) = u
      BY <2>1 DEF Suffix
    <2> HIDE DEF u
    <2>5. ~ (a <= b) /\ m = 0
      BY <1>2, <2>1
    <2> QED
      BY <2>3, <2>4, <2>5
  <1> QED
    BY <1>1, <1>2

(* A read of n tokens into a buffer that holds p.                          *)
LEMMA OverwriteFacts ==
    ASSUME NEW buf \in Seq(Token), NEW p \in Nat, Len(buf) = p,
           NEW bytes \in Seq(Token), NEW n \in Nat, Len(bytes) = n
    PROVE  /\ Overwrite(buf, bytes) \in Seq(Token)
           /\ Len(Overwrite(buf, bytes)) = IF n <= p THEN p ELSE n
           /\ Agree(Overwrite(buf, bytes), bytes, n)
  <1>1. PICK m \in Nat : m = IF n <= p THEN p - n ELSE 0
    <2>1. n <= p => p - n \in Nat
      OBVIOUS
    <2>2. (IF n <= p THEN p - n ELSE 0) \in Nat
      BY <2>1
    <2> QED
      BY <2>2
  <1> DEFINE rest == Suffix(buf, n + 1)
             u == bytes \o rest
  <1>2. rest \in Seq(Token) /\ Len(rest) = m
    BY <1>1, RestFacts
  <1>3. Overwrite(buf, bytes) = u
    BY DEF Overwrite
  <1> HIDE DEF rest
  <1>4. u \in Seq(Token) /\ Joined(u, bytes, n, rest, m)
    BY <1>2, ConcatFacts
  <1> HIDE DEF u
  <1>5. Len(u) = n + m /\ Agree(u, bytes, n)
    BY <1>4 DEF Joined, Agree
  <1>6. n + m = IF n <= p THEN p ELSE n
    BY <1>1
  <1> QED
    BY <1>3, <1>4, <1>5, <1>6

(* w is s with buf behind it, and c tokens of what is behind buf.          *)
Appended(w, s, p, buf, q, c) ==
    /\ Len(w) = p + q + c
    /\ \A i \in 1..p : w[i] = s[i]
    /\ \A i \in 1..q : w[p + i] = buf[i]
    /\ c # 0 => q = MAX_BUF_SIZE
    /\ NoEndIn(w, p + q, p + q + c)

(* What may lie behind the buffer.                                         *)
LEMMA TailFacts ==
    ASSUME NEW buf, NEW q \in Nat, Len(buf) = q, NEW tail \in Behind(buf)
    PROVE  \E c \in Nat : /\ tail \in Seq(Token) /\ Len(tail) = c
                          /\ c # 0 => q = MAX_BUF_SIZE
                          /\ \A i \in 1..c : tail[i] # ">"
  <1>1. CASE q = MAX_BUF_SIZE
    <2>1. tail \in Seq(STRING \ {">"})
      BY <1>1, AnswerAssumption DEF Behind
    <2>2. PICK c \in Nat : Len(tail) = c
      BY <2>1
    <2>3. tail \in [1..c -> STRING \ {">"}]
      BY <2>1, <2>2, SeqIsFunction
    <2>4. \A i \in 1..c : tail[i] \in Token /\ tail[i] # ">"
      BY <2>3 DEF Token
    <2>5. tail \in [1..c -> Token]
      BY <2>3, <2>4
    <2>6. tail \in Seq(Token)
      BY <2>5, FunctionIsSeq
    <2> QED
      BY <1>1, <2>2, <2>4, <2>6
  <1>2. CASE q # MAX_BUF_SIZE
    <2>1. tail = <<>>
      BY <1>2 DEF Behind
    <2>2. tail \in Seq(Token) /\ Len(tail) = 0
      BY <2>1, EmptySeq
    <2> QED
      BY <2>2
  <1> QED
    BY <1>1, <1>2

(* strcat appends the buffer in this way.                                  *)
LEMMA StrcatFacts ==
    ASSUME NEW s \in Seq(Token), NEW p \in Nat, Len(s) = p,
           NEW buf \in Seq(Token), NEW q \in Nat, Len(buf) = q, NEW junk \in Behind(buf)
    PROVE  s \o buf \o junk \in Seq(Token) /\ \E c \in Nat : Appended(s \o buf \o junk, s, p, buf, q, c)
  <1>1. PICK c \in Nat : /\ junk \in Seq(Token) /\ Len(junk) = c
                         /\ c # 0 => q = MAX_BUF_SIZE
                         /\ \A i \in 1..c : junk[i] # ">"
    BY TailFacts
  <1> DEFINE u == s \o buf
             w == u \o junk
  <1>2. u \in Seq(Token) /\ Joined(u, s, p, buf, q)
    BY ConcatFacts
  <1>3. PICK l \in Nat : l = p + q
    OBVIOUS
  <1> HIDE DEF u
  <1>4. Len(u) = l
    BY <1>2, <1>3 DEF Joined
  <1>5. w \in Seq(Token) /\ Joined(w, u, l, junk, c)
    BY <1>1, <1>2, <1>4, ConcatFacts
  <1> HIDE DEF w
  <1>6. Len(w) = p + q + c
    BY <1>3, <1>5 DEF Joined
  <1>7. \A i \in 1..p : w[i] = s[i]
    <2> TAKE i \in 1..p
    <2>1. i \in 1..l
      BY <1>3
    <2> QED
      BY <1>2, <1>5, <2>1 DEF Joined
  <1>8. \A i \in 1..q : w[p + i] = buf[i]
    <2> TAKE i \in 1..q
    <2>1. p + i \in 1..l
      BY <1>3
    <2> QED
      BY <1>2, <1>5, <2>1 DEF Joined
  <1>9. NoEndIn(w, l, l + c)
    <2> SUFFICES ASSUME NEW i \in l + 1..l + c
                 PROVE  w[i] # ">"
      BY DEF NoEndIn
    <2>1. PICK j \in 1..c : i = l + j
      <3>1. i - l \in 1..c /\ i = l + (i - l)
        OBVIOUS
      <3> QED
        BY <3>1
    <2>2. w[i] = junk[j]
      BY <1>5, <2>1 DEF Joined
    <2> QED
      BY <1>1, <2>2
  <1>10. Appended(w, s, p, buf, q, c)
    BY <1>1, <1>3, <1>6, <1>7, <1>8, <1>9 DEF Appended
  <1> QED
    BY <1>1, <1>5, <1>10 DEF w, u

(* What arrives is the rest of the answer.                                 *)
LEMMA ArriveFacts ==
    ASSUME NEW T, NEW s \in Seq(Token), NEW a \in Seq(Token), Joined(T, s, Len(s), a, Len(a)), NEW n \in 1..Len(a)
    PROVE  LET s1 == s \o SubSeq(a, 1, n)
               a1 == Suffix(a, n + 1)
           IN  s1 \in Seq(Token) /\ a1 \in Seq(Token) /\ Joined(T, s1, Len(s1), a1, Len(a1))
  <1>1. PICK p \in Nat, q \in Nat : Len(s) = p /\ Len(a) = q
    OBVIOUS
  <1>2. PICK m \in Nat : q = n + m /\ n \in Nat /\ n <= q
    <2>1. n \in 1..q
      BY <1>1
    <2>2. q - n \in Nat /\ q = n + (q - n)
      BY <2>1
    <2> QED
      BY <2>1, <2>2
  <1> DEFINE d == SubSeq(a, 1, n)
             s1 == s \o d
             a1 == Suffix(a, n + 1)
  <1>3. d = Prefix(a, n)
    BY <1>1, <1>2 DEF Prefix
  <1>4. d \in Seq(Token) /\ Len(d) = n /\ \A i \in 1..n : d[i] = a[i]
    BY <1>1, <1>2, <1>3, FirstTokens
  <1>5. a1 \in Seq(Token) /\ Len(a1) = m /\ \A i \in 1..m : a1[i] = a[n + i]
    <2>1. Len(a) = n + m
      BY <1>1, <1>2
    <2> QED
      BY <1>2, <2>1, SuffixFacts
  <1> HIDE DEF d, a1
  <1>6. s1 \in Seq(Token) /\ Joined(s1, s, p, d, n)
    BY <1>1, <1>2, <1>4, ConcatFacts
  <1>7. PICK l \in Nat : l = p + n
    BY <1>2
  <1> HIDE DEF s1
  <1>8. Len(s1) = l
    BY <1>6, <1>7 DEF Joined
  <1>9. /\ Len(T) = p + q
        /\ \A i \in 1..p : T[i] = s[i]
        /\ \A i \in 1..q : T[p + i] = a[i]
    BY <1>1 DEF Joined
  <1>10. Len(T) = l + m
    BY <1>2, <1>7, <1>9
  <1>11. ASSUME NEW i \in 1..l
         PROVE  T[i] = s1[i]
    <2>1. CASE i <= p
      <3>1. i \in 1..p
        BY <2>1
      <3> QED
        BY <1>6, <1>9, <3>1 DEF Joined
    <2>2. CASE i > p
      <3>1. PICK j \in Nat : i = p + j /\ j \in 1..n /\ j \in 1..q
        <4>1. i - p \in Nat /\ i = p + (i - p) /\ i - p \in 1..n /\ i - p \in 1..q
          BY <1>2, <1>7, <2>2
        <4> QED
          BY <4>1
      <3>2. s1[i] = d[j] /\ d[j] = a[j]
        BY <1>4, <1>6, <3>1 DEF Joined
      <3>3. T[i] = a[j]
        BY <1>9, <3>1
      <3> QED
        BY <3>2, <3>3
    <2> QED
      BY <1>7, <2>1, <2>2
  <1>12. ASSUME NEW i \in 1..m
         PROVE  T[l + i] = a1[i]
    <2>1. n + i \in 1..q /\ l + i = p + (n + i)
      BY <1>2, <1>7
    <2>2. T[p + (n + i)] = a[n + i]
      BY <1>9, <2>1
    <2> QED
      BY <1>5, <2>1, <2>2
  <1>13. Joined(T, s1, l, a1, m)
    BY <1>10, <1>11, <1>12 DEF Joined
  <1>14. s1 \in Seq(Token) /\ a1 \in Seq(Token) /\ Joined(T, s1, Len(s1), a1, Len(a1))
    BY <1>5, <1>6, <1>8, <1>13
  <1> QED
    BY <1>14 DEF s1, a1, d

-----------------------------------------------------------------------------
(* The rounds of readn_fd                                                  *)

(* The bytes of a round fit into what is read.                             *)
Fits(n) == total + n >= 0 /\ total + n < 4 * MAX_BUF_SIZE

(* What one round does.                                                    *)
LEMMA RoundFacts ==
    ASSUME TypeInv, NEW n \in Int, NEW bytes \in Seq(Token), Round(n, bytes)
    PROVE  /\ szBuf' = Overwrite(szBuf, bytes)
           /\ szBuf' \in Seq(Token) /\ szData' \in Seq(Token) /\ total' \in Nat
           /\ Fits(n) => /\ total' = total + n
                         /\ \E c \in Nat : Appended(szData', szData, Len(szData), szBuf', Len(szBuf'), c)
           /\ ~Fits(n) => total' = total /\ szData' = szData
           /\ pc' = IF Len(szData') >= 4 * MAX_BUF_SIZE THEN "undefined"
                    ELSE IF Fits(n) /\ n = MAX_BUF_SIZE THEN "read" ELSE "analyse"
  <1> DEFINE buf == Overwrite(szBuf, bytes)
  <1>1. szBuf \in Seq(Token) /\ szData \in Seq(Token) /\ total \in Nat
    BY DEF TypeInv
  <1>2. PICK p \in Nat, k \in Nat, d \in Nat : Len(szBuf) = p /\ Len(bytes) = k /\ Len(szData) = d
    BY <1>1
  <1>3. buf \in Seq(Token)
    BY <1>1, <1>2, OverwriteFacts
  <1>4. PICK q \in Nat : Len(buf) = q
    BY <1>3
  <1>5. /\ szBuf' = buf
        /\ total' = IF Fits(n) THEN total + n ELSE total
        /\ IF Fits(n) THEN \E junk \in Behind(buf) : szData' = szData \o buf \o junk
                      ELSE UNCHANGED szData
        /\ pc' = IF Len(szData') >= 4 * MAX_BUF_SIZE THEN "undefined"
                 ELSE IF Fits(n) /\ n = MAX_BUF_SIZE THEN "read" ELSE "analyse"
    BY DEF Round, Fits
  <1> HIDE DEF buf
  <1>6. CASE Fits(n)
    <2>1. PICK junk \in Behind(buf) : szData' = szData \o buf \o junk
      BY <1>5, <1>6
    <2> DEFINE w == szData \o buf \o junk
    <2>2. w \in Seq(Token) /\ \E c \in Nat : Appended(w, szData, d, buf, q, c)
      BY <1>1, <1>2, <1>3, <1>4, StrcatFacts
    <2>3. szData' = w
      BY <2>1
    <2> HIDE DEF w
    <2>4. total' = total + n /\ total + n \in Nat
      BY <1>1, <1>5, <1>6 DEF Fits
    <2> QED
      BY <1>2, <1>3, <1>4, <1>5, <1>6, <2>2, <2>3, <2>4 DEF buf
  <1>7. CASE ~Fits(n)
    BY <1>1, <1>3, <1>5, <1>7 DEF buf
  <1> QED
    BY <1>6, <1>7

(* What is appended leaves the beginning as it is.                         *)
LEMMA FullKept ==
    ASSUME answer \in Answers, NEW s \in Seq(Token), NEW p \in Nat, Len(s) = p, Full(s),
           NEW w \in Seq(Token), NEW buf, NEW q \in Nat, NEW c \in Nat, Appended(w, s, p, buf, q, c)
    PROVE  Full(w)
  <1>1. PICK M \in Nat : M = MAX_BUF_SIZE /\ M > 5
    BY Room
  <1>2. M <= Len(Text(answer)) /\ M <= p /\ \A i \in 1..M : s[i] = Text(answer)[i]
    BY <1>1 DEF Full, Starts, Agree
  <1>3. Len(w) = p + q + c /\ \A i \in 1..p : w[i] = s[i]
    BY DEF Appended
  <1>4. M <= Len(w)
    BY <1>2, <1>3
  <1>5. ASSUME NEW i \in 1..M
        PROVE  w[i] = Text(answer)[i]
    <2>1. i \in 1..p
      BY <1>2
    <2> QED
      BY <1>2, <1>3, <2>1
  <1>6. Starts(w, answer, M)
    BY <1>2, <1>4, <1>5 DEF Starts, Agree
  <1> QED
    BY <1>1, <1>6 DEF Full

(* The first bytes of the answer.                                          *)
LEMMA FreshRound ==
    ASSUME TypeInv, Fresh, NEW n \in Nat, n >= 1, n <= MAX_BUF_SIZE,
           NEW bytes \in Seq(Token), Len(bytes) = n, Starts(bytes, answer, n), Round(n, bytes),
           UNCHANGED answer
    PROVE  \/ pc' = "read" /\ Filled'
           \/ pc' = "analyse" /\ Short'
           \/ pc' = "undefined" /\ Len(szData') >= 4 * MAX_BUF_SIZE
  <1> DEFINE T == Text(answer)
             buf == szBuf'
             w == szData'
  <1>1. PICK M \in Nat : M = MAX_BUF_SIZE /\ M > 5
    BY Room
  <1>2. szBuf \in Seq(Token) /\ szData \in Seq(Token) /\ total = 0 /\ answer \in Answers
    BY DEF TypeInv, Fresh
  <1>3. Len(szBuf) = 0 /\ Len(szData) = 0
    BY <1>2, EmptySeq DEF Fresh
  <1>4. PICK z \in Nat : z = 0
    OBVIOUS
  <1>5. Fits(n)
    BY <1>1, <1>2 DEF Fits
  <1>6. /\ szBuf' = Overwrite(szBuf, bytes) /\ buf \in Seq(Token) /\ w \in Seq(Token)
        /\ total' = total + n
        /\ \E c \in Nat : Appended(w, szData, Len(szData), buf, Len(buf), c)
        /\ pc' = IF Len(w) >= 4 * MAX_BUF_SIZE THEN "undefined"
                 ELSE IF Fits(n) /\ n = MAX_BUF_SIZE THEN "read" ELSE "analyse"
    BY <1>5, RoundFacts
  <1>7. Len(buf) = n /\ Agree(buf, bytes, n)
    <2>1. Len(szBuf) = z
      BY <1>3, <1>4
    <2>2. ~ (n <= z)
      BY <1>4
    <2>3. /\ Len(Overwrite(szBuf, bytes)) = IF n <= z THEN z ELSE n
          /\ Agree(Overwrite(szBuf, bytes), bytes, n)
      BY <1>2, <2>1, OverwriteFacts
    <2> QED
      BY <1>6, <2>2, <2>3
  <1> HIDE DEF buf, w
  <1>8. PICK c \in Nat : Appended(w, szData, z, buf, n, c)
    BY <1>3, <1>4, <1>6, <1>7
  <1>9. /\ Len(w) = n + c
        /\ \A i \in 1..n : w[i] = buf[i]
        /\ c # 0 => n = M
        /\ NoEndIn(w, n, n + c)
    <2>1. z + n + c = n + c /\ z + n = n /\ \A i \in 1..n : z + i = i
      BY <1>4
    <2> QED
      BY <1>1, <1>8, <2>1 DEF Appended
  <1>10. n <= Len(T) /\ \A i \in 1..n : bytes[i] = T[i]
    BY DEF Starts, Agree
  <1> HIDE DEF T
  <1>11. \A i \in 1..n : buf[i] = T[i] /\ w[i] = T[i]
    BY <1>7, <1>9, <1>10 DEF Agree
  <1>12. Starts(buf, answer, n) /\ Starts(w, answer, n)
    BY <1>7, <1>9, <1>10, <1>11 DEF Starts, Agree, T
  <1>13. total' = n
    BY <1>2, <1>6
  <1>14. pc' = IF Len(w) >= 4 * M THEN "undefined" ELSE IF n = M THEN "read" ELSE "analyse"
    BY <1>1, <1>5, <1>6
  <1>15. CASE n = M
    <2>1. Full(buf) /\ Full(w)
      BY <1>1, <1>12, <1>15 DEF Full
    <2>2. Full(szBuf)' /\ Full(szData)'
      BY <2>1 DEF Full, buf, w
    <2>3. NoEndIn(w, M, Len(w))
      BY <1>9, <1>15
    <2>4. NoEndIn(szData, MAX_BUF_SIZE, Len(szData))'
      BY <1>1, <2>3 DEF NoEndIn, w
    <2>5. Filled'
      BY <1>1, <1>7, <1>13, <1>15, <2>2, <2>4 DEF Filled, buf
    <2> QED
      BY <1>1, <1>14, <1>15, <2>5 DEF w
  <1>16. CASE n # M
    <2>1. Len(w) = n /\ n < MAX_BUF_SIZE /\ ~ (Len(w) >= 4 * M)
      BY <1>1, <1>9, <1>16
    <2> QED
      BY <1>12, <1>13, <1>14, <1>16, <2>1 DEF Short, w
  <1> QED
    BY <1>15, <1>16

(* The bytes behind a full buffer, which overwrite it and are appended     *)
(* with the rest of it.                                                    *)
LEMMA FilledRound ==
    ASSUME TypeInv, Filled, NEW n \in Nat, n >= 1, n <= MAX_BUF_SIZE,
           NEW bytes \in Seq(Token), Len(bytes) = n, Round(n, bytes), UNCHANGED answer
    PROVE  /\ pc' \in {"read", "analyse", "undefined"} /\ Past'
           /\ pc' = "read" => Beyond'
  <1> DEFINE buf == szBuf'
             w == szData'
  <1>1. PICK M \in Nat : M = MAX_BUF_SIZE /\ M > 5
    BY Room
  <1>2. szBuf \in Seq(Token) /\ szData \in Seq(Token) /\ total = M /\ answer \in Answers
    BY <1>1 DEF TypeInv, Filled
  <1>3. PICK p \in Nat : Len(szData) = p
    BY <1>2
  <1>4. Len(szBuf) = M /\ Full(szData) /\ p >= M
    BY <1>1, <1>3 DEF Filled, Full, Starts
  <1>5. Fits(n)
    BY <1>1, <1>2 DEF Fits
  <1>6. /\ szBuf' = Overwrite(szBuf, bytes) /\ w \in Seq(Token)
        /\ total' = total + n
        /\ \E c \in Nat : Appended(w, szData, p, buf, Len(buf), c)
        /\ pc' = IF Len(w) >= 4 * MAX_BUF_SIZE THEN "undefined"
                 ELSE IF Fits(n) /\ n = MAX_BUF_SIZE THEN "read" ELSE "analyse"
    BY <1>3, <1>5, RoundFacts
  <1>7. Len(buf) = M
    <2>1. n <= M
      BY <1>1
    <2>2. Len(Overwrite(szBuf, bytes)) = IF n <= M THEN M ELSE n
      BY <1>2, <1>4, OverwriteFacts
    <2> QED
      BY <1>6, <2>1, <2>2
  <1> HIDE DEF buf, w
  <1>8. PICK c \in Nat : Appended(w, szData, p, buf, M, c)
    BY <1>6, <1>7
  <1>9. Len(w) >= 2 * M
    <2>1. Len(w) = p + M + c
      BY <1>8 DEF Appended
    <2> QED
      BY <1>4, <2>1
  <1>10. Full(w)
    BY <1>2, <1>3, <1>4, <1>6, <1>8, FullKept
  <1>11. Full(szData)'
    BY <1>10 DEF Full, w
  <1>12. total' = M + n
    BY <1>2, <1>6
  <1>13. Past'
    BY <1>1, <1>9, <1>11, <1>12 DEF Past, w
  <1>14. ASSUME pc' = "read"
         PROVE  Beyond'
    <2>1. n = M
      BY <1>1, <1>6, <1>14
    <2>2. total' >= 2 * MAX_BUF_SIZE
      BY <1>1, <1>12, <2>1
    <2> QED
      BY <1>13, <2>2 DEF Beyond
  <1> QED
    BY <1>6, <1>13, <1>14

(* The end behind a full buffer, which is appended once more.              *)
LEMMA FilledEnd ==
    ASSUME TypeInv, Filled, NEW n \in {0, -1}, Round(n, <<>>), UNCHANGED answer
    PROVE  \/ pc' = "analyse" /\ Twice'
           \/ pc' = "undefined" /\ Len(szData') >= 4 * MAX_BUF_SIZE
  <1> DEFINE buf == szBuf'
             w == szData'
             T == Text(answer)
  <1>1. PICK M \in Nat : M = MAX_BUF_SIZE /\ M > 5
    BY Room
  <1>2. szBuf \in Seq(Token) /\ szData \in Seq(Token) /\ total = M /\ answer \in Answers
    BY <1>1 DEF TypeInv, Filled
  <1>3. PICK p \in Nat : Len(szData) = p
    BY <1>2
  <1>4. /\ Len(szBuf) = M /\ Full(szBuf) /\ Full(szData) /\ p >= M
        /\ NoEndIn(szData, M, p)
    BY <1>1, <1>3 DEF Filled, Full, Starts
  <1>5. Fits(n)
    BY <1>1, <1>2 DEF Fits
  <1>6. PICK e \in Seq(Token) : e = <<>>
    BY EmptySeq
  <1>7. PICK z \in Nat : z = 0
    OBVIOUS
  <1>8. Len(e) = z /\ Round(n, e) /\ n \in Int
    BY <1>6, <1>7
  <1>9. /\ szBuf' = Overwrite(szBuf, e) /\ w \in Seq(Token)
        /\ total' = total + n
        /\ \E c \in Nat : Appended(w, szData, p, buf, Len(buf), c)
        /\ pc' = IF Len(w) >= 4 * MAX_BUF_SIZE THEN "undefined"
                 ELSE IF Fits(n) /\ n = MAX_BUF_SIZE THEN "read" ELSE "analyse"
    BY <1>3, <1>5, <1>8, RoundFacts
  <1>10. Len(buf) = M /\ \A i \in 1..M : buf[i] = szBuf[i]
    <2> DEFINE rest == Suffix(szBuf, z + 1)
               u == e \o rest
    <2>1. Len(szBuf) = z + M
      BY <1>4, <1>7
    <2>2. rest \in Seq(Token) /\ Len(rest) = M /\ \A i \in 1..M : rest[i] = szBuf[z + i]
      BY <1>2, <2>1, SuffixFacts
    <2>3. buf = u
      BY <1>8, <1>9 DEF Overwrite
    <2> HIDE DEF rest
    <2>4. Joined(u, e, z, rest, M)
      BY <1>8, <2>2, ConcatFacts
    <2> HIDE DEF u, buf
    <2>5. z + M = M /\ \A i \in 1..M : z + i = i
      BY <1>7
    <2> QED
      BY <2>2, <2>3, <2>4, <2>5 DEF Joined
  <1> HIDE DEF buf, w
  <1>11. PICK c \in Nat : Appended(w, szData, p, buf, M, c)
    BY <1>9, <1>10
  <1>12. Full(w)
    BY <1>2, <1>3, <1>4, <1>9, <1>11, FullKept
  <1>13. /\ Len(w) = p + M + c /\ \A i \in 1..p : w[i] = szData[i]
         /\ \A i \in 1..M : w[p + i] = buf[i]
    BY <1>11 DEF Appended
  <1>14. \A i \in 1..M : szBuf[i] = T[i]
    BY <1>1, <1>4 DEF Full, Starts, Agree
  <1>15. M <= Len(T)
    BY <1>1, <1>4 DEF Full, Starts
  <1> HIDE DEF T
  <1>16. Len(w) >= 2 * M
    BY <1>4, <1>13
  <1>17. NoEndIn(w, M, M + 5)
    <2> SUFFICES ASSUME NEW i \in M + 1..M + 5
                 PROVE  w[i] # ">"
      BY DEF NoEndIn
    <2>1. CASE i <= p
      <3>1. i \in M + 1..p /\ i \in 1..p
        BY <2>1
      <3> QED
        BY <1>4, <1>13, <3>1 DEF NoEndIn
    <2>2. CASE i > p
      <3>1. PICK j \in Nat : i = p + j /\ j \in 1..M /\ j < M
        <4>1. i - p \in Nat /\ i = p + (i - p) /\ i - p \in 1..M /\ i - p < M
          BY <1>1, <1>4, <2>2
        <4> QED
          BY <4>1
      <3>2. w[i] = T[j]
        BY <1>10, <1>13, <1>14, <3>1
      <3>3. PICK N \in Nat : Len(T) = N
        BY <1>2, AnswerShape DEF T
      <3>4. j \in 1..Len(T) - 1
        BY <1>15, <3>1, <3>3
      <3>5. T[j] # ">"
        BY <1>2, <3>4, TextEnd DEF T
      <3> QED
        BY <3>2, <3>5
    <2> QED
      BY <2>1, <2>2
  <1>18. Full(szData)' /\ NoEndIn(szData, MAX_BUF_SIZE, MAX_BUF_SIZE + 5)'
    BY <1>1, <1>12, <1>17 DEF NoEndIn, Full, w
  <1>19. total' \in {MAX_BUF_SIZE - 1, MAX_BUF_SIZE}
    BY <1>1, <1>2, <1>9
  <1>20. Twice'
    BY <1>1, <1>16, <1>18, <1>19 DEF Twice, w
  <1>21. n # MAX_BUF_SIZE
    BY <1>1
  <1> QED
    BY <1>9, <1>20, <1>21 DEF w

(* Rounds beyond the second buffer.                                        *)
LEMMA BeyondRound ==
    ASSUME TypeInv, Beyond, NEW n \in Int, n >= -1, NEW bytes \in Seq(Token), Round(n, bytes), UNCHANGED answer
    PROVE  /\ pc' \in {"read", "analyse", "undefined"} /\ Past'
           /\ pc' = "read" => Beyond'
  <1> DEFINE buf == szBuf'
             w == szData'
  <1>1. PICK M \in Nat : M = MAX_BUF_SIZE /\ M > 5
    BY Room
  <1>2. szData \in Seq(Token) /\ total \in Nat /\ total >= 2 * M /\ answer \in Answers
    BY <1>1 DEF TypeInv, Beyond
  <1>3. PICK p \in Nat : Len(szData) = p
    BY <1>2
  <1>4. Full(szData) /\ p >= 2 * M
    BY <1>1, <1>3 DEF Beyond, Past
  <1>5. pc' = IF Len(w) >= 4 * MAX_BUF_SIZE THEN "undefined"
              ELSE IF Fits(n) /\ n = MAX_BUF_SIZE THEN "read" ELSE "analyse"
    BY RoundFacts
  <1>6. CASE Fits(n)
    <2>1. /\ buf \in Seq(Token) /\ w \in Seq(Token) /\ total' = total + n
          /\ \E c \in Nat : Appended(w, szData, p, buf, Len(buf), c)
      BY <1>3, <1>6, RoundFacts
    <2>2. PICK q \in Nat : Len(buf) = q
      BY <2>1
    <2> HIDE DEF buf, w
    <2>3. PICK c \in Nat : Appended(w, szData, p, buf, q, c)
      BY <2>1, <2>2
    <2>4. Len(w) >= 2 * M
      <3>1. Len(w) = p + q + c
        BY <2>3 DEF Appended
      <3> QED
        BY <1>4, <3>1
    <2>5. Full(w)
      BY <1>2, <1>3, <1>4, <2>1, <2>2, <2>3, FullKept
    <2>6. Full(szData)'
      BY <2>5 DEF Full, w
    <2>7. total' > M
      BY <1>1, <1>2, <2>1
    <2>8. Past'
      BY <1>1, <2>4, <2>6, <2>7 DEF Past, w
    <2>9. ASSUME pc' = "read"
          PROVE  Beyond'
      <3>1. n = M
        BY <1>1, <1>5, <2>9
      <3>2. total' >= 2 * MAX_BUF_SIZE
        BY <1>1, <1>2, <2>1, <3>1
      <3> QED
        BY <2>8, <3>2 DEF Beyond
    <2> QED
      BY <1>5, <2>8, <2>9
  <1>7. CASE ~Fits(n)
    <2>1. total' = total /\ szData' = szData
      BY <1>7, RoundFacts
    <2>2. Full(szData)'
      BY <1>4, <2>1 DEF Full
    <2>3. Past'
      BY <1>1, <1>2, <1>3, <1>4, <2>1, <2>2 DEF Past
    <2>4. pc' # "read"
      BY <1>5, <1>7
    <2> QED
      BY <1>5, <2>3, <2>4
  <1> QED
    BY <1>6, <1>7

-----------------------------------------------------------------------------
(* The theorems                                                            *)

(* At first nothing has been read, and the whole answer is in the air.     *)
LEMMA AnswerInit == Init => AnswerInv
  <1> SUFFICES ASSUME Init
               PROVE  AnswerInv
    OBVIOUS
  <1>1. answer \in Answers /\ pc = "select"
    BY DEF Init
  <1>2. Text(answer) \in Seq(Token)
    BY <1>1, TextFacts
  <1>3. PICK e \in Seq(Token), z \in Nat : e = <<>> /\ z = 0 /\ Len(e) = z
    BY EmptySeq
  <1>4. TypeInv
    BY <1>1, <1>2, <1>3 DEF TypeInv, Init
  <1>5. Fresh
    <2>1. PICK N \in Nat : Len(Text(answer)) = N
      BY <1>2
    <2>2. N = z + N /\ 1..z = {} /\ \A i \in 1..N : z + i = i
      BY <1>3
    <2>3. Joined(Text(answer), e, z, Text(answer), N)
      BY <2>1, <2>2 DEF Joined
    <2> QED
      BY <1>3, <2>1, <2>3 DEF Fresh, Init
  <1>6. Safe(told)
    BY DEF Safe, Init, Nothing
  <1> QED
    BY <1>1, <1>4, <1>5, <1>6 DEF AnswerInv

(* What arrives changes nothing of what has been read.                     *)
LEMMA ArriveStep ==
    ASSUME AnswerInv, NEW n \in 1..Len(air), Arrive(n)
    PROVE  AnswerInv'
  <1>1. UNCHANGED <<answer, resp, pc, szBuf, szData, total, told>>
    BY DEF Arrive
  <1>2. TypeInv
    BY DEF AnswerInv
  <1>4. stream' \in Seq(Token) /\ air' \in Seq(Token)
    <2>1. PICK q \in Nat : Len(air) = q
      BY <1>2 DEF TypeInv
    <2>2. PICK l \in Nat : l = q - n
      BY <2>1
    <2>3. air \in Seq(Token) /\ stream \in Seq(Token) /\ n \in Nat /\ n <= q /\ q = n + l
      BY <1>2, <2>1, <2>2 DEF TypeInv
    <2>4. SubSeq(air, 1, n) = Prefix(air, n)
      BY <2>1, <2>3 DEF Prefix
    <2>5. Prefix(air, n) \in Seq(Token)
      BY <2>1, <2>3, FirstTokens
    <2>6. Len(air) = n + l
      BY <2>1, <2>3
    <2>7. Suffix(air, n + 1) \in Seq(Token)
      BY <2>3, <2>6, SuffixFacts
    <2> QED
      BY <2>3, <2>4, <2>5, <2>7 DEF Arrive
  <1>5. TypeInv'
    BY <1>1, <1>2, <1>4 DEF TypeInv
  <1>6. ASSUME Fresh
        PROVE  Fresh'
    <2>1. /\ Joined(Text(answer), stream, Len(stream), air, Len(air))
          /\ stream \in Seq(Token) /\ air \in Seq(Token)
      BY <1>2, <1>6 DEF Fresh, TypeInv
    <2>2. stream' = stream \o SubSeq(air, 1, n) /\ air' = Suffix(air, n + 1)
      BY DEF Arrive
    <2>3. Joined(Text(answer), stream', Len(stream'), air', Len(air'))
      BY <2>1, <2>2, ArriveFacts
    <2>4. (szBuf = <<>> /\ szData = <<>> /\ total = 0)'
      BY <1>1, <1>6 DEF Fresh
    <2> QED
      BY <1>1, <2>3, <2>4 DEF Fresh
  <1>7. /\ Filled' = Filled /\ Beyond' = Beyond /\ Short' = Short /\ Twice' = Twice /\ Past' = Past
        /\ Safe(told)' = Safe(told) /\ Right(told)' = Right(told)
        /\ Whole' = Whole /\ MeantText' = MeantText /\ szData' = szData
    BY <1>1 DEF Filled, NoEndIn, Beyond, Short, Twice, Past, Full, Right, Safe, Whole, MeantText
  <1> QED
    BY <1>1, <1>5, <1>6, <1>7 DEF AnswerInv

(* Nor do the end of the stream and stuttering.                            *)
LEMMA StillStep ==
    ASSUME AnswerInv, UNCHANGED <<answer, resp, air, stream, pc, szBuf, szData, total, told>>
    PROVE  AnswerInv'
  <1>1. /\ TypeInv' = TypeInv /\ Fresh' = Fresh
        /\ Filled' = Filled /\ Beyond' = Beyond /\ Short' = Short /\ Twice' = Twice /\ Past' = Past
        /\ Safe(told)' = Safe(told) /\ Right(told)' = Right(told)
        /\ Whole' = Whole /\ MeantText' = MeantText /\ szData' = szData
    BY DEF TypeInv, Fresh, Filled, NoEndIn, Beyond, Short, Twice, Past, Full, Right, Safe, Whole, MeantText
  <1> QED
    BY <1>1 DEF AnswerInv

(* What has been told stays.                                               *)
LEMMA SafeStill ==
    ASSUME Safe(told), UNCHANGED <<answer, told>>
    PROVE  Safe(told)'
  BY DEF Safe, MeantText

(* select waits before anything is read.                                   *)
LEMMA SelectStep ==
    ASSUME AnswerInv, Select
    PROVE  AnswerInv'
  <1>1. TypeInv /\ Fresh /\ total = 0
    BY DEF AnswerInv, Select, Fresh
  <1>2. UNCHANGED <<answer, resp, air, stream, szBuf, szData, total, told>> /\ pc' \in {"read", "silent"}
    BY DEF Select, net
  <1>3. TypeInv' /\ Fresh' /\ total' = 0
    BY <1>1, <1>2 DEF TypeInv, Fresh
  <1>4. Safe(told)'
    BY <1>2, SafeStill DEF AnswerInv
  <1> QED
    BY <1>2, <1>3, <1>4 DEF AnswerInv

(* More than a buffer has no room.                                         *)
LEMMA NotWhole ==
    ASSUME TypeInv', Past'
    PROVE  ~Whole'
  <1>1. PICK n \in Nat : n = total'
    BY DEF TypeInv
  <1>2. PICK M \in Nat : M = MAX_BUF_SIZE
    BY Room
  <1>3. n > M
    BY <1>1, <1>2 DEF Past
  <1> QED
    BY <1>1, <1>2, <1>3 DEF Whole

(* A round with bytes.                                                     *)
LEMMA ReadStep ==
    ASSUME AnswerInv, Read
    PROVE  AnswerInv'
  <1> DEFINE bytes == Prefix(stream, MAX_BUF_SIZE)
  <1>1. TypeInv /\ (Fresh \/ Filled \/ Beyond)
    BY DEF AnswerInv, Read
  <1>2. answer \in Answers /\ stream \in Seq(Token) /\ stream # <<>>
    BY <1>1 DEF TypeInv, Read
  <1>3. PICK M \in Nat : M = MAX_BUF_SIZE /\ M > 5
    BY Room
  <1>4. PICK L \in Nat : Len(stream) = L /\ L >= 1
    BY <1>2, EmptySeq
  <1>5. PICK n \in Nat : n <= M /\ n <= L /\ (n = M \/ n = L)
    OBVIOUS
  <1>6. bytes \in Seq(Token) /\ Len(bytes) = n /\ \A i \in 1..n : bytes[i] = stream[i]
    <2>1. Lesser(n, M, L)
      BY <1>5 DEF Lesser
    <2> DEFINE b == Prefix(stream, M)
    <2>2. b \in Seq(Token) /\ Len(b) = n /\ \A i \in 1..n : b[i] = stream[i]
      BY <1>2, <1>4, <2>1, PrefixFacts
    <2>3. bytes = b
      BY <1>3
    <2> HIDE DEF b, bytes
    <2> QED
      BY <2>2, <2>3
  <1>7. Round(Len(bytes), bytes) /\ stream' = Suffix(stream, Len(bytes) + 1)
    BY DEF Read
  <1>8. UNCHANGED <<answer, resp, air, told>>
    BY DEF Read
  <1> HIDE DEF bytes
  <1>9. n >= 1 /\ n <= MAX_BUF_SIZE /\ n \in Int /\ n >= -1 /\ Round(n, bytes) /\ UNCHANGED answer
    BY <1>3, <1>4, <1>5, <1>6, <1>7, <1>8
  <1>10. szBuf' \in Seq(Token) /\ szData' \in Seq(Token) /\ total' \in Nat
    BY <1>1, <1>6, <1>9, RoundFacts
  <1>11. stream' \in Seq(Token)
    <2>1. PICK m \in Nat : L = n + m
      <3>1. L - n \in Nat /\ L = n + (L - n)
        BY <1>5
      <3> QED
        BY <3>1
    <2>2. Len(stream) = n + m
      BY <1>4, <2>1
    <2>3. Suffix(stream, n + 1) \in Seq(Token)
      BY <1>2, <2>2, SuffixFacts
    <2> QED
      BY <1>6, <1>7, <2>3
  <1>12. TypeInv' /\ Safe(told)'
    <2>1. TypeInv'
      BY <1>1, <1>8, <1>10, <1>11 DEF TypeInv
    <2>2. Safe(told)'
      BY <1>8, SafeStill DEF AnswerInv
    <2> QED
      BY <2>1, <2>2
  <1>13. CASE Fresh
    <2>1. Starts(bytes, answer, n)
      <3>1. PICK K \in Nat : Len(air) = K
        BY <1>1 DEF TypeInv
      <3>2. Len(Text(answer)) = L + K /\ \A i \in 1..L : Text(answer)[i] = stream[i]
        BY <1>4, <1>13, <3>1 DEF Fresh, Joined
      <3>3. n <= L + K /\ \A i \in 1..n : i \in 1..L
        BY <1>5
      <3>4. \A i \in 1..n : bytes[i] = Text(answer)[i]
        BY <1>6, <3>2, <3>3
      <3>5. n <= Len(bytes)
        BY <1>6
      <3> QED
        BY <3>2, <3>3, <3>4, <3>5 DEF Starts, Agree
    <2>2. \/ pc' = "read" /\ Filled'
          \/ pc' = "analyse" /\ Short'
          \/ pc' = "undefined" /\ Len(szData') >= 4 * MAX_BUF_SIZE
      BY <1>1, <1>6, <1>9, <1>13, <2>1, FreshRound
    <2> QED
      BY <1>12, <2>2 DEF AnswerInv
  <1>14. CASE Filled
    <2>1. /\ pc' \in {"read", "analyse", "undefined"} /\ Past'
          /\ pc' = "read" => Beyond'
      BY <1>1, <1>6, <1>9, <1>14, FilledRound
    <2>2. ~Whole'
      BY <1>12, <2>1, NotWhole
    <2> QED
      BY <1>12, <2>1, <2>2 DEF AnswerInv
  <1>15. CASE Beyond
    <2>1. /\ pc' \in {"read", "analyse", "undefined"} /\ Past'
          /\ pc' = "read" => Beyond'
      BY <1>1, <1>6, <1>9, <1>15, BeyondRound
    <2>2. ~Whole'
      BY <1>12, <2>1, NotWhole
    <2> QED
      BY <1>12, <2>1, <2>2 DEF AnswerInv
  <1> QED
    BY <1>1, <1>13, <1>14, <1>15

(* A round that finds the end of the stream or an error.                   *)
LEMMA ReadEndStep ==
    ASSUME AnswerInv, ReadEnd
    PROVE  AnswerInv'
  <1>1. TypeInv /\ (Fresh \/ Filled \/ Beyond)
    BY DEF AnswerInv, ReadEnd
  <1>2. PICK e \in Seq(Token) : e = <<>>
    BY EmptySeq
  <1>3. PICK n \in {0, -1} : Round(n, <<>>)
    BY DEF ReadEnd
  <1>4. UNCHANGED <<answer, resp, air, stream, told>>
    BY DEF ReadEnd, net
  <1>5. n \in Int /\ n >= -1 /\ Round(n, e)
    BY <1>2, <1>3
  <1>6. szBuf' \in Seq(Token) /\ szData' \in Seq(Token) /\ total' \in Nat
    BY <1>1, <1>5, RoundFacts
  <1>7. TypeInv' /\ Safe(told)'
    <2>1. TypeInv'
      BY <1>1, <1>4, <1>6 DEF TypeInv
    <2>2. Safe(told)'
      BY <1>4, SafeStill DEF AnswerInv
    <2> QED
      BY <2>1, <2>2
  <1>8. CASE Fresh
    <2>1. PICK M \in Nat : M = MAX_BUF_SIZE /\ M > 5
      BY Room
    <2>2. total = 0
      BY <1>8 DEF Fresh
    <2>3. total' = 0
      <3>1. CASE Fits(n)
        <4>1. n = 0
          BY <1>3, <2>2, <3>1 DEF Fits
        <4>2. total' = total + n
          BY <1>1, <1>5, <3>1, RoundFacts
        <4> QED
          BY <2>2, <4>1, <4>2
      <3>2. CASE ~Fits(n)
        BY <1>1, <1>5, <2>2, <3>2, RoundFacts
      <3> QED
        BY <3>1, <3>2
    <2>4. pc' \in {"analyse", "undefined"}
      <3>1. n # MAX_BUF_SIZE
        BY <1>3, <2>1
      <3> QED
        BY <1>1, <1>5, <3>1, RoundFacts
    <2>5. ~Whole'
      <3>1. Len(Text(answer)) # 0
        BY <1>1, AnswerShape DEF TypeInv
      <3> QED
        BY <1>4, <2>3, <3>1 DEF Whole
    <2> QED
      BY <1>7, <2>3, <2>4, <2>5 DEF AnswerInv
  <1>9. CASE Filled
    <2>1. \/ pc' = "analyse" /\ Twice'
          \/ pc' = "undefined" /\ Len(szData') >= 4 * MAX_BUF_SIZE
      BY <1>1, <1>3, <1>4, <1>9, FilledEnd
    <2> QED
      BY <1>7, <2>1 DEF AnswerInv
  <1>10. CASE Beyond
    <2>1. /\ pc' \in {"read", "analyse", "undefined"} /\ Past'
          /\ pc' = "read" => Beyond'
      BY <1>1, <1>4, <1>5, <1>10, BeyondRound
    <2>2. ~Whole'
      BY <1>7, <2>1, NotWhole
    <2> QED
      BY <1>7, <2>1, <2>2 DEF AnswerInv
  <1> QED
    BY <1>1, <1>8, <1>9, <1>10

(* What has been read is told, or not.                                     *)
LEMMA AnalyseStep ==
    ASSUME AnswerInv, Analyse
    PROVE  AnswerInv'
  <1>1. TypeInv /\ (total = 0 \/ Short \/ Twice \/ Past) /\ Safe(told)
    BY DEF AnswerInv, Analyse
  <1>2. UNCHANGED <<answer, resp, air, stream, szBuf, szData, total>>
    BY DEF Analyse, net
  <1>3. TypeInv'
    BY <1>1, <1>2 DEF TypeInv
  <1>4. CASE ~resp \/ total = 0
    <2>1. pc' = "silent" /\ (total' = 0 \/ ~resp') /\ told' = told
      BY <1>2, <1>4 DEF Analyse
    <2>2. Safe(told)'
      BY <1>1, <1>2, <2>1, SafeStill
    <2> QED
      BY <1>3, <2>1, <2>2 DEF AnswerInv
  <1>5. CASE resp /\ total # 0 /\ Overrun(szData, total)
    <2>1. pc' = "undefined" /\ told' = told
      BY <1>5 DEF Analyse
    <2>2. total > MAX_BUF_SIZE \/ total # Len(Text(answer))
      <3>1. CASE Short
        BY <1>1, <1>5, <3>1, ShortTold
      <3>2. CASE Twice
        BY <1>1, <1>5, <3>2, TwiceTold
      <3>3. CASE Past
        BY <3>3 DEF Past
      <3> QED
        BY <1>1, <1>5, <3>1, <3>2, <3>3
    <2>3. ~Whole'
      <3>1. PICK n \in Nat, M \in Nat : n = total /\ M = MAX_BUF_SIZE
        BY <1>1, Room DEF TypeInv
      <3>2. n > M \/ n # Len(Text(answer))
        BY <2>2, <3>1
      <3> QED
        BY <1>2, <3>1, <3>2 DEF Whole
    <2>4. Safe(told)'
      BY <1>1, <1>2, <2>1, SafeStill
    <2> QED
      BY <1>3, <2>1, <2>3, <2>4 DEF AnswerInv
  <1>6. CASE resp /\ total # 0 /\ ~Overrun(szData, total)
    <2>1. /\ told' = analysis_soap_response(szData, total)
          /\ pc' = IF told'.len = 4 * MAX_BUF_SIZE THEN "undefined" ELSE "told"
      BY <1>6 DEF Analyse
    <2>2. Right(analysis_soap_response(szData, total))
      <3>1. CASE Short
        BY <1>1, <1>6, <3>1, ShortTold
      <3>2. CASE Twice
        BY <1>1, <1>6, <3>2, TwiceTold
      <3>3. CASE Past
        BY <1>1, <1>6, <3>3, PastOverrun
      <3> QED
        BY <1>1, <1>6, <3>1, <3>2, <3>3
    <2>3. Right(told')
      BY <2>1, <2>2
    <2>4. Right(told)' /\ Safe(told)'
      BY <1>2, <2>3 DEF Right, Safe, Whole, MeantText
    <2>5. ASSUME told'.len = 4 * MAX_BUF_SIZE, Whole, MeantText # <<>>
          PROVE  FALSE
      <3>1. told' = Result(answer.ok, MeantText)
        BY <2>3, <2>5 DEF Right
      <3>2. told'.len = Len(MeantText)
        BY <2>5, <3>1 DEF Result
      <3>3. answer \in Answers
        BY <1>1 DEF TypeInv
      <3>4. PICK l \in Nat : Len(MeantText) = l /\ l <= Len(Text(answer))
        BY <3>3, MeantFits
      <3>5. PICK M \in Nat : M = MAX_BUF_SIZE /\ M > 5
        BY Room
      <3>6. PICK n \in Nat : n = total
        BY <1>1 DEF TypeInv
      <3>7. l <= n /\ n <= M /\ l = 4 * M
        BY <2>5, <3>2, <3>4, <3>5, <3>6 DEF Whole
      <3> QED
        BY <3>5, <3>7
    <2>6. Whole' = Whole /\ MeantText' = MeantText
      BY <1>2 DEF Whole, MeantText
    <2>7. pc' \in {"undefined", "told"} /\ (pc' = "undefined" => told'.len = 4 * MAX_BUF_SIZE)
      BY <2>1
    <2> QED
      BY <1>3, <2>4, <2>5, <2>6, <2>7 DEF AnswerInv
  <1> QED
    BY <1>4, <1>5, <1>6

(* AnswerInv holds in every state.                                         *)
THEOREM AnswerInvariant == Spec => []AnswerInv
  <1>1. Init => AnswerInv
    BY AnswerInit
  <1>2. AnswerInv /\ [Next]_vars => AnswerInv'
    <2> SUFFICES ASSUME AnswerInv, [Next]_vars
                 PROVE  AnswerInv'
      OBVIOUS
    <2>1. ASSUME NEW n \in 1..Len(air), Arrive(n)
          PROVE  AnswerInv'
      BY <2>1, ArriveStep
    <2>2. ASSUME NEW how \in {"fin", "rst"}, End(how)
          PROVE  AnswerInv'
      <3>1. UNCHANGED <<answer, resp, air, stream, pc, szBuf, szData, total, told>>
        BY <2>2 DEF End
      <3> QED
        BY <3>1, StillStep
    <2>3. CASE Select
      BY <2>3, SelectStep
    <2>4. CASE Read
      BY <2>4, ReadStep
    <2>5. CASE ReadEnd
      BY <2>5, ReadEndStep
    <2>6. CASE Analyse
      BY <2>6, AnalyseStep
    <2>7. CASE UNCHANGED vars
      <3>1. UNCHANGED <<answer, resp, air, stream, pc, szBuf, szData, total, told>>
        BY <2>7 DEF vars
      <3> QED
        BY <3>1, StillStep
    <2> QED
      BY <2>1, <2>2, <2>3, <2>4, <2>5, <2>6, <2>7 DEF Next
  <1> QED
    BY <1>1, <1>2, PTL DEF Spec

(* However little of an answer analysis_soap_response is given, it reports *)
(* no success that the server has not reported.                            *)
THEOREM StatusTrueHolds == Spec => []StatusTrue
  <1>1. AnswerInv => StatusTrue
    BY DEF AnswerInv, Safe, StatusTrue
  <1> QED
    BY <1>1, AnswerInvariant, PTL

(* However the network cuts an answer, get_soap_content takes from it the  *)
(* text meant for the client, whole, or nothing.                           *)
THEOREM ContentWholeHolds == Spec => []ContentWhole
  <1>1. AnswerInv => ContentWhole
    BY DEF AnswerInv, Safe, ContentWhole
  <1> QED
    BY <1>1, AnswerInvariant, PTL

(* An answer with a text for the client, of up to MAX_BUF_SIZE bytes and   *)
(* read to its last one, is told to the client as the server has said it,  *)
(* and overruns no buffer, as long as what lies behind szBuf leaves room   *)
(* in szData.                                                              *)
THEOREM ToldExactlyHolds == Spec => []ToldExactly
  <1>1. AnswerInv => ToldExactly
    <2> SUFFICES ASSUME AnswerInv, resp, pc \in {"told", "silent", "undefined"},
                        total = Len(Text(answer)), total <= MAX_BUF_SIZE, Len(szData) < 4 * MAX_BUF_SIZE,
                        MeantText # <<>>
                 PROVE  pc = "told" /\ told = Meant
      BY DEF ToldExactly
    <2>1. answer \in Answers /\ total \in Nat /\ szData \in Seq(Token)
      BY DEF AnswerInv, TypeInv
    <2>2. total # 0
      BY <2>1, AnswerShape
    <2>3. pc # "silent"
      BY <2>2 DEF AnswerInv
    <2>4. Whole
      BY DEF Whole
    <2>5. pc # "undefined"
      <3>1. PICK L \in Nat, M \in Nat : Len(szData) = L /\ M = MAX_BUF_SIZE
        BY <2>1, Room
      <3>2. ~ (L >= 4 * M)
        BY <3>1
      <3> QED
        BY <2>4, <3>1, <3>2 DEF AnswerInv
    <2>6. told = Result(answer.ok, MeantText)
      BY <2>3, <2>4, <2>5 DEF AnswerInv, Right
    <2>7. Result(answer.ok, MeantText) = Meant
      BY DEF Result, Meant
    <2> QED
      BY <2>3, <2>5, <2>6, <2>7
  <1> QED
    BY <1>1, AnswerInvariant, PTL
=============================================================================
