-------------------------- MODULE FrameReaderProofs --------------------------
(***************************************************************************)
(* Framing for any number of messages of any lengths, any segments, any    *)
(* base and any workers: the types, and that no message is used twice; and *)
(* order with one worker.                                                  *)
(***************************************************************************)
EXTENDS FrameReader, FiniteSetTheorems, SequenceTheorems, TLAPS

Single == \E w \in Workers : setting.workers = {w}

-----------------------------------------------------------------------------
(* The inductive invariants                                                *)

Rest == buf \o unsent

(* What a worker has in hand.                                              *)
Held(w) == IF rd[w].pc \in {"readn", "analyse"} THEN rd[w].got ELSE <<>>

(* Only the workers of the pool run jobs.                                  *)
PoolInv == \A w \in Workers : rd[w].pc \in {"peek", "readn", "analyse"} => w \in setting.workers

(* One worker, torn or not: the bytes it has not used come one after the   *)
(* other, and after the messages it has used.                              *)
Before(b, c) == b.msg < c.msg \/ (b.msg = c.msg /\ b.at < c.at)

OrderOK(q, used, n) ==
    /\ \A p, r \in 1..Len(q) : p < r => Before(q[p], q[r])
    /\ \A p \in 1..Len(q) : q[p].msg <= n
    /\ \A p \in 1..Len(q), k \in 1..Len(used) : used[k] < q[p].msg
    /\ \A j, k \in 1..Len(used) : j < k => used[j] < used[k]
    /\ \A k \in 1..Len(used) : used[k] <= n

OrderInv == Single => \A w \in setting.workers : OrderOK(Held(w) \o Rest, parsed, sent)


(* Any workers: what is left to read comes in order, and a byte is in one  *)
(* place, left to read or with one worker; no byte of a message that was   *)
(* used or refused is left.                                                *)
Bytes(q) == {q[k] : k \in 1..Len(q)}

Settled(m) == m \in refused \/ \E k \in 1..Len(parsed) : parsed[k] = m

Apart ==
    /\ \A w \in Workers : Bytes(Held(w)) \cap Bytes(Rest) = {}
    /\ \A v, w \in Workers : v # w => Bytes(Held(v)) \cap Bytes(Held(w)) = {}

Unsettled(b) == b.msg <= sent /\ ~Settled(b.msg)

Pending ==
    /\ \A b \in Bytes(Rest) : Unsettled(b)
    /\ \A w \in Workers : \A b \in Bytes(Held(w)) : Unsettled(b)
    /\ \A m \in refused : m <= sent

UseInv == OrderOK(Rest, <<>>, sent) /\ Apart /\ Pending /\ UsedOnce

FrameInv == TypeOK /\ PoolInv /\ OrderInv /\ UseInv

-----------------------------------------------------------------------------
(* Sequences and numbers                                                   *)

(* A sequence cut in two.                                                  *)
LEMMA Cut ==
    ASSUME NEW S, NEW b \in Seq(S), NEW n \in 0..Len(b)
    PROVE  /\ SubSeq(b, 1, n) \in Seq(S) /\ Len(SubSeq(b, 1, n)) = n
           /\ \A k \in 1..n : SubSeq(b, 1, n)[k] = b[k]
           /\ SubSeq(b, n + 1, Len(b)) \in Seq(S) /\ Len(SubSeq(b, n + 1, Len(b))) = Len(b) - n
           /\ \A k \in 1..Len(b) - n : SubSeq(b, n + 1, Len(b))[k] = b[n + k]
           /\ SubSeq(b, 1, n) \o SubSeq(b, n + 1, Len(b)) = b
  <1>1. Len(b) \in Nat /\ \A k \in 1..Len(b) : b[k] \in S
    BY ElementOfSeq, LenProperties
  <1>2. /\ SubSeq(b, 1, n) \in Seq(S) /\ Len(SubSeq(b, 1, n)) = n
        /\ \A k \in 1..n : SubSeq(b, 1, n)[k] = b[k]
    <2>1. \A k \in 1..n : b[k] \in S
      BY <1>1
    <2>2. /\ SubSeq(b, 1, n) \in Seq(S)
          /\ Len(SubSeq(b, 1, n)) = IF 1 <= n THEN n - 1 + 1 ELSE 0
          /\ \A k \in 1..n - 1 + 1 : SubSeq(b, 1, n)[k] = b[1 + k - 1]
      BY <2>1, SubSeqProperties
    <2> QED
      BY <2>2
  <1>3. /\ SubSeq(b, n + 1, Len(b)) \in Seq(S) /\ Len(SubSeq(b, n + 1, Len(b))) = Len(b) - n
        /\ \A k \in 1..Len(b) - n : SubSeq(b, n + 1, Len(b))[k] = b[n + k]
    <2>1. \A k \in (n + 1)..Len(b) : b[k] \in S
      BY <1>1
    <2>2. /\ SubSeq(b, n + 1, Len(b)) \in Seq(S)
          /\ Len(SubSeq(b, n + 1, Len(b))) = IF n + 1 <= Len(b) THEN Len(b) - (n + 1) + 1 ELSE 0
          /\ \A k \in 1..Len(b) - (n + 1) + 1 : SubSeq(b, n + 1, Len(b))[k] = b[n + 1 + k - 1]
      BY <1>1, <2>1, SubSeqProperties
    <2> QED
      BY <1>1, <2>2
  <1>4. SubSeq(b, 1, n) \o SubSeq(b, n + 1, Len(b)) = b
    <2>1. SubSeq(b, 1, n) \o SubSeq(b, n + 1, Len(b)) = SubSeq(b, 1, Len(b))
      <3>1. 1 \in 1..Len(b) + 1 /\ n \in (1 - 1)..Len(b) /\ Len(b) \in n..Len(b)
        BY <1>1
      <3> QED
        BY <3>1, ConcatAdjacentSubSeq
    <2> QED
      BY <2>1, SubSeqFull
  <1> QED
    BY <1>2, <1>3, <1>4

(* Bytes that move across a border stay where they are in the whole.       *)
LEMMA Assoc ==
    ASSUME NEW S, NEW a \in Seq(S), NEW c \in Seq(S), NEW d \in Seq(S)
    PROVE  (a \o c) \o d = a \o (c \o d)
  BY ConcatAssociative

LEMMA AssocAll ==
    ASSUME NEW S
    PROVE  /\ \A x, y, z \in Seq(S) : (x \o y) \o z = x \o (y \o z)
           /\ \A x, y \in Seq(S) : x \o y \in Seq(S)
  BY Assoc, ConcatProperties

LEMMA Move ==
    ASSUME NEW S, NEW a \in Seq(S), NEW b \in Seq(S), NEW n \in 0..Len(b)
    PROVE  (a \o SubSeq(b, 1, n)) \o SubSeq(b, n + 1, Len(b)) = a \o b
  <1> DEFINE c == SubSeq(b, 1, n)
             d == SubSeq(b, n + 1, Len(b))
  <1>1. c \in Seq(S) /\ d \in Seq(S) /\ c \o d = b
    BY Cut
  <1> HIDE DEF c, d
  <1>2. \A x, y, z \in Seq(S) : (x \o y) \o z = x \o (y \o z)
    BY Assoc, SMTT(30)
  <1>3. (a \o c) \o d = a \o (c \o d)
    BY <1>1, <1>2, Zenon
  <1> QED
    BY <1>1, <1>3 DEF c, d

LEMMA MinOfTwo ==
    ASSUME NEW m \in Nat, NEW n \in Nat
    PROVE  Min({m, n}) = IF m <= n THEN m ELSE n
  <1>1. CASE m <= n
    <2>1. m \in {m, n} /\ \A y \in {m, n} : m <= y
      BY <1>1
    <2>2. \A x \in {m, n} : (\A y \in {m, n} : x <= y) => x = m
      BY <1>1
    <2> QED
      BY <1>1, <2>1, <2>2 DEF Min
  <1>2. CASE ~(m <= n)
    <2>1. n \in {m, n} /\ \A y \in {m, n} : n <= y
      BY <1>2
    <2>2. \A x \in {m, n} : (\A y \in {m, n} : x <= y) => x = n
      BY <1>2
    <2> QED
      BY <1>2, <2>1, <2>2 DEF Min
  <1> QED
    BY <1>1, <1>2

(* Two digits to a base.                                                   *)
LEMMA Digits ==
    ASSUME NEW B \in Nat \ {0, 1}, NEW x \in Nat, x < B * B
    PROVE  /\ x \div B \in 0..B - 1 /\ x % B \in 0..B - 1
           /\ x = (x \div B) * B + (x % B)
  <1>0. x % B \in 0..B - 1
    OBVIOUS
  <1>1. x \div B \in Nat
    OBVIOUS
  <1>2. B > 0
    OBVIOUS
  <1>3. x = (x \div B) * B + (x % B)
    BY <1>2, Z3
  <1>4. \A d, r \in Nat : d * B + r = x => d < B
    <2> SUFFICES ASSUME NEW d \in Nat, NEW r \in Nat, d * B + r = x, d >= B PROVE FALSE
      OBVIOUS
    <2>1. d * B >= B * B
      OBVIOUS
    <2> QED
      BY <2>1
  <1>5. x \div B < B
    <2>1. x % B \in Nat
      BY <1>0
    <2> QED
      BY <1>1, <1>3, <1>4, <2>1, Zenon
  <1>6. x \div B \in 0..B - 1
    BY <1>1, <1>5
  <1> QED
    BY <1>0, <1>3, <1>6, Zenon

LEMMA TwoDigits ==
    ASSUME NEW B \in Nat \ {0, 1}, NEW c \in 0..B - 1, NEW d \in 0..B - 1
    PROVE  c * B + d \in 0..B * B - 1
  <1>1. c * B <= (B - 1) * B
    OBVIOUS
  <1>2. (B - 1) * B = B * B - B /\ c * B \in Nat /\ B * B \in Nat
    OBVIOUS
  <1> QED
    BY <1>1, <1>2

-----------------------------------------------------------------------------
(* Messages                                                                *)

LEMMA Lengths ==
    ASSUME setting \in Settings
    PROVE  /\ MsgLen \in Seq(2..Base * Base - 1) /\ Len(MsgLen) \in Nat
           /\ \A i \in Msgs : /\ MsgLen[i] \in Nat /\ MsgLen[i] >= 2 /\ MsgLen[i] < Base * Base
                              /\ Size(i) \in Nat /\ Size(i) = MsgLen[i] + 2
           /\ setting.workers \subseteq Workers
  <1>1. MsgLen \in Seq(2..Base * Base - 1) /\ setting.workers \subseteq Workers /\ Base \in Nat
    BY FrameAssumption DEF MsgLen
  <1>2. \A i \in Msgs : MsgLen[i] \in 2..Base * Base - 1
    BY <1>1, ElementOfSeq DEF Msgs
  <1>3. Base * Base \in Nat
    BY <1>1
  <1> QED
    BY <1>1, <1>2, <1>3 DEF Size, HEADSIZE

LEMMA FrameFacts ==
    ASSUME setting \in Settings, NEW i \in Msgs
    PROVE  /\ Frame(i) \in Seq(Byte) /\ Len(Frame(i)) = Size(i) /\ Size(i) >= 4 /\ Frame(i) # <<>>
           /\ \A k \in 1..Size(i) : Frame(i)[k] = [msg |-> i, at |-> k]
  <1>1. Size(i) \in Nat /\ Size(i) >= 4 /\ i \in Nat
    BY Lengths DEF Msgs
  <1>2. \A k \in 1..Size(i) : Frame(i)[k] = [msg |-> i, at |-> k] /\ [msg |-> i, at |-> k] \in Byte
    BY <1>1 DEF Frame, Byte
  <1>3. Frame(i) \in [1..Size(i) -> Byte]
    BY <1>2 DEF Frame
  <1>4. Frame(i) \in Seq(Byte) /\ Len(Frame(i)) = Size(i)
    BY <1>1, <1>3
  <1>5. Frame(i) # <<>>
    BY <1>1, <1>4, EmptySeq
  <1> QED
    BY <1>1, <1>2, <1>4, <1>5

LEMMA ByteFacts ==
    ASSUME setting \in Settings, NEW b \in Byte
    PROVE  /\ b.msg \in Msgs /\ b.msg \in Nat /\ b.at \in Nat /\ b.at >= 1 /\ b.at <= Size(b.msg)
           /\ b = [msg |-> b.msg, at |-> b.at]
           /\ Value(b) \in 0..Base - 1
  <1>1. /\ b.msg \in Msgs /\ b.msg \in Nat /\ b.at \in Nat /\ b.at >= 1 /\ b.at <= Size(b.msg)
        /\ b = [msg |-> b.msg, at |-> b.at]
    BY Lengths DEF Byte, Msgs
  <1>2. Base \in Nat \ {0, 1}
    BY FrameAssumption
  <1>3. MsgLen[b.msg] \in Nat /\ MsgLen[b.msg] < Base * Base
    BY <1>1, Lengths
  <1>4. MsgLen[b.msg] \div Base \in 0..Base - 1 /\ MsgLen[b.msg] % Base \in 0..Base - 1
    BY <1>2, <1>3, Digits
  <1>5. Base - 1 \in 0..Base - 1
    BY <1>2
  <1>6. Value(b) \in 0..Base - 1
    BY <1>4, <1>5 DEF Value
  <1> QED
    BY <1>1, <1>6

(* What recv_peek makes of the header.                                     *)
Announced == convert_hex_to_int(SubSeq(buf, 1, Min({HEADSIZE, Len(buf)})))

LEMMA AnnouncedFacts ==
    ASSUME setting \in Settings, buf \in Seq(Byte)
    PROVE  /\ Announced \in 0..Base * Base - 1
           /\ buf = <<>> => Announced = 0
           /\ Len(buf) >= 2 => Announced = Value(buf[1]) * Base + Value(buf[2])
  <1>0. Len(buf) \in Nat /\ Base \in Nat \ {0, 1} /\ \A k \in 1..Len(buf) : Value(buf[k]) \in 0..Base - 1
    BY FrameAssumption, ByteFacts, ElementOfSeq, LenProperties
  <1>1. CASE Len(buf) = 0
    <2>1. Min({HEADSIZE, Len(buf)}) = 0
      BY <1>0, <1>1, MinOfTwo DEF HEADSIZE
    <2>2. SubSeq(buf, 1, Min({HEADSIZE, Len(buf)})) = <<>>
      BY <2>1, SubSeqEmpty
    <2>3. Announced = 0
      <3>1. convert_hex_to_int(<<>>) = 0
        <4>1. Len(<<>>) = 0
          BY EmptySeq
        <4> QED
          BY <4>1 DEF convert_hex_to_int
      <3> QED
        BY <2>2, <3>1 DEF Announced
    <2>4. 0 \in 0..Base * Base - 1
      BY <1>0, TwoDigits
    <2> QED
      BY <1>1, <2>3, <2>4
  <1>2. CASE Len(buf) = 1
    <2>1. Min({HEADSIZE, Len(buf)}) = 1
      BY <1>0, <1>2, MinOfTwo DEF HEADSIZE
    <2>2. PICK h : h = SubSeq(buf, 1, 1) /\ Len(h) = 1 /\ h[1] = buf[1]
      BY <1>0, <1>2, Cut
    <2>3. PICK v \in 0..Base - 1 : v = Value(buf[1])
      BY <1>0, <1>2
    <2>4. Announced = v * Base
      BY <1>0, <2>1, <2>2, <2>3 DEF Announced, convert_hex_to_int
    <2>5. v * Base + 0 \in 0..Base * Base - 1
      BY <1>0, TwoDigits
    <2> QED
      BY <1>0, <1>2, <2>4, <2>5, EmptySeq
  <1>3. CASE Len(buf) >= 2
    <2>1. Min({HEADSIZE, Len(buf)}) = 2
      BY <1>0, <1>3, MinOfTwo DEF HEADSIZE
    <2>2. PICK h : h = SubSeq(buf, 1, 2) /\ Len(h) = 2 /\ h[1] = buf[1] /\ h[2] = buf[2]
      <3>1. 2 \in 0..Len(buf) /\ 1 \in 1..2 /\ 2 \in 1..2
        BY <1>0, <1>3
      <3>2. Len(SubSeq(buf, 1, 2)) = 2 /\ \A k \in 1..2 : SubSeq(buf, 1, 2)[k] = buf[k]
        BY <3>1, Cut
      <3> QED
        BY <3>1, <3>2
    <2>3. PICK u \in 0..Base - 1, v \in 0..Base - 1 : u = Value(buf[1]) /\ v = Value(buf[2])
      BY <1>0, <1>3
    <2>4. Announced = u * Base + v
      BY <1>0, <2>1, <2>2, <2>3 DEF Announced, convert_hex_to_int
    <2>5. u * Base + v \in 0..Base * Base - 1
      BY <1>0, TwoDigits
    <2> QED
      BY <1>0, <1>3, <2>3, <2>4, <2>5, EmptySeq
  <1>4. Len(buf) = 0 \/ Len(buf) = 1 \/ Len(buf) >= 2
    <2>1. \A n \in Nat : n = 0 \/ n = 1 \/ n >= 2
      OBVIOUS
    <2> QED
      BY <1>0, <2>1, Zenon
  <1> QED
    BY <1>1, <1>2, <1>3, <1>4, Zenon

-----------------------------------------------------------------------------
(* Types                                                                   *)

LEMMA JobFacts ==
    ASSUME TypeOK, NEW w \in Workers
    PROVE  /\ rd[w] \in Job
           /\ rd[w].pc \in {"idle", "peek", "readn", "analyse", "dead"}
           /\ rd[w].pc = "dead" <=> rd[w] = Dead
           /\ rd[w].pc = "readn" => rd[w].left \in 1..Base * Base + 1
           /\ rd[w].pc \in {"readn", "analyse"} =>
                /\ rd[w].got \in Seq(Byte)
                /\ rd[w] = [pc |-> rd[w].pc, left |-> rd[w].left, got |-> rd[w].got]
  <1>1. rd[w] \in Job
    BY DEF TypeOK
  <1> QED
    BY <1>1 DEF Job, Idle, Dead

(* The sets of bytes and tasks depend on the setting, which stays.         *)
LEMMA SameSetting ==
    ASSUME setting' = setting
    PROVE  Byte' = Byte /\ Job' = Job /\ Msgs' = Msgs /\ MsgLen' = MsgLen /\ \A i : Size(i)' = Size(i) /\ Frame(i)' = Frame(i)
  BY DEF Byte, Job, Msgs, MsgLen, Size, Frame

(* One read of readn, which takes n bytes.                                 *)
ReadOf(w, n, left, got) ==
    /\ left = rd[w].left /\ got = rd[w].got /\ rd[w].pc = "readn"
    /\ n <= left /\ (n < left => n = Len(buf))
    /\ buf' = SubSeq(buf, n + 1, Len(buf))
    /\ rd' = [rd EXCEPT ![w] = [pc |-> IF n = 0 \/ n = left THEN "analyse" ELSE "readn",
                                left |-> left - n, got |-> got \o SubSeq(buf, 1, n)]]

LEMMA ReadnFacts ==
    ASSUME TypeOK, NEW w \in Workers, readn(w)
    PROVE  \E n \in 0..Len(buf), left \in 1..Base * Base + 1, got \in Seq(Byte) : ReadOf(w, n, left, got)
  <1>1. /\ rd[w].pc = "readn" /\ rd[w].left \in 1..Base * Base + 1 /\ rd[w].got \in Seq(Byte)
        /\ rd[w] = [pc |-> "readn", left |-> rd[w].left, got |-> rd[w].got]
        /\ buf \in Seq(Byte) /\ rd \in [Workers -> Job]
    BY JobFacts DEF readn, TypeOK
  <1>2. PICK left \in 1..Base * Base + 1, got \in Seq(Byte) : left = rd[w].left /\ got = rd[w].got
    BY <1>1
  <1> DEFINE n == Min({left, Len(buf)})
             pc == IF n = 0 \/ n = left THEN "analyse" ELSE "readn"
  <1>3. Len(buf) \in Nat /\ left \in Nat
    BY <1>1, FrameAssumption
  <1>4. n \in 0..Len(buf) /\ n <= left /\ (n < left => n = Len(buf))
    BY <1>3, MinOfTwo
  <1>5. /\ buf' = SubSeq(buf, n + 1, Len(buf))
        /\ rd' = [rd EXCEPT ![w].left = @ - n, ![w].got = @ \o SubSeq(buf, 1, n), ![w].pc = pc]
        BY <1>2 DEF readn
  <1> HIDE DEF n
  <1>6. rd' = [rd EXCEPT ![w] = [pc |-> pc, left |-> left - n, got |-> got \o SubSeq(buf, 1, n)]]
    <2>1. PICK a, b, c : a = left - n /\ b = got \o SubSeq(buf, 1, n) /\ c = pc
      OBVIOUS
    <2>2. rd' = [rd EXCEPT ![w].left = a, ![w].got = b, ![w].pc = c]
      BY <1>2, <1>5, <2>1
    <2>3. rd' = [rd EXCEPT ![w] = [[[rd[w] EXCEPT !.left = a] EXCEPT !.got = b] EXCEPT !.pc = c]]
      BY <1>1, <2>2
    <2>4. PICK x : x = [rd[w] EXCEPT !.left = a]
      OBVIOUS
    <2>5. x = [pc |-> "readn", left |-> a, got |-> rd[w].got]
      BY <1>1, <2>4
    <2>6. PICK y : y = [x EXCEPT !.got = b]
      OBVIOUS
    <2>7. y = [pc |-> "readn", left |-> a, got |-> b]
      BY <2>5, <2>6
    <2>8. [y EXCEPT !.pc = c] = [pc |-> c, left |-> a, got |-> b]
      BY <2>7
    <2> QED
      BY <2>1, <2>3, <2>4, <2>6, <2>8
  <1>7. ReadOf(w, n, left, got)
    BY <1>1, <1>2, <1>4, <1>5, <1>6 DEF ReadOf
  <1> QED
    BY <1>4, <1>7

(* recv_peek in the same form.                                             *)
LEMMA PeekFacts ==
    ASSUME TypeOK, NEW w \in Workers, recv_peek(w)
    PROVE  /\ rd[w].pc = "peek"
           /\ \/ Announced = 0 /\ rd' = [rd EXCEPT ![w] = Idle]
              \/ /\ Announced # 0 /\ Announced + HEADSIZE \in 1..Base * Base + 1
                 /\ rd' = [rd EXCEPT ![w] = [pc |-> "readn", left |-> Announced + HEADSIZE, got |-> <<>>]]
  <1>1. /\ rd[w].pc = "peek"
        /\ rd' = [rd EXCEPT ![w] = IF Announced = 0 THEN Idle
                                   ELSE [pc |-> "readn", left |-> Announced + HEADSIZE, got |-> <<>>]]
    BY DEF recv_peek, Announced
  <1>2. Announced \in 0..Base * Base - 1
    BY AnnouncedFacts DEF TypeOK
  <1>3. Base * Base \in Nat
    BY FrameAssumption
  <1>4. \A a, b \in Nat : a <= b - 1 => a + HEADSIZE \in 1..b + 1
    BY DEF HEADSIZE
  <1>5. Announced + HEADSIZE \in 1..Base * Base + 1
    BY <1>2, <1>3, <1>4
  <1>6. CASE Announced = 0
    BY <1>1, <1>6
  <1>7. CASE Announced # 0
    BY <1>1, <1>5, <1>7
  <1> QED
    BY <1>1, <1>6, <1>7

(* analysis_message in the same form.                                      *)
LEMMA AnalyseFacts ==
    ASSUME TypeOK, NEW w \in Workers, analysis_message(w)
    PROVE  /\ rd[w].pc = "analyse" /\ rd[w].got \in Seq(Byte)
           /\ \/ \E i \in Msgs : /\ rd[w].got = Frame(i)
                                 /\ parsed' = Append(parsed, i) /\ refused' = refused
                                 /\ rd' = [rd EXCEPT ![w] = [pc |-> "peek"]]
              \/ \E i \in Msgs : /\ rd[w].got = Frame(i)
                                 /\ parsed' = parsed /\ refused' = refused \cup {i}
                                 /\ rd' = [rd EXCEPT ![w] = Idle]
              \/ /\ parsed' = parsed /\ refused' = refused
                 /\ rd' = [rd EXCEPT ![w] = Idle] \/ rd' = [v \in Workers |-> Dead]
           /\ UNCHANGED <<setting, sent, unsent, buf, closed, edge, jobs>>
           /\ torn' \in BOOLEAN /\ stalled' \in BOOLEAN
  <1>1. rd[w].pc = "analyse" /\ rd[w].got \in Seq(Byte)
    BY JobFacts DEF analysis_message
  <1>2. UNCHANGED <<setting, sent, unsent, buf, closed, edge, jobs>>
    BY DEF analysis_message
  <1>3. torn' \in BOOLEAN /\ stalled' \in BOOLEAN
    BY DEF analysis_message, TypeOK
  <1>4. ASSUME NEW i \in Msgs, rd[w].got = Frame(i) PROVE rd[w].got[1].msg = i
    <2>1. Size(i) \in Nat /\ Size(i) >= 4 /\ \A k \in 1..Size(i) : Frame(i)[k] = [msg |-> i, at |-> k]
      BY FrameFacts, Lengths DEF TypeOK
    <2>2. 1 \in 1..Size(i)
      BY <2>1
    <2>3. Frame(i)[1] = [msg |-> i, at |-> 1]
      BY <2>1, <2>2, Zenon
    <2> QED
      BY <1>4, <2>3
  <1>5. CASE /\ Whole(rd[w].got)
             /\ parsed' = Append(parsed, rd[w].got[1].msg) /\ refused' = refused
             /\ rd' = [rd EXCEPT ![w] = [pc |-> "peek"]]
    <2>1. PICK i \in Msgs : rd[w].got = Frame(i)
      BY <1>5 DEF Whole
    <2> QED
      BY <1>1, <1>2, <1>3, <1>4, <1>5, <2>1
  <1>6. CASE /\ Whole(rd[w].got)
             /\ parsed' = parsed /\ refused' = refused \cup {rd[w].got[1].msg}
             /\ rd' = [rd EXCEPT ![w] = Idle]
    <2>1. PICK i \in Msgs : rd[w].got = Frame(i)
      BY <1>6 DEF Whole
    <2> QED
      BY <1>1, <1>2, <1>3, <1>4, <1>6, <2>1
  <1> QED
    BY <1>1, <1>2, <1>3, <1>5, <1>6 DEF analysis_message

LEMMA TypeInit == Init => TypeOK
  <1> SUFFICES ASSUME Init PROVE TypeOK
    OBVIOUS
  <1>1. Len(MsgLen) \in Nat
    BY Lengths DEF Init
  <1>2. <<>> \in Seq(Byte) /\ <<>> \in Seq(Msgs)
    BY EmptySeq
  <1>3. sent \in 0..Len(MsgLen) /\ jobs \in Nat
    BY <1>1 DEF Init
  <1>4. rd \in [Workers -> Job]
    BY DEF Init, Job
  <1> QED
    BY <1>2, <1>3, <1>4 DEF Init, TypeOK

LEMMA TypeStep == TypeOK /\ [Next]_vars => TypeOK'
  <1> SUFFICES ASSUME TypeOK, [Next]_vars PROVE TypeOK'
    OBVIOUS
  <1>0. setting' = setting
    BY DEF Next, vars, Send, Segment, Close, handle_read, read_sock_func, Start, recv_peek, readn, analysis_message
  <1>1. Byte' = Byte /\ Job' = Job /\ Msgs' = Msgs /\ MsgLen' = MsgLen
    BY <1>0, SameSetting
  <1>2. Len(MsgLen) \in Nat /\ Len(buf) \in Nat /\ Len(unsent) \in Nat /\ setting \in Settings
    BY Lengths DEF TypeOK
  <1>3. [pc |-> "peek"] \in Job /\ Idle \in Job /\ Dead \in Job
    BY DEF Job
  <1>4. CASE Send
    <2>1. sent + 1 \in Msgs /\ sent' \in 0..Len(MsgLen)
      BY <1>2, <1>4 DEF Send, Msgs, TypeOK
    <2>2. unsent' \in Seq(Byte)
      BY <1>2, <1>4, <2>1, FrameFacts, ConcatProperties DEF Send, TypeOK
    <2> QED
      BY <1>1, <1>4, <2>1, <2>2 DEF Send, TypeOK
  <1>5. ASSUME NEW n \in 1..Len(unsent), Segment(n) PROVE TypeOK'
    <2>1. n \in 0..Len(unsent)
      BY <1>2
    <2>2. SubSeq(unsent, 1, n) \in Seq(Byte) /\ SubSeq(unsent, n + 1, Len(unsent)) \in Seq(Byte)
      BY <2>1, Cut DEF TypeOK
    <2>3. buf' \in Seq(Byte) /\ unsent' \in Seq(Byte)
      BY <1>5, <2>2, ConcatProperties DEF Segment, TypeOK
    <2> QED
      BY <1>1, <1>5, <2>3 DEF Segment, TypeOK
  <1>6. CASE Close \/ handle_read
    <2>1. jobs' \in Nat /\ edge' \in BOOLEAN /\ closed' \in BOOLEAN
      <3>1. CASE Close
        BY <3>1 DEF Close, TypeOK
      <3>2. CASE handle_read
        <4>1. jobs' = jobs \/ jobs' = jobs + 1
          BY <3>2 DEF handle_read
        <4>2. jobs' \in Nat
          BY <4>1 DEF TypeOK
        <4> QED
          BY <3>2, <4>2 DEF handle_read, TypeOK
      <3> QED
        BY <1>6, <3>1, <3>2
    <2>2. UNCHANGED <<setting, sent, unsent, buf, rd, parsed, refused, torn, stalled>>
      BY <1>6 DEF Close, handle_read
    <2> QED
      BY <1>1, <2>1, <2>2 DEF TypeOK
  <1>7. ASSUME NEW w \in Workers, Start(w) PROVE TypeOK'
    BY <1>1, <1>3, <1>7 DEF Start, TypeOK
  <1>8. ASSUME NEW w \in Workers, recv_peek(w) PROVE TypeOK'
    <2>1. \A left \in 1..Base * Base + 1 : [pc |-> "readn", left |-> left, got |-> <<>>] \in Job
      BY EmptySeq DEF Job
    <2>2. rd' \in [Workers -> Job]
      BY <1>3, <1>8, <2>1, PeekFacts DEF TypeOK
    <2> QED
      BY <1>1, <1>8, <2>2 DEF recv_peek, TypeOK
  <1>9. ASSUME NEW w \in Workers, readn(w) PROVE TypeOK'
    <2>0. PICK n \in 0..Len(buf), left \in 1..Base * Base + 1, got \in Seq(Byte) : ReadOf(w, n, left, got)
      BY <1>9, ReadnFacts
    <2>1. /\ n <= left
          /\ buf' = SubSeq(buf, n + 1, Len(buf))
          /\ rd' = [rd EXCEPT ![w] = [pc |-> IF n = 0 \/ n = left THEN "analyse" ELSE "readn",
                                      left |-> left - n, got |-> got \o SubSeq(buf, 1, n)]]
            BY <2>0 DEF ReadOf
    <2>2. buf' \in Seq(Byte) /\ SubSeq(buf, 1, n) \in Seq(Byte)
      BY <2>1, Cut DEF TypeOK
    <2>3. got \o SubSeq(buf, 1, n) \in Seq(Byte)
      BY <2>2, ConcatProperties
    <2>4. [pc |-> IF n = 0 \/ n = left THEN "analyse" ELSE "readn", left |-> left - n, got |-> got \o SubSeq(buf, 1, n)] \in Job
      <3>1. PICK g \in Seq(Byte) : g = got \o SubSeq(buf, 1, n)
        BY <2>3
      <3>2. PICK m \in Nat : m = Base * Base + 1
        BY FrameAssumption
      <3>3. left - n \in 0..m /\ (n # left => left - n \in 1..m)
        BY <1>2, <2>1, <3>2
      <3>4. CASE n = 0 \/ n = left
        BY <3>1, <3>2, <3>3, <3>4 DEF Job
      <3>5. CASE ~(n = 0 \/ n = left)
        BY <3>1, <3>2, <3>3, <3>5 DEF Job
      <3> QED
        BY <3>4, <3>5
    <2>5. rd' \in [Workers -> Job]
      BY <2>1, <2>4 DEF TypeOK
    <2> QED
      BY <1>1, <1>9, <2>1, <2>2, <2>5 DEF readn, TypeOK
  <1>10. ASSUME NEW w \in Workers, analysis_message(w) PROVE TypeOK'
    <2>1. parsed' \in Seq(Msgs) /\ rd' \in [Workers -> Job] /\ refused' \subseteq Msgs
      <3>1. CASE \E i \in Msgs : /\ parsed' = Append(parsed, i) /\ refused' = refused
                                 /\ rd' = [rd EXCEPT ![w] = [pc |-> "peek"]]
        <4>1. PICK i \in Msgs : /\ parsed' = Append(parsed, i) /\ refused' = refused
                                /\ rd' = [rd EXCEPT ![w] = [pc |-> "peek"]]
          BY <3>1
        <4> QED
          BY <1>3, <4>1, AppendProperties DEF TypeOK
      <3>2. CASE /\ parsed' = parsed
                 /\ refused' = refused \/ \E i \in Msgs : refused' = refused \cup {i}
                 /\ rd' = [rd EXCEPT ![w] = Idle] \/ rd' = [v \in Workers |-> Dead]
        BY <1>3, <3>2 DEF TypeOK
      <3> QED
        BY <1>10, <3>1, <3>2, AnalyseFacts
    <2>2. /\ UNCHANGED <<setting, sent, unsent, buf, closed, edge, jobs>>
          /\ torn' \in BOOLEAN /\ stalled' \in BOOLEAN
      BY <1>10, AnalyseFacts
    <2> QED
      BY <1>1, <2>1, <2>2 DEF TypeOK
  <1>11. CASE UNCHANGED vars
    BY <1>1, <1>11 DEF vars, TypeOK
  <1> QED
    BY <1>4, <1>5, <1>6, <1>7, <1>8, <1>9, <1>10, <1>11 DEF Next, read_sock_func

(* In every setting, torn or not, and also after the process has died.     *)
THEOREM FrameTypeOK == Spec => []TypeOK
  BY TypeInit, TypeStep, PTL DEF Spec

-----------------------------------------------------------------------------
(* What every step keeps                                                   *)

(* A read only moves bytes from the buffer to the reader.                  *)
LEMMA ReadMove ==
    \A got, b, u \in Seq(Byte) : \A n \in 0..Len(b) :
        (got \o SubSeq(b, 1, n)) \o (SubSeq(b, n + 1, Len(b)) \o u) = got \o (b \o u)
  <1> TAKE got, b, u \in Seq(Byte)
  <1> TAKE n \in 0..Len(b)
  <1> DEFINE c == SubSeq(b, 1, n)
             d == SubSeq(b, n + 1, Len(b))
  <1>1. c \in Seq(Byte) /\ d \in Seq(Byte) /\ c \o d = b
    BY Cut
  <1> HIDE DEF c, d
  <1>2. /\ \A x, y, z \in Seq(Byte) : (x \o y) \o z = x \o (y \o z)
        /\ \A x, y \in Seq(Byte) : x \o y \in Seq(Byte)
    BY AssocAll
  <1>20. \A x, y, z \in Seq(Byte) : (x \o y) \o z = x \o (y \o z)
    BY <1>2
  <1>10. c \in Seq(Byte) /\ d \in Seq(Byte)
    BY <1>1
  <1> DEFINE e == d \o u
  <1>3. e \in Seq(Byte)
    BY <1>1, <1>2, Zenon
  <1>4. c \o e = (c \o d) \o u
    <2>1. (c \o d) \o u = c \o (d \o u)
      BY <1>10, <1>20, Zenon
    <2> QED
      BY <2>1
  <1> HIDE DEF e
  <1>5. (got \o c) \o e = got \o (c \o e)
    BY <1>10, <1>20, <1>3, Zenon
  <1> QED
    BY <1>1, <1>4, <1>5 DEF c, d, e

(* Nothing in front.                                                       *)
LEMMA NothingFirst ==
    ASSUME NEW S, NEW q \in Seq(S)
    PROVE  <<>> \o q = q
  BY ConcatEmptySeq

LEMMA ConcatFront ==
    \A a, b \in Seq(Byte) :
        /\ a \o b \in Seq(Byte)
        /\ a # <<>> => a \o b # <<>> /\ (a \o b)[1] = a[1]
        /\ b # <<>> => a \o b # <<>>
  <1> TAKE a, b \in Seq(Byte)
  <1> DEFINE q == a \o b
  <1>1. /\ q \in Seq(Byte) /\ Len(q) = Len(a) + Len(b)
        /\ \A k \in 1..Len(a) + Len(b) : q[k] = IF k <= Len(a) THEN a[k] ELSE b[k - Len(a)]
    BY ConcatProperties
  <1> HIDE DEF q
  <1>2. PICK L \in Nat, M \in Nat : L = Len(a) /\ M = Len(b)
    BY LenProperties
  <1>3. Len(q) = L + M /\ \A k \in 1..L + M : q[k] = IF k <= L THEN a[k] ELSE b[k - L]
    BY <1>1, <1>2
  <1>4. ASSUME a # <<>> PROVE q # <<>> /\ q[1] = a[1]
    <2>1. L >= 1
      BY <1>2, <1>4, EmptySeq
    <2>2. 1 \in 1..L + M /\ 1 <= L /\ L + M # 0
      BY <2>1
    <2> QED
      BY <1>3, <2>2, EmptySeq
  <1>5. ASSUME b # <<>> PROVE q # <<>>
    <2>1. M >= 1
      BY <1>2, <1>5, EmptySeq
    <2>2. L + M # 0
      BY <2>1
    <2> QED
      BY <1>3, <2>2, EmptySeq
  <1> QED
    BY <1>1, <1>4, <1>5 DEF q

LEMMA SettingStep == [Next]_vars => setting' = setting
  BY DEF Next, vars, Send, Segment, Close, handle_read, read_sock_func, Start, recv_peek, readn, analysis_message

LEMMA PoolStep == TypeOK /\ PoolInv /\ [Next]_vars => PoolInv'
  <1> SUFFICES ASSUME TypeOK, PoolInv, [Next]_vars PROVE PoolInv'
    OBVIOUS
  <1>0. setting' = setting
    BY SettingStep
  <1>1. CASE rd' = rd
    BY <1>0, <1>1 DEF PoolInv
  <1>2. ASSUME NEW w \in Workers, read_sock_func(w) PROVE PoolInv'
    <2>1. w \in setting.workers
      <3>1. CASE Start(w)
        BY <3>1 DEF Start
      <3>2. CASE recv_peek(w) \/ readn(w) \/ analysis_message(w)
        BY <3>2 DEF recv_peek, readn, analysis_message, PoolInv
      <3> QED
        BY <1>2, <3>1, <3>2 DEF read_sock_func
    <2>2. \A v \in Workers : v # w => rd'[v] = rd[v] \/ rd'[v] = Dead
      BY <1>2 DEF read_sock_func, Start, recv_peek, readn, analysis_message, TypeOK
    <2> QED
      BY <1>0, <2>1, <2>2 DEF PoolInv, Dead
  <1> QED
    BY <1>1, <1>2 DEF Next, vars, Send, Segment, Close, handle_read

-----------------------------------------------------------------------------
(* Order                                                                   *)

(* A message behind the others.                                            *)
LEMMA OrderSend ==
    ASSUME setting \in Settings, NEW q \in Seq(Byte), NEW used \in Seq(Msgs), NEW n \in Nat, n + 1 \in Msgs,
           OrderOK(q, used, n)
    PROVE  OrderOK(q \o Frame(n + 1), used, n + 1)
  <1>1. PICK m \in Msgs, L \in Nat, S \in Nat : m = n + 1 /\ L = Len(q) /\ S = Size(m)
    BY Lengths, LenProperties
  <1> DEFINE f == Frame(m)
  <1>2. f \in Seq(Byte) /\ Len(f) = S /\ \A k \in 1..S : f[k] = [msg |-> m, at |-> k]
    BY <1>1, FrameFacts
  <1> HIDE DEF f
  <1> DEFINE c == q \o f
  <1>3. /\ c \in Seq(Byte) /\ Len(c) = Len(q) + Len(f)
        /\ \A k \in 1..Len(q) + Len(f) : c[k] = IF k <= Len(q) THEN q[k] ELSE f[k - Len(q)]
    BY <1>2, ConcatProperties
  <1> HIDE DEF c
  <1>4. Len(c) = L + S /\ \A k \in 1..L + S : c[k] = IF k <= L THEN q[k] ELSE f[k - L]
    BY <1>1, <1>2, <1>3
  (* A byte is one of the old ones or a byte of the new message. *)
  <1>5. ASSUME NEW p \in 1..L + S
        PROVE  \/ p \in 1..L /\ c[p] = q[p]
               \/ p > L /\ c[p].msg = m /\ c[p].at = p - L
    <2>1. CASE p <= L
      BY <1>4, <2>1
    <2>2. CASE ~(p <= L)
      <3>1. p - L \in 1..S
        BY <2>2
      <3>2. c[p] = [msg |-> m, at |-> p - L]
        BY <1>2, <1>4, <2>2, <3>1
      <3> QED
        BY <2>2, <3>2
    <2> QED
      BY <2>1, <2>2
  <1>6. /\ \A p, r \in 1..L : p < r => Before(q[p], q[r])
        /\ \A p \in 1..L : q[p].msg <= n
        /\ \A p \in 1..L, k \in 1..Len(used) : used[k] < q[p].msg
        /\ \A j, k \in 1..Len(used) : j < k => used[j] < used[k]
        /\ \A k \in 1..Len(used) : used[k] <= n
    BY <1>1 DEF OrderOK
  <1>7. (\A p \in 1..L : q[p].msg \in Nat /\ q[p].at \in Nat) /\ \A k \in 1..Len(used) : used[k] \in Nat
    BY <1>1, ByteFacts, ElementOfSeq DEF Msgs
  <1>8. \A p, r \in 1..L + S : p < r => Before(c[p], c[r])
    <2> SUFFICES ASSUME NEW p \in 1..L + S, NEW r \in 1..L + S, p < r PROVE Before(c[p], c[r])
      OBVIOUS
    <2>1. CASE p \in 1..L /\ c[p] = q[p]
      <3>1. CASE r \in 1..L /\ c[r] = q[r]
        BY <1>6, <2>1, <3>1
      <3>2. CASE r > L /\ c[r].msg = m
        <4>1. q[p].msg < m
          BY <1>1, <1>6, <1>7, <2>1
        <4> QED
          BY <2>1, <3>2, <4>1 DEF Before
      <3> QED
        BY <1>5, <3>1, <3>2
    <2>2. CASE p > L /\ c[p].msg = m /\ c[p].at = p - L
      <3>1. ~(r \in 1..L)
        BY <2>2
      <3>2. c[r].msg = m /\ c[r].at = r - L
        BY <1>5, <3>1
      <3>3. p - L < r - L
        OBVIOUS
      <3> QED
        BY <2>2, <3>2, <3>3 DEF Before
    <2> QED
      BY <1>5, <2>1, <2>2
  <1>9. \A p \in 1..L + S : c[p].msg <= m
    <2>1. m \in Nat /\ m <= m /\ \A x \in Nat : x <= n => x <= m
      BY <1>1
    <2>2. \A p \in 1..L : q[p].msg <= m
      BY <1>6, <1>7, <2>1
    <2> QED
      BY <1>5, <2>1, <2>2
  <1>10. \A k \in 1..Len(used) : used[k] < m
    BY <1>1, <1>6, <1>7
  <1>11. \A p \in 1..L + S, k \in 1..Len(used) : used[k] < c[p].msg
    BY <1>5, <1>6, <1>10
  <1>12. \A k \in 1..Len(used) : used[k] <= m
    BY <1>1, <1>7, <1>10
  <1>13. OrderOK(c, used, m)
    BY <1>4, <1>6, <1>8, <1>9, <1>11, <1>12 DEF OrderOK
  <1> QED
    BY <1>1, <1>13 DEF c, f

(* Bytes that are thrown away, and bytes that are used.                    *)
LEMMA OrderDrop ==
    ASSUME setting \in Settings, NEW a \in Seq(Byte), NEW b \in Seq(Byte), NEW used, NEW n, OrderOK(a \o b, used, n)
    PROVE  /\ OrderOK(b, used, n)
           /\ \A p \in 1..Len(a), r \in 1..Len(b) : Before(a[p], b[r])
           /\ \A p \in 1..Len(a) : a[p].msg <= n
           /\ \A p \in 1..Len(a), k \in 1..Len(used) : used[k] < a[p].msg
  <1> DEFINE q == a \o b
  <1>1. /\ q \in Seq(Byte) /\ Len(q) = Len(a) + Len(b)
        /\ \A k \in 1..Len(a) + Len(b) : q[k] = IF k <= Len(a) THEN a[k] ELSE b[k - Len(a)]
    BY ConcatProperties
  <1>2. OrderOK(q, used, n)
    OBVIOUS
  <1> HIDE DEF q
  <1>3. PICK L \in Nat, M \in Nat : L = Len(a) /\ M = Len(b)
    BY LenProperties
  <1>4. Len(q) = L + M /\ \A k \in 1..L + M : q[k] = IF k <= L THEN a[k] ELSE b[k - L]
    BY <1>1, <1>3
  <1>5. \A p \in 1..M : L + p \in 1..L + M /\ q[L + p] = b[p]
    <2> TAKE p \in 1..M
    <2>1. L + p \in 1..L + M /\ ~(L + p <= L) /\ (L + p) - L = p
      OBVIOUS
    <2> QED
      BY <1>4, <2>1
  <1>6. \A p \in 1..L : p \in 1..L + M /\ q[p] = a[p]
    <2> TAKE p \in 1..L
    <2>1. p \in 1..L + M /\ p <= L
      OBVIOUS
    <2> QED
      BY <1>4, <2>1
  <1>7. /\ \A p, r \in 1..L + M : p < r => Before(q[p], q[r])
        /\ \A p \in 1..L + M : q[p].msg <= n
        /\ \A p \in 1..L + M, k \in 1..Len(used) : used[k] < q[p].msg
        /\ \A j, k \in 1..Len(used) : j < k => used[j] < used[k]
        /\ \A k \in 1..Len(used) : used[k] <= n
    BY <1>2, <1>4 DEF OrderOK
  <1>8. \A p, r \in 1..M : p < r => Before(b[p], b[r])
    <2> SUFFICES ASSUME NEW p \in 1..M, NEW r \in 1..M, p < r PROVE Before(b[p], b[r])
      OBVIOUS
    <2>1. L + p < L + r
      OBVIOUS
    <2>2. L + p \in 1..L + M /\ L + r \in 1..L + M /\ q[L + p] = b[p] /\ q[L + r] = b[r]
      BY <1>5
    <2> QED
      BY <1>7, <2>1, <2>2
  <1>9. \A p \in 1..L, r \in 1..M : Before(a[p], b[r])
    <2> SUFFICES ASSUME NEW p \in 1..L, NEW r \in 1..M PROVE Before(a[p], b[r])
      OBVIOUS
    <2>1. p < L + r
      OBVIOUS
    <2>2. p \in 1..L + M /\ L + r \in 1..L + M /\ q[p] = a[p] /\ q[L + r] = b[r]
      BY <1>5, <1>6
    <2> QED
      BY <1>7, <2>1, <2>2
  <1>10. (\A p \in 1..M : b[p].msg <= n) /\ \A p \in 1..M, k \in 1..Len(used) : used[k] < b[p].msg
    BY <1>5, <1>7
  <1>11. (\A p \in 1..L : a[p].msg <= n) /\ \A p \in 1..L, k \in 1..Len(used) : used[k] < a[p].msg
    BY <1>6, <1>7
  <1>12. OrderOK(b, used, n)
    BY <1>3, <1>7, <1>8, <1>10 DEF OrderOK
  <1> QED
    BY <1>3, <1>9, <1>11, <1>12

LEMMA OrderUse ==
    ASSUME setting \in Settings, NEW i \in Msgs, NEW b \in Seq(Byte), NEW used \in Seq(Msgs), NEW n \in Nat,
           OrderOK(Frame(i) \o b, used, n)
    PROVE  OrderOK(b, Append(used, i), n)
  <1>1. PICK f \in Seq(Byte), S \in Nat :
             /\ f = Frame(i) /\ S = Size(i) /\ S >= 4 /\ Len(f) = S
             /\ \A k \in 1..S : f[k] = [msg |-> i, at |-> k]
    BY FrameFacts, Lengths
  <1>2. /\ OrderOK(b, used, n)
        /\ \A p \in 1..S, r \in 1..Len(b) : Before(f[p], b[r])
        /\ \A p \in 1..S : f[p].msg <= n
        /\ \A p \in 1..S, k \in 1..Len(used) : used[k] < f[p].msg
    <2>1. OrderOK(f \o b, used, n)
      BY <1>1
    <2> QED
      BY <1>1, <2>1, OrderDrop
  <1>3. S \in 1..S /\ f[S].msg = i /\ f[S].at = S
    <2>1. S \in 1..S
      BY <1>1
    <2>2. f[S] = [msg |-> i, at |-> S]
      BY <1>1, <2>1
    <2> QED
      BY <2>1, <2>2
  <1>4. i <= n /\ \A k \in 1..Len(used) : used[k] < i
    BY <1>2, <1>3
  <1>5. ASSUME NEW r \in 1..Len(b) PROVE i < b[r].msg
    <2>1. Before(f[S], b[r])
      BY <1>2, <1>3
    <2>2. b[r] \in Byte
      BY ElementOfSeq
    <2>3. PICK m \in Msgs, a \in Nat : m = b[r].msg /\ a = b[r].at /\ a <= Size(m)
      BY <2>2, ByteFacts
    <2>4. i < m \/ (i = m /\ S < a)
      BY <1>3, <2>1, <2>3 DEF Before
    <2>5. ~(i = m /\ S < a)
      BY <1>1, <2>3
    <2> QED
      BY <2>3, <2>4, <2>5
  <1>6. PICK K \in Nat : K = Len(used)
    BY LenProperties
  <1> DEFINE g == Append(used, i)
  <1>7. Len(g) = K + 1 /\ g[K + 1] = i /\ \A k \in 1..K : g[k] = used[k]
    BY <1>6, AppendProperties
  <1> HIDE DEF g
  <1>8. \A k \in 1..K + 1 : k = K + 1 \/ k \in 1..K
    OBVIOUS
  <1>9. /\ \A p, r \in 1..Len(b) : p < r => Before(b[p], b[r])
        /\ \A p \in 1..Len(b) : b[p].msg <= n
        /\ \A p \in 1..Len(b), k \in 1..K : used[k] < b[p].msg
        /\ \A j, k \in 1..K : j < k => used[j] < used[k]
        /\ \A k \in 1..K : used[k] <= n
    BY <1>2, <1>6 DEF OrderOK
  <1>10. \A p \in 1..Len(b), k \in 1..K + 1 : g[k] < b[p].msg
    BY <1>5, <1>7, <1>8, <1>9
  <1>11. \A k \in 1..K + 1 : g[k] <= n
    BY <1>4, <1>7, <1>8, <1>9
  <1>12. \A j, k \in 1..K + 1 : j < k => g[j] < g[k]
    <2> SUFFICES ASSUME NEW j \in 1..K + 1, NEW k \in 1..K + 1, j < k PROVE g[j] < g[k]
      OBVIOUS
    <2>1. j \in 1..K
      OBVIOUS
    <2>2. CASE k = K + 1
      BY <1>4, <1>6, <1>7, <2>1, <2>2
    <2>3. CASE k \in 1..K
      BY <1>7, <1>9, <2>1, <2>3
    <2> QED
      BY <1>8, <2>2, <2>3
  <1> QED
    BY <1>7, <1>9, <1>10, <1>11, <1>12 DEF OrderOK, g

LEMMA OrderStep == TypeOK /\ PoolInv /\ OrderInv /\ [Next]_vars => OrderInv'
  <1> SUFFICES ASSUME TypeOK, PoolInv, OrderInv, [Next]_vars, Single
               PROVE  \A w \in setting.workers : OrderOK(Held(w) \o Rest, parsed, sent)'
    BY SettingStep DEF OrderInv, Single
  <1>0. /\ setting' = setting /\ setting \in Settings /\ buf \in Seq(Byte) /\ unsent \in Seq(Byte)
        /\ sent \in Nat /\ Len(unsent) \in Nat /\ Len(buf) \in Nat /\ parsed \in Seq(Msgs)
    BY SettingStep, Lengths, LenProperties DEF TypeOK
  <1>1. PICK x \in Workers : setting.workers = {x}
    BY DEF Single
  <1>2. SUFFICES OrderOK(Held(x)' \o Rest', parsed', sent')
    <2>1. OrderOK(Held(x)' \o Rest', parsed', sent') => OrderOK(Held(x) \o Rest, parsed, sent)'
      BY DEF OrderOK, Before
    <2> QED
      BY <1>1, <2>1
  <1>3. PICK h, r : h = Held(x) /\ r = Rest
    OBVIOUS
  <1>4. h \in Seq(Byte) /\ r \in Seq(Byte) /\ h \o r \in Seq(Byte)
    <2>1. h \in Seq(Byte)
      BY <1>3, JobFacts, EmptySeq DEF Held
    <2>2. r \in Seq(Byte)
      BY <1>0, <1>3, ConcatFront DEF Rest
    <2> QED
      BY <2>1, <2>2, ConcatFront
  <1>5. OrderOK(h \o r, parsed, sent)
    BY <1>1, <1>3 DEF OrderInv
  <1>6. CASE Send
    <2>1. sent + 1 \in Msgs
      BY <1>0, <1>6, Lengths DEF Send, Msgs
    <2>2. PICK f \in Seq(Byte) : f = Frame(sent + 1)
      BY <1>0, <2>1, FrameFacts
    <2>3. (buf \o unsent) \o f = buf \o (unsent \o f)
      BY <1>0, <2>2, Assoc
    <2>4. Rest' = r \o f
      BY <1>3, <1>6, <2>2, <2>3 DEF Send, Rest
    <2>5. (h \o r) \o f = h \o (r \o f)
      BY <1>4, <2>2, Assoc
    <2>6. Held(x)' = h /\ parsed' = parsed /\ sent' = sent + 1
      BY <1>3, <1>6 DEF Send, Held
    <2>7. OrderOK((h \o r) \o f, parsed, sent + 1)
      BY <1>0, <1>4, <1>5, <2>1, <2>2, OrderSend
    <2> QED
      BY <2>4, <2>5, <2>6, <2>7
  <1>7. ASSUME NEW k \in 1..Len(unsent), Segment(k) PROVE OrderOK(Held(x)' \o Rest', parsed', sent')
    <2>1. k \in 0..Len(unsent)
      BY <1>0
    <2>2. (buf \o SubSeq(unsent, 1, k)) \o SubSeq(unsent, k + 1, Len(unsent)) = buf \o unsent
      BY <1>0, <2>1, Move
    <2>3. Rest' = r
      BY <1>3, <1>7, <2>2 DEF Segment, Rest
    <2>4. Held(x)' = h /\ parsed' = parsed /\ sent' = sent
      BY <1>3, <1>7 DEF Segment, Held
    <2> QED
      BY <1>5, <2>3, <2>4
  <1>8. CASE Close \/ handle_read \/ UNCHANGED vars
    <2>1. Held(x)' = h /\ Rest' = r /\ parsed' = parsed /\ sent' = sent
      BY <1>3, <1>8 DEF Close, handle_read, vars, Held, Rest
    <2> QED
      BY <1>5, <2>1
  <1>9. ASSUME NEW w \in Workers, Start(w) \/ recv_peek(w) PROVE OrderOK(Held(x)' \o Rest', parsed', sent')
    <2>1. w = x /\ rd[x].pc \in {"idle", "peek"}
      BY <1>1, <1>9 DEF Start, recv_peek, PoolInv
    <2>2. Rest' = r /\ parsed' = parsed /\ sent' = sent
      BY <1>3, <1>9 DEF Start, recv_peek, Rest
    <2>3. h = <<>>
      BY <1>3, <2>1 DEF Held
    <2>4. Held(x)' = <<>>
      <3>1. CASE Start(x)
        BY <3>1 DEF Start, Held, TypeOK
      <3>2. CASE recv_peek(x)
        <4>1. rd' = [rd EXCEPT ![x] = IF Announced = 0 THEN Idle
                                      ELSE [pc |-> "readn", left |-> Announced + HEADSIZE, got |-> <<>>]]
          BY <3>2 DEF recv_peek, Announced
        <4>2. rd'[x] = Idle \/ rd'[x].got = <<>>
          BY <4>1 DEF TypeOK
        <4> QED
          BY <4>2 DEF Held, Idle
      <3> QED
        BY <1>9, <2>1, <3>1, <3>2
    <2> QED
      BY <1>5, <2>2, <2>3, <2>4
  <1>10. ASSUME NEW w \in Workers, readn(w) PROVE OrderOK(Held(x)' \o Rest', parsed', sent')
    <2>1. w = x
      BY <1>1, <1>10 DEF readn, PoolInv
    <2>2. PICK k \in 0..Len(buf), left \in 1..Base * Base + 1, got \in Seq(Byte) : ReadOf(x, k, left, got)
      BY <1>10, <2>1, ReadnFacts
    <2>3. PICK a, d : a = got \o SubSeq(buf, 1, k) /\ d = SubSeq(buf, k + 1, Len(buf))
      OBVIOUS
    <2>4. /\ rd[x].pc = "readn" /\ rd[x].got = got /\ buf' = d
          /\ rd' = [rd EXCEPT ![x] = [pc |-> IF k = 0 \/ k = left THEN "analyse" ELSE "readn",
                                      left |-> left - k, got |-> a]]
      BY <2>2, <2>3 DEF ReadOf
    <2>5. h = got /\ Held(x)' = a
      BY <1>3, <2>4 DEF Held, TypeOK
    <2>6. Rest' = d \o unsent /\ parsed' = parsed /\ sent' = sent
      BY <1>10, <2>4 DEF readn, Rest
    <2>7. a \o (d \o unsent) = got \o (buf \o unsent)
      BY <1>0, <2>3, ReadMove
    <2>8. a \o (d \o unsent) = h \o r
      BY <1>3, <2>5, <2>7 DEF Rest
    <2> QED
      BY <1>5, <2>5, <2>6, <2>8
  <1>11. ASSUME NEW w \in Workers, analysis_message(w) PROVE OrderOK(Held(x)' \o Rest', parsed', sent')
    <2>1. w = x /\ rd[x].pc = "analyse"
      BY <1>1, <1>11 DEF analysis_message, PoolInv
    <2>2. h = rd[x].got
      BY <1>3, <2>1 DEF Held
    <2>3. Rest' = r /\ sent' = sent
      BY <1>3, <1>11 DEF analysis_message, Rest
    <2>4. Held(x)' = <<>>
      <3>1. rd'[x] = [pc |-> "peek"] \/ rd'[x] = Idle \/ rd'[x] = Dead
        BY <1>11, <2>1 DEF analysis_message, TypeOK
      <3> QED
        BY <3>1 DEF Held, Idle, Dead
    <2>5. Held(x)' \o Rest' = r
      BY <1>4, <2>3, <2>4, NothingFirst
    <2>6. CASE \E i \in Msgs : rd[x].got = Frame(i) /\ parsed' = Append(parsed, i)
      <3>1. PICK i \in Msgs : rd[x].got = Frame(i) /\ parsed' = Append(parsed, i)
        BY <2>6
      <3>2. OrderOK(Frame(i) \o r, parsed, sent)
        BY <1>5, <2>2, <3>1
      <3>3. OrderOK(r, Append(parsed, i), sent)
        BY <1>0, <1>4, <3>2, OrderUse
      <3> QED
        BY <2>3, <2>5, <3>1, <3>3
    <2>7. CASE parsed' = parsed
      <3>1. OrderOK(r, parsed, sent)
        BY <1>0, <1>4, <1>5, OrderDrop
      <3> QED
        BY <2>3, <2>5, <2>7, <3>1
    <2> QED
      BY <1>11, <2>1, <2>6, <2>7, AnalyseFacts
  <1> QED
    BY <1>6, <1>7, <1>8, <1>9, <1>10, <1>11 DEF Next, read_sock_func

-----------------------------------------------------------------------------
(* Every byte in one place                                                 *)

LEMMA BytesConcat ==
    ASSUME NEW S, NEW a \in Seq(S), NEW b \in Seq(S)
    PROVE  Bytes(a \o b) = Bytes(a) \cup Bytes(b)
  <1> DEFINE q == a \o b
  <1>1. /\ q \in Seq(S) /\ Len(q) = Len(a) + Len(b)
        /\ \A k \in 1..Len(a) + Len(b) : q[k] = IF k <= Len(a) THEN a[k] ELSE b[k - Len(a)]
    BY ConcatProperties
  <1> HIDE DEF q
  <1>2. PICK L \in Nat, M \in Nat : L = Len(a) /\ M = Len(b)
    BY LenProperties
  <1>3. Len(q) = L + M /\ \A k \in 1..L + M : q[k] = IF k <= L THEN a[k] ELSE b[k - L]
    BY <1>1, <1>2
  <1>4. ASSUME NEW k \in 1..L + M PROVE q[k] \in Bytes(a) \cup Bytes(b)
    <2>1. CASE k <= L
      <3>1. k \in 1..L
        BY <2>1
      <3> QED
        BY <1>2, <1>3, <2>1, <3>1 DEF Bytes
    <2>2. CASE ~(k <= L)
      <3>1. k - L \in 1..M
        BY <2>2
      <3> QED
        BY <1>2, <1>3, <2>2, <3>1 DEF Bytes
    <2> QED
      BY <2>1, <2>2
  <1>5. ASSUME NEW k \in 1..L PROVE a[k] \in Bytes(q)
    <2>1. k \in 1..L + M /\ k <= L
      OBVIOUS
    <2> QED
      BY <1>3, <2>1 DEF Bytes
  <1>6. ASSUME NEW k \in 1..M PROVE b[k] \in Bytes(q)
    <2>1. L + k \in 1..L + M /\ ~(L + k <= L) /\ (L + k) - L = k
      OBVIOUS
    <2>2. q[L + k] = b[k]
      BY <1>3, <2>1
    <2> QED
      BY <1>3, <2>1, <2>2 DEF Bytes
  <1>7. Bytes(q) \subseteq Bytes(a) \cup Bytes(b)
    <2> SUFFICES ASSUME NEW x \in Bytes(q) PROVE x \in Bytes(a) \cup Bytes(b)
      OBVIOUS
    <2>1. PICK k \in 1..Len(q) : x = q[k]
      BY DEF Bytes
    <2> QED
      BY <1>3, <1>4, <2>1
  <1>8. Bytes(a) \subseteq Bytes(q)
    <2> SUFFICES ASSUME NEW x \in Bytes(a) PROVE x \in Bytes(q)
      OBVIOUS
    <2>1. PICK k \in 1..Len(a) : x = a[k]
      BY DEF Bytes
    <2> QED
      BY <1>2, <1>5, <2>1
  <1>9. Bytes(b) \subseteq Bytes(q)
    <2> SUFFICES ASSUME NEW x \in Bytes(b) PROVE x \in Bytes(q)
      OBVIOUS
    <2>1. PICK k \in 1..Len(b) : x = b[k]
      BY DEF Bytes
    <2> QED
      BY <1>2, <1>6, <2>1
  <1>10. Bytes(q) = Bytes(a) \cup Bytes(b)
    BY <1>7, <1>8, <1>9
  <1> QED
    BY <1>10 DEF q

(* The bytes of a message are all the bytes that belong to it.             *)
LEMMA BytesFrame ==
    ASSUME setting \in Settings, NEW i \in Msgs, NEW b \in Byte
    PROVE  b \in Bytes(Frame(i)) <=> b.msg = i
  <1>1. Len(Frame(i)) = Size(i) /\ \A k \in 1..Size(i) : Frame(i)[k] = [msg |-> i, at |-> k]
    BY FrameFacts
  <1>2. Size(i) \in Nat
    BY Lengths
  <1>3. ASSUME b \in Bytes(Frame(i)) PROVE b.msg = i
    BY <1>1, <1>3 DEF Bytes
  <1>4. ASSUME b.msg = i PROVE b \in Bytes(Frame(i))
    <2>1. b.at \in 1..Size(i) /\ b = [msg |-> i, at |-> b.at]
      BY <1>2, <1>4, ByteFacts
    <2>2. Frame(i)[b.at] = b
      BY <1>1, <2>1
    <2> QED
      BY <1>1, <2>1, <2>2 DEF Bytes
  <1> QED
    BY <1>3, <1>4

(* In order, what is in front is not behind as well.                       *)
LEMMA OrderApart ==
    ASSUME setting \in Settings, NEW a \in Seq(Byte), NEW b \in Seq(Byte), NEW n, OrderOK(a \o b, <<>>, n)
    PROVE  OrderOK(b, <<>>, n) /\ Bytes(a) \cap Bytes(b) = {}
  <1>1. OrderOK(b, <<>>, n) /\ \A p \in 1..Len(a), r \in 1..Len(b) : Before(a[p], b[r])
    BY OrderDrop
  <1>2. ASSUME NEW c \in Bytes(a), c \in Bytes(b) PROVE FALSE
    <2>1. PICK p \in 1..Len(a) : a[p] = c
      BY DEF Bytes
    <2>2. PICK r \in 1..Len(b) : b[r] = c
      BY <1>2 DEF Bytes
    <2>3. Before(c, c)
      BY <1>1, <2>1, <2>2
    <2>4. c.msg \in Nat /\ c.at \in Nat
      BY <2>1, ElementOfSeq, ByteFacts
    <2> QED
      BY <2>3, <2>4 DEF Before
  <1> QED
    BY <1>1, <1>2

LEMMA HeldBytes ==
    ASSUME TypeOK, NEW w \in Workers
    PROVE  Held(w) \in Seq(Byte) /\ Bytes(Held(w)) \subseteq Byte
  <1>1. Held(w) \in Seq(Byte)
    BY JobFacts, EmptySeq DEF Held
  <1> QED
    BY <1>1, ElementOfSeq DEF Bytes

(* Steps that move no byte and settle no message.                          *)
LEMMA UseSame ==
    ASSUME UseInv, Rest' = Rest, \A w \in Workers : Bytes(Held(w)') \subseteq Bytes(Held(w)),
           UNCHANGED <<parsed, refused, sent>>
    PROVE  UseInv'
  <1>1. OrderOK(Rest, <<>>, sent)'
    BY DEF UseInv, OrderOK, Before
  <1>2. \A w \in Workers : Bytes(Held(w))' = Bytes(Held(w)')
    BY DEF Bytes
  <1>3. Bytes(Rest)' = Bytes(Rest)
    BY DEF Bytes
  <1>4. Apart'
    BY <1>2, <1>3 DEF UseInv, Apart
  <1>5. \A b : Unsettled(b)' <=> Unsettled(b)
    BY DEF Unsettled, Settled
  <1>6. Pending'
    BY <1>2, <1>3, <1>5 DEF UseInv, Pending
  <1>7. UsedOnce'
    BY DEF UseInv, UsedOnce
  <1> QED
    BY <1>1, <1>4, <1>6, <1>7 DEF UseInv

(* A message is used or refused: all its bytes are with the worker, so no  *)
(* other worker has one of them, and none is left to read.                 *)
LEMMA UseSettle ==
    ASSUME TypeOK, UseInv, NEW w \in Workers, NEW i \in Msgs, Held(w) = Frame(i), Held(w)' = <<>>,
           \A v \in Workers : v # w => Held(v)' = Held(v),
           Rest' = Rest, Rest \in Seq(Byte), sent' = sent,
           \/ parsed' = Append(parsed, i) /\ refused' = refused
           \/ parsed' = parsed /\ refused' = refused \cup {i}
    PROVE  UseInv'
  <1>0. setting \in Settings /\ sent \in Nat /\ i \in Nat /\ parsed \in Seq(Msgs)
    BY Lengths DEF TypeOK, Msgs
  <1>1. OrderOK(Rest, <<>>, sent)'
    BY DEF UseInv, OrderOK, Before
  <1>2. Bytes(<<>>) = {} /\ \A v \in Workers : Bytes(Held(v))' = Bytes(Held(v)')
    BY EmptySeq DEF Bytes
  <1>3. Bytes(Rest)' = Bytes(Rest) /\ Bytes(Rest) \subseteq Byte
    BY ElementOfSeq DEF Bytes
  <1>4. /\ Bytes(Held(w))' = {}
        /\ \A v \in Workers : v # w => Bytes(Held(v))' = Bytes(Held(v)) /\ Bytes(Held(v)) \subseteq Byte
    BY <1>2, HeldBytes
  <1>5. Apart'
    BY <1>3, <1>4 DEF UseInv, Apart
  <1>6. \A b \in Bytes(Rest) : b.msg # i
    <2>1. \A b \in Bytes(Rest) : b \notin Bytes(Frame(i))
      BY DEF UseInv, Apart
    <2> QED
      BY <1>0, <1>3, <2>1, BytesFrame
  <1>7. \A v \in Workers : v # w => \A b \in Bytes(Held(v)) : b.msg # i
    <2>1. \A v \in Workers : v # w => \A b \in Bytes(Held(v)) : b \notin Bytes(Frame(i))
      BY DEF UseInv, Apart
    <2> QED
      BY <1>0, <1>4, <2>1, BytesFrame
  <1>8. \E b \in Bytes(Held(w)) : b.msg = i
    <2>1. Frame(i) \in Seq(Byte) /\ Len(Frame(i)) = Size(i) /\ Size(i) >= 4 /\ Size(i) \in Nat
      BY <1>0, FrameFacts, Lengths
    <2>2. 1 \in 1..Len(Frame(i))
      BY <2>1
    <2>3. Frame(i)[1] \in Bytes(Frame(i)) /\ Frame(i)[1] \in Byte
      BY <2>1, <2>2, ElementOfSeq DEF Bytes
    <2> QED
      BY <1>0, <2>3, BytesFrame
  <1>9. i <= sent /\ ~Settled(i)
    BY <1>8 DEF UseInv, Pending, Unsettled
  <1>10. PICK K \in Nat : K = Len(parsed)
    BY <1>0, LenProperties
  <1>11. \/ parsed' = parsed
         \/ Len(parsed') = K + 1 /\ parsed'[K + 1] = i /\ \A k \in 1..K : parsed'[k] = parsed[k]
    BY <1>0, <1>10, AppendProperties
  <1>12. \A k \in 1..K + 1 : k = K + 1 \/ k \in 1..K
    OBVIOUS
  <1>13. ASSUME NEW m PROVE Settled(m)' => Settled(m) \/ m = i
    BY <1>10, <1>11, <1>12 DEF Settled
  <1>14. \A b : Unsettled(b) /\ b.msg # i => Unsettled(b)'
    BY <1>13 DEF Unsettled
  <1>15. Pending'
    <2>1. \A m \in refused' : m <= sent
      BY <1>9 DEF UseInv, Pending
    <2>2. \A b \in Bytes(Rest) : Unsettled(b)'
      BY <1>6, <1>14 DEF UseInv, Pending
    <2>3. \A v \in Workers : \A b \in Bytes(Held(v))' : Unsettled(b)'
      BY <1>4, <1>7, <1>14 DEF UseInv, Pending
    <2> QED
      BY <1>3, <2>1, <2>2, <2>3 DEF Pending
  <1>16. UsedOnce'
    <2>1. /\ \A j, k \in 1..K : parsed[j] = parsed[k] => j = k
          /\ \A k \in 1..K : parsed[k] <= sent /\ parsed[k] \notin refused
          /\ \A k \in 1..K : parsed[k] # i
          /\ i \notin refused
      BY <1>9, <1>10 DEF UseInv, UsedOnce, Settled
    <2>2. CASE parsed' = parsed
      BY <1>10, <2>1, <2>2 DEF UsedOnce
    <2>3. CASE parsed' # parsed
      <3>1. /\ Len(parsed') = K + 1 /\ parsed'[K + 1] = i /\ \A k \in 1..K : parsed'[k] = parsed[k]
            /\ refused' = refused
        BY <1>11, <2>3
      <3>2. \A k \in 1..K + 1 : parsed'[k] <= sent /\ parsed'[k] \notin refused
        BY <1>9, <1>12, <2>1, <3>1
      <3>3. \A j, k \in 1..K + 1 : parsed'[j] = parsed'[k] => j = k
        BY <1>12, <2>1, <3>1
      <3> QED
        BY <3>1, <3>2, <3>3 DEF UsedOnce
    <2> QED
      BY <2>2, <2>3
  <1> QED
    BY <1>1, <1>5, <1>15, <1>16 DEF UseInv

(* Bytes go from the buffer to a worker.                                   *)
LEMMA UseMove ==
    ASSUME TypeOK, UseInv, NEW w \in Workers, NEW c \in Seq(Byte), Rest' \in Seq(Byte), Rest = c \o Rest',
           Bytes(Held(w)') = Bytes(Held(w)) \cup Bytes(c),
           \A v \in Workers : v # w => Held(v)' = Held(v),
           UNCHANGED <<parsed, refused, sent>>
    PROVE  UseInv'
  <1> DEFINE r == Rest'
  <1>0. setting \in Settings /\ r \in Seq(Byte) /\ Rest = c \o r
    BY DEF TypeOK
  <1>1. Bytes(Rest)' = Bytes(r) /\ \A v \in Workers : Bytes(Held(v))' = Bytes(Held(v)')
    BY DEF Bytes
  <1>2. OrderOK(Rest, <<>>, sent)' <=> OrderOK(r, <<>>, sent)
    BY DEF OrderOK, Before
  <1> HIDE DEF r
  <1>3. OrderOK(r, <<>>, sent) /\ Bytes(c) \cap Bytes(r) = {} /\ Bytes(Rest) = Bytes(c) \cup Bytes(r)
    <2>1. OrderOK(c \o r, <<>>, sent)
      BY <1>0 DEF UseInv
    <2> QED
      BY <1>0, <2>1, OrderApart, BytesConcat
  <1>4. /\ Bytes(Held(w))' = Bytes(Held(w)) \cup Bytes(c)
        /\ \A v \in Workers : v # w => Bytes(Held(v))' = Bytes(Held(v))
    BY <1>1 DEF Bytes
  <1>5. Apart'
    BY <1>1, <1>3, <1>4 DEF UseInv, Apart
  <1>6. \A b : Unsettled(b)' <=> Unsettled(b)
    BY DEF Unsettled, Settled
  <1>7. Pending'
    <2>1. \A b \in Bytes(r) : Unsettled(b)'
      BY <1>3, <1>6 DEF UseInv, Pending
    <2>2. \A b \in Bytes(c) : Unsettled(b)'
      BY <1>3, <1>6 DEF UseInv, Pending
    <2>3. \A v \in Workers : \A b \in Bytes(Held(v)) : Unsettled(b)'
      BY <1>6 DEF UseInv, Pending
    <2>4. \A v \in Workers : \A b \in Bytes(Held(v))' : Unsettled(b)'
      BY <1>4, <2>2, <2>3
    <2>5. \A m \in refused' : m <= sent'
      BY DEF UseInv, Pending
    <2> QED
      BY <1>1, <2>1, <2>4, <2>5 DEF Pending
  <1>8. UsedOnce'
    BY DEF UseInv, UsedOnce
  <1> QED
    BY <1>2, <1>3, <1>5, <1>7, <1>8 DEF UseInv

LEMMA UseStep == TypeOK /\ UseInv /\ [Next]_vars => UseInv'
  <1> SUFFICES ASSUME TypeOK, UseInv, [Next]_vars PROVE UseInv'
    OBVIOUS
  <1>0. /\ setting' = setting /\ setting \in Settings /\ buf \in Seq(Byte) /\ unsent \in Seq(Byte)
        /\ sent \in Nat /\ Len(unsent) \in Nat /\ Len(buf) \in Nat /\ parsed \in Seq(Msgs)
        /\ Rest \in Seq(Byte) /\ rd \in [Workers -> Job]
    BY SettingStep, Lengths, LenProperties, ConcatFront DEF TypeOK, Rest
  <1>1. CASE Send
    <2>1. sent + 1 \in Msgs
      BY <1>0, <1>1, Lengths DEF Send, Msgs
    <2>2. PICK f \in Seq(Byte), i \in Msgs : f = Frame(i) /\ i = sent + 1
      BY <1>0, <2>1, FrameFacts
    <2>3. Rest' = Rest \o f
      <3>1. (buf \o unsent) \o f = buf \o (unsent \o f)
        BY <1>0, <2>2, Assoc
      <3> QED
        BY <1>1, <2>2, <3>1 DEF Send, Rest
    <2>4. \A w \in Workers : Bytes(Held(w))' = Bytes(Held(w))
      BY <1>1 DEF Send, Held, Bytes
    <2>5. UNCHANGED <<parsed, refused>> /\ sent' = i
      BY <1>1, <2>2 DEF Send
    <2>6. OrderOK(Rest, <<>>, sent)'
      <3>1. <<>> \in Seq(Msgs)
        BY EmptySeq
      <3>2. OrderOK(Rest \o f, <<>>, i)
        BY <1>0, <2>1, <2>2, <3>1, OrderSend DEF UseInv
      <3> QED
        BY <2>3, <2>5, <3>2 DEF OrderOK, Before
    <2>7. Bytes(Rest)' = Bytes(Rest) \cup Bytes(f) /\ Bytes(f) \subseteq Byte /\ Bytes(Rest) \subseteq Byte
      <3>1. Bytes(Rest \o f) = Bytes(Rest) \cup Bytes(f)
        BY <1>0, BytesConcat
      <3> QED
        BY <1>0, <2>3, <3>1, ElementOfSeq DEF Bytes
    <2>8. \A b \in Bytes(f) : b.msg = i
      BY <1>0, <2>2, <2>7, BytesFrame
    <2>9. \A w \in Workers : \A b \in Bytes(Held(w)) : b \in Byte /\ b.msg \in Nat /\ b.msg <= sent
      BY <1>0, HeldBytes, ByteFacts DEF UseInv, Pending, Unsettled
    <2>10. Apart'
      <3>1. \A w \in Workers : Bytes(Held(w)) \cap Bytes(f) = {}
        BY <1>0, <2>2, <2>8, <2>9
      <3> QED
        BY <2>4, <2>7, <3>1 DEF UseInv, Apart
    <2>11. \A m \in Nat : m <= sent => m <= i
      BY <1>0, <2>2
    <2>12. \A b \in Byte : Unsettled(b) => Unsettled(b)'
      BY <1>0, <2>5, <2>11, ByteFacts DEF Unsettled, Settled
    <2>13. (\A m \in refused : m \in Nat /\ m <= sent) /\ \A k \in 1..Len(parsed) : parsed[k] \in Nat /\ parsed[k] <= sent
      BY <1>0, ElementOfSeq DEF UseInv, Pending, UsedOnce, TypeOK, Msgs
    <2>14. \A b \in Bytes(f) : Unsettled(b)'
      <3>1. ~Settled(i)
        BY <1>0, <2>2, <2>13 DEF Settled
      <3>2. i <= i
        BY <1>0, <2>2
      <3> QED
        BY <2>5, <2>8, <3>1, <3>2 DEF Unsettled, Settled
    <2>15. Pending'
      <3>1. \A b \in Bytes(Rest)' : Unsettled(b)'
        BY <2>7, <2>12, <2>14 DEF UseInv, Pending
      <3>2. \A w \in Workers : \A b \in Bytes(Held(w))' : Unsettled(b)'
        BY <2>4, <2>9, <2>12 DEF UseInv, Pending
      <3>3. \A m \in refused' : m <= sent'
        BY <2>5, <2>11, <2>13
      <3> QED
        BY <3>1, <3>2, <3>3 DEF Pending
    <2>16. UsedOnce'
      BY <2>5, <2>11, <2>13 DEF UseInv, UsedOnce
    <2> QED
      BY <2>6, <2>10, <2>15, <2>16 DEF UseInv
  <1>2. ASSUME NEW k \in 1..Len(unsent), Segment(k) PROVE UseInv'
    <2>1. k \in 0..Len(unsent)
      BY <1>0
    <2>2. (buf \o SubSeq(unsent, 1, k)) \o SubSeq(unsent, k + 1, Len(unsent)) = buf \o unsent
      BY <1>0, <2>1, Move
    <2>3. Rest' = Rest
      BY <1>2, <2>2 DEF Segment, Rest
    <2>4. (\A w \in Workers : Held(w)' = Held(w)) /\ UNCHANGED <<parsed, refused, sent>>
      BY <1>2 DEF Segment, Held
    <2> QED
      BY <2>3, <2>4, UseSame
  <1>3. CASE Close \/ handle_read \/ UNCHANGED vars
    <2>1. (\A w \in Workers : Held(w)' = Held(w)) /\ Rest' = Rest /\ UNCHANGED <<parsed, refused, sent>>
      BY <1>3 DEF Close, handle_read, vars, Held, Rest
    <2> QED
      BY <2>1, UseSame
  <1>4. ASSUME NEW w \in Workers, Start(w) \/ recv_peek(w) PROVE UseInv'
    <2>1. Rest' = Rest /\ UNCHANGED <<parsed, refused, sent>>
      BY <1>4 DEF Start, recv_peek, Rest
    <2>2. Held(w)' = <<>> /\ \A v \in Workers : v # w => rd'[v] = rd[v]
      <3>1. CASE Start(w)
        BY <1>0, <3>1 DEF Start, Held
      <3>2. CASE recv_peek(w)
        <4>1. (rd'[w] = Idle \/ rd'[w].got = <<>>) /\ \A v \in Workers : v # w => rd'[v] = rd[v]
          BY <1>0, <3>2, PeekFacts
        <4> QED
          BY <4>1 DEF Held, Idle
      <3> QED
        BY <1>4, <3>1, <3>2
    <2>3. Bytes(<<>>) = {} /\ \A v \in Workers : v # w => Held(v)' = Held(v)
      BY <2>2, EmptySeq DEF Bytes, Held
    <2>4. \A v \in Workers : Bytes(Held(v)') \subseteq Bytes(Held(v))
      BY <2>2, <2>3
    <2> QED
      BY <2>1, <2>4, UseSame
  <1>5. ASSUME NEW w \in Workers, readn(w) PROVE UseInv'
    <2>1. PICK k \in 0..Len(buf), left \in 1..Base * Base + 1, got \in Seq(Byte) : ReadOf(w, k, left, got)
      BY <1>5, ReadnFacts
    <2>2. PICK c, d : c = SubSeq(buf, 1, k) /\ d = SubSeq(buf, k + 1, Len(buf))
      OBVIOUS
    <2>3. c \in Seq(Byte) /\ d \in Seq(Byte) /\ c \o d = buf
      BY <1>0, <2>2, Cut
    <2>4. /\ rd[w].pc = "readn" /\ rd[w].got = got /\ buf' = d
          /\ rd' = [rd EXCEPT ![w] = [pc |-> IF k = 0 \/ k = left THEN "analyse" ELSE "readn",
                                      left |-> left - k, got |-> got \o c]]
      BY <2>1, <2>2 DEF ReadOf
    <2>5. Held(w) = got /\ Held(w)' = got \o c /\ \A v \in Workers : v # w => Held(v)' = Held(v)
      BY <1>0, <2>4 DEF Held
    <2>6. Bytes(Held(w)') = Bytes(Held(w)) \cup Bytes(c)
      BY <2>3, <2>5, BytesConcat
    <2>7. UNCHANGED <<parsed, refused, sent>> /\ Rest' = d \o unsent
      BY <1>5, <2>4 DEF readn, Rest
    <2>8. Rest = c \o Rest' /\ Rest' \in Seq(Byte)
      <3>0. c \in Seq(Byte) /\ d \in Seq(Byte) /\ unsent \in Seq(Byte)
        BY <1>0, <2>3
      <3>1. (c \o d) \o unsent = c \o (d \o unsent)
        BY <3>0, Assoc
      <3>2. d \o unsent \in Seq(Byte)
        BY <1>0, <2>3, ConcatFront
      <3> QED
        BY <2>3, <2>7, <3>1, <3>2 DEF Rest
    <2> QED
      BY <2>3, <2>5, <2>6, <2>7, <2>8, UseMove
  <1>6. ASSUME NEW w \in Workers, analysis_message(w) PROVE UseInv'
    <2>1. rd[w].pc = "analyse" /\ Rest' = Rest /\ sent' = sent /\ Held(w) = rd[w].got
      BY <1>6, AnalyseFacts DEF Rest, Held
    <2>2. Bytes(<<>>) = {}
      BY EmptySeq DEF Bytes
    <2>3. ASSUME rd' = [rd EXCEPT ![w] = [pc |-> "peek"]] \/ rd' = [rd EXCEPT ![w] = Idle]
          PROVE  Held(w)' = <<>> /\ \A v \in Workers : v # w => Held(v)' = Held(v)
      BY <1>0, <2>3 DEF Held, Idle
    <2>4. CASE \E i \in Msgs : /\ rd[w].got = Frame(i) /\ parsed' = Append(parsed, i) /\ refused' = refused
                               /\ rd' = [rd EXCEPT ![w] = [pc |-> "peek"]]
      BY <1>0, <2>1, <2>3, <2>4, UseSettle
    <2>5. CASE \E i \in Msgs : /\ rd[w].got = Frame(i) /\ parsed' = parsed /\ refused' = refused \cup {i}
                               /\ rd' = [rd EXCEPT ![w] = Idle]
      BY <1>0, <2>1, <2>3, <2>5, UseSettle
    <2>6. CASE /\ parsed' = parsed /\ refused' = refused
               /\ rd' = [rd EXCEPT ![w] = Idle] \/ rd' = [v \in Workers |-> Dead]
      <3>1. \A v \in Workers : Held(v)' = Held(v) \/ Held(v)' = <<>>
        BY <1>0, <2>6 DEF Held, Idle, Dead
      <3>2. \A v \in Workers : Bytes(Held(v)') \subseteq Bytes(Held(v))
        BY <2>2, <3>1
      <3> QED
        BY <2>1, <2>6, <3>2, UseSame
    <2> QED
      BY <1>6, <2>4, <2>5, <2>6, AnalyseFacts
  <1> QED
    BY <1>1, <1>2, <1>3, <1>4, <1>5, <1>6 DEF Next, read_sock_func

-----------------------------------------------------------------------------
(* The theorems                                                            *)

LEMMA FrameInit == Init => FrameInv
  <1> SUFFICES ASSUME Init PROVE FrameInv
    OBVIOUS
  <1>1. TypeOK
    BY TypeInit
  <1>2. /\ rd = [w \in Workers |-> Idle] /\ buf = <<>> /\ unsent = <<>> /\ parsed = <<>>
        /\ sent = 0 /\ torn = FALSE /\ setting.workers \subseteq Workers
    BY Lengths DEF Init
  <1>3. \A w \in Workers : rd[w] = Idle
    BY <1>2
  <1>4. PoolInv
    BY <1>3 DEF PoolInv, Idle
  <1>5. buf \o unsent = <<>>
    BY <1>2, EmptySeq, NothingFirst
  <1>6. Len(<<>>) = 0 /\ 1..0 = {}
    BY EmptySeq
  <1>10. OrderInv
    <2>1. ASSUME NEW w \in setting.workers PROVE OrderOK(Held(w) \o Rest, parsed, sent)
      <3>1. Held(w) = <<>>
        BY <1>2, <1>3, <2>1 DEF Held, Idle
      <3>2. Held(w) \o Rest = <<>>
        BY <1>5, <3>1, EmptySeq, NothingFirst DEF Rest
      <3> QED
        BY <1>2, <1>6, <3>2 DEF OrderOK
    <2> QED
      BY <2>1 DEF OrderInv
  <1>11. UseInv
    <2>1. Rest = <<>> /\ \A w \in Workers : Held(w) = <<>>
      BY <1>3, <1>5 DEF Rest, Held, Idle
    <2>2. Bytes(<<>>) = {}
      BY <1>6 DEF Bytes
    <2>3. OrderOK(Rest, <<>>, sent)
      BY <1>6, <2>1 DEF OrderOK
    <2>4. Apart /\ Pending
      BY <2>1, <2>2 DEF Apart, Pending, Init
    <2>5. UsedOnce
      BY <1>2, <1>6 DEF UsedOnce
    <2> QED
      BY <2>3, <2>4, <2>5 DEF UseInv
  <1> QED
    BY <1>1, <1>4, <1>10, <1>11 DEF FrameInv

(* In every setting, what each worker has read, what is left to read and   *)
(* the messages used fit together as FrameInv says.                        *)
THEOREM FrameInvariant == Spec => []FrameInv
  <1>1. FrameInv /\ [Next]_vars => FrameInv'
    BY TypeStep, PoolStep, OrderStep, UseStep DEF FrameInv
  <1> QED
    BY <1>1, FrameInit, PTL DEF Spec

(* One worker: read_sock_func hands the messages of a client to            *)
(* analysis_message in the order they were sent, also when a job went on   *)
(* with a part and lost some.                                              *)
THEOREM FrameInOrder == Spec => []InOrder
  <1>1. FrameInv => InOrder
    <2> SUFFICES ASSUME FrameInv, Cardinality(setting.workers) = 1
                 PROVE  \A j, k \in 1..Len(parsed) : j < k => parsed[j] < parsed[k]
      BY DEF InOrder
    <2>1. setting.workers \subseteq Workers
      BY Lengths DEF FrameInv, TypeOK
    <2>2. PICK x : setting.workers = {x}
      BY <2>1, FrameAssumption, FS_Subset, FS_Singleton
    <2>3. Single
      BY <2>1, <2>2 DEF Single
    <2>4. OrderOK(Held(x) \o Rest, parsed, sent)
      BY <2>2, <2>3 DEF FrameInv, OrderInv
    <2> QED
      BY <2>4 DEF OrderOK
  <1> QED
    BY <1>1, FrameInvariant, PTL

(* Any workers and any segments: no message is used twice, used after it   *)
(* was refused or used before it was sent, although one job may peek at a  *)
(* header whose message another job then takes.                            *)
THEOREM FrameUsedOnce == Spec => []UsedOnce
  <1>1. FrameInv => UsedOnce
    BY DEF FrameInv, UseInv
  <1> QED
    BY <1>1, FrameInvariant, PTL
=============================================================================
