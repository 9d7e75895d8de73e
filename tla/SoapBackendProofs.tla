-------------------------- MODULE SoapBackendProofs --------------------------
(***************************************************************************)
(* The safety of the exchange with the SOAP server for any number of       *)
(* commands and every way the world may behave: late, split, refused or    *)
(* dropped answers, and clients that leave.  First what is counted (how    *)
(* often a command runs, descriptors, room), then what the clients are     *)
(* told: SoapBackend implements Exchange.                                  *)
(***************************************************************************)
EXTENDS SoapBackend, SequenceTheorems, TLAPS

(* The commands whose request may have been written: those before the one  *)
(* in hand, and that one once the thread is past its write.                *)
Sent == IF pc \in {"make", "check", "write"} THEN cur - 1 ELSE cur

(* The types, without the bounds.                                          *)
SoapTypes ==
    /\ mode \in Modes
    /\ pc \in {"idle", "make", "check", "write", "select", "more", "reply"}
    /\ cur \in Nat /\ cur <= N
    /\ pc # "idle" => cur > 0
    /\ sock # None => sock \in Connection
    /\ pc \in {"check", "write", "select", "more"} => sock # None
    /\ say \in {None, ErrorMessage} \/ say \subseteq AnswerPart
    /\ pc \in {"more", "reply"} <=> say # None
    /\ pc = "more" => say \subseteq AnswerPart
    /\ client \in [Commands -> {"open", "closed"}]
    /\ executed \in [Commands -> Nat]

(* Descriptors, and how often the server may still refuse and drop.        *)
CountInv ==
    /\ fds \in Nat
    /\ refused \in Nat /\ refused <= mode.maxRefused
    /\ dropped \in Nat /\ dropped <= mode.maxDropped
    /\ SocketsAccounted

(* A request becomes two parts at most, and a server that is still open    *)
(* has its FIN or a reset to send.                                         *)
Count(up, air, down, srv) == 2 * Len(up) + Len(air) + Len(down) + (IF srv = "open" THEN 1 ELSE 0)
Load(c) == Count(c.up, c.air, c.down, c.srv)

RoomInv == sock # None => Load(sock) <= 2 * Sent + 1

(* A request on its way was not executed and is there once.                *)
Waits(c, j) ==
    /\ c.up[j].cmd <= Sent
    /\ executed[c.up[j].cmd] = 0
    /\ \A k \in 1..Len(c.up) : c.up[k] = c.up[j] => k = j

OnceInv ==
    /\ \A i \in Commands : executed[i] <= 1 /\ (i > Sent => executed[i] = 0)
    /\ sock # None => \A j \in 1..Len(sock.up) : sock.up[j].kind = "request" => Waits(sock, j)

SoapInv == SoapTypes /\ CountInv /\ RoomInv /\ OnceInv

-----------------------------------------------------------------------------
(* Connections                                                             *)

(* What is under way is an answer, its end or a reset.                     *)
LEMMA WireTypes ==
    /\ FIN \notin AnswerPart /\ RST \notin AnswerPart /\ FIN # RST
    /\ \A i \in Commands : Request(i) \in Wired /\ Reply(i) \in Wired
    /\ \A x \in Wired, p \in {"all", "head", "tail"} : Part(x, p) \in AnswerPart
  BY DEF FIN, RST, AnswerPart, Part, Wired, Request, Reply

(* Short sequences.                                                        *)
LEMMA ShortSeq ==
    ASSUME NEW S, NEW a \in S, NEW b \in S
    PROVE  <<a, b>> \in Seq(S) /\ Len(<<a, b>>) = 2 /\ <<a>> \in Seq(S) /\ Len(<<a>>) = 1
  OBVIOUS

(* Three sequences put together.                                           *)
LEMMA ConcatThree ==
    ASSUME NEW S, NEW a \in Seq(S), NEW b \in Seq(S), NEW c \in Seq(S)
    PROVE  a \o b \o c \in Seq(S) /\ Len(a \o b \o c) = Len(a) + Len(b) + Len(c)
  <1>1. a \o b \in Seq(S) /\ Len(a \o b) = Len(a) + Len(b)
    BY ConcatProperties
  <1> QED
    BY <1>1, ConcatProperties

(* The count is a number,                                                  *)
LEMMA CountNat ==
    \A up \in Seq(Wired), air \in Seq(AnswerPart \cup {FIN, RST}), down \in Seq(AnswerPart), srv \in {"open", "closed"} :
        Count(up, air, down, srv) \in Nat
  BY DEF Count

(* and grows by two or one with what is written.                           *)
LEMMA CountWritten ==
    \A up \in Seq(Wired), air \in Seq(AnswerPart \cup {FIN, RST}), down \in Seq(AnswerPart), srv \in {"open", "closed"} :
        /\ \A x \in Wired : Count(Append(up, x), air, down, srv) = Count(up, air, down, srv) + 2
        /\ Count(up, Append(air, RST), down, srv) = Count(up, air, down, srv) + 1
  BY DEF Count

(* The fields of a connection.                                             *)
LEMMA Fields ==
    ASSUME NEW c \in Connection
    PROVE  /\ c.up \in Seq(Wired)
           /\ c.air \in Seq(AnswerPart \cup {FIN, RST})
           /\ c.down \in Seq(AnswerPart)
           /\ c.srv \in {"open", "closed"}
           /\ c.fin \in BOOLEAN /\ c.rst \in BOOLEAN
           /\ Load(c) \in Nat
  <1>1. /\ c.up \in Seq(Wired)
        /\ c.air \in Seq(AnswerPart \cup {FIN, RST})
        /\ c.down \in Seq(AnswerPart)
        /\ c.srv \in {"open", "closed"}
        /\ c.fin \in BOOLEAN /\ c.rst \in BOOLEAN
    BY DEF Connection
  <1> QED
    BY <1>1, CountNat DEF Load

(* A new connection is empty.                                              *)
LEMMA FreshType == Fresh \in Connection /\ Fresh # None /\ Fresh.up = <<>> /\ Load(Fresh) = 1
  <1>1. Fresh \in Connection
    BY DEF Fresh, Connection
  <1>2. /\ Fresh.up = <<>> /\ Fresh.srv = "open"
        /\ Len(Fresh.up) = 0 /\ Len(Fresh.air) = 0 /\ Len(Fresh.down) = 0
    BY DEF Fresh
  <1>3. Load(Fresh) = 1
    <2>1. Load(Fresh) = Count(<<>>, <<>>, <<>>, "open")
      BY DEF Load, Fresh
    <2> QED
      BY <2>1 DEF Count
  <1>4. Fresh # None
    BY <1>1, NoneAssumption
  <1> QED
    BY <1>1, <1>2, <1>3, <1>4

(* What is written waits behind what was written before, or is lost.       *)
LEMMA WrittenType ==
    ASSUME NEW c \in Connection, NEW item \in Wired
    PROVE  /\ Written(c, item) \in Connection
           /\ Load(Written(c, item)) <= Load(c) + 2
           /\ Written(c, item).up \in {c.up, Append(c.up, item)}
  <1> DEFINE up == c.up
             air == c.air
             d == Written(c, item)
  <1>1. /\ up \in Seq(Wired) /\ air \in Seq(AnswerPart \cup {FIN, RST}) /\ c.down \in Seq(AnswerPart)
        /\ c.srv \in {"open", "closed"} /\ Load(c) \in Nat
    BY Fields
  <1>2. Append(up, item) \in Seq(Wired) /\ Append(air, RST) \in Seq(AnswerPart \cup {FIN, RST})
    BY <1>1
  <1>3. CASE c.srv = "open"
    <2>1. d = [c EXCEPT !.up = Append(up, item)]
      BY <1>3 DEF Written
    <2>2. /\ d \in Connection /\ d.up = Append(up, item) /\ d.air = air /\ d.down = c.down /\ d.srv = c.srv
      BY <1>2, <2>1 DEF Connection
    <2> HIDE DEF d
    <2>3. Load(d) = Load(c) + 2
      <3>1. Count(Append(up, item), air, c.down, c.srv) = Count(up, air, c.down, c.srv) + 2
        BY <1>1, CountWritten
      <3> QED
        BY <2>2, <3>1 DEF Load
    <2> QED
      BY <1>1, <2>2, <2>3 DEF d
  <1>4. CASE c.srv # "open"
    <2>1. d = [c EXCEPT !.air = Append(air, RST)]
      BY <1>4 DEF Written
    <2>2. /\ d \in Connection /\ d.up = up /\ d.air = Append(air, RST) /\ d.down = c.down /\ d.srv = c.srv
      BY <1>2, <2>1 DEF Connection
    <2> HIDE DEF d
    <2>3. Load(d) = Load(c) + 1
      BY <1>1, <2>2, CountWritten DEF Load
    <2> QED
      BY <1>1, <2>2, <2>3 DEF d
  <1> QED
    BY <1>3, <1>4

(* The server makes no more of a request than two parts and its FIN.       *)
LEMMA ServeType ==
    ASSUME sock \in Connection, NEW split \in BOOLEAN, NEW close \in BOOLEAN, Serve(split, close)
    PROVE  /\ sock' \in Connection
           /\ Load(sock') <= Load(sock)
           /\ sock'.up \in {<<>>, Tail(sock.up)}
           /\ sock.up \in Seq(Wired) /\ sock.up # <<>> /\ Head(sock.up) \in Wired
  <1> DEFINE up == sock.up
             air == sock.air
             x == Head(sock.up)
             said == IF split THEN <<Part(x, "head"), Part(x, "tail")>> ELSE <<Part(x, "all")>>
             end == IF close THEN <<FIN>> ELSE <<>>
             all == AnswerPart \cup {FIN, RST}
  <1>1. /\ up \in Seq(Wired) /\ air \in Seq(all) /\ sock.down \in Seq(AnswerPart) /\ sock.srv = "open"
        /\ Load(sock) \in Nat
    BY Fields DEF Serve
  <1>2. up # <<>> /\ x \in Wired /\ Tail(up) \in Seq(Wired)
    BY <1>1 DEF Serve
  <1>3. said \in Seq(all) /\ Len(said) <= 2
    <2>1. /\ Part(x, "head") \in AnswerPart /\ Part(x, "tail") \in AnswerPart /\ Part(x, "all") \in AnswerPart
      BY <1>2, WireTypes
    <2> DEFINE h == Part(x, "head")
               t == Part(x, "tail")
               w == Part(x, "all")
    <2>2. h \in all /\ t \in all /\ w \in all /\ said = IF split THEN <<h, t>> ELSE <<w>>
      BY <2>1
    <2> HIDE DEF h, t, w, all, said
    <2> QED
      BY <2>2, ShortSeq
  <1>4. end \in Seq(all) /\ Len(end) = IF close THEN 1 ELSE 0
    OBVIOUS
  <1>5. sock' = [sock EXCEPT !.up = IF close THEN <<>> ELSE Tail(up), !.air = air \o said \o end,
                             !.srv = IF close THEN "closed" ELSE "open"]
    BY <1>1 DEF Serve
  <1> HIDE DEF said, end
  <1>6. air \o said \o end \in Seq(all) /\ Len(air \o said \o end) = Len(air) + Len(said) + Len(end)
    <2>1. air \in Seq(all) /\ said \in Seq(all) /\ end \in Seq(all)
      BY <1>1, <1>3, <1>4
    <2> HIDE DEF air, all
    <2> QED
      BY <2>1, ConcatThree
  <1>7. /\ sock' \in Connection
        /\ sock'.up = IF close THEN <<>> ELSE Tail(up)
        /\ sock'.air = air \o said \o end /\ sock'.down = sock.down
        /\ sock'.srv = IF close THEN "closed" ELSE "open"
    <2> DEFINE u == IF close THEN <<>> ELSE Tail(up)
               a == air \o said \o end
               v == IF close THEN "closed" ELSE "open"
    <2>1. u \in Seq(Wired) /\ v \in {"open", "closed"}
      BY <1>2
    <2>2. sock' = [sock EXCEPT !.up = u, !.air = a, !.srv = v] /\ a \in Seq(all)
      BY <1>5, <1>6
    <2> HIDE DEF u, a, v
    <2>3. sock' \in Connection /\ sock'.up = u /\ sock'.air = a /\ sock'.down = sock.down /\ sock'.srv = v
      BY <2>1, <2>2 DEF Connection
    <2> QED
      BY <2>3 DEF u, a, v
  <1>8. \A u \in Seq(Wired), a, b \in Seq(all), d \in Seq(AnswerPart) :
           /\ u # <<>> /\ ~close /\ Len(b) <= Len(a) + 2 => Count(Tail(u), b, d, "open") <= Count(u, a, d, "open")
           /\ u # <<>> /\ Len(b) <= Len(a) + 3 => Count(<<>>, b, d, "closed") <= Count(u, a, d, "open")
    <2> HIDE DEF x, up, air, all
    <2> QED
      BY DEF Count
  <1>9. Load(sock') <= Load(sock)
    <2>1. CASE close
      <3>1. Len(air \o said \o end) <= Len(air) + 3
        BY <1>1, <1>3, <1>4, <1>6, <2>1
      <3> QED
        BY <1>1, <1>2, <1>6, <1>7, <1>8, <2>1, <3>1 DEF Load
    <2>2. CASE ~close
      <3>1. Len(air \o said \o end) <= Len(air) + 2
        BY <1>1, <1>3, <1>4, <1>6, <2>2
      <3> QED
        BY <1>1, <1>2, <1>6, <1>7, <1>8, <2>2, <3>1 DEF Load
    <2> QED
      BY <2>1, <2>2
  <1> QED
    BY <1>1, <1>2, <1>7, <1>9

(* The end of a dropped connection takes the place the FIN would have.     *)
LEMMA DropType ==
    ASSUME sock \in Connection, Drop
    PROVE  sock' \in Connection /\ Load(sock') <= Load(sock) /\ sock'.up = <<>>
  <1> DEFINE all == AnswerPart \cup {FIN, RST}
             end == IF sock.up = <<>> THEN FIN ELSE RST
  <1>1. /\ sock.up \in Seq(Wired) /\ sock.air \in Seq(all) /\ sock.down \in Seq(AnswerPart) /\ sock.srv = "open"
    BY Fields DEF Drop
  <1>2. end \in all
    OBVIOUS
  <1>3. sock' = [sock EXCEPT !.srv = "closed", !.up = <<>>, !.air = Append(sock.air, end)]
    BY DEF Drop
  <1> HIDE DEF end
  <1>4. Append(sock.air, end) \in Seq(all)
    BY <1>1, <1>2
  <1>5. /\ sock' \in Connection /\ sock'.up = <<>> /\ sock'.air = Append(sock.air, end)
        /\ sock'.down = sock.down /\ sock'.srv = "closed"
    <2> DEFINE a == Append(sock.air, end)
               u == <<>>
    <2>1. u \in Seq(Wired) /\ a \in Seq(all) /\ sock' = [sock EXCEPT !.srv = "closed", !.up = u, !.air = a]
      BY <1>3, <1>4
    <2> HIDE DEF a, u
    <2>2. /\ sock' \in Connection /\ sock'.up = u /\ sock'.air = a
          /\ sock'.down = sock.down /\ sock'.srv = "closed"
      BY <2>1 DEF Connection
    <2> QED
      BY <2>2 DEF a, u
  <1>6. \A u \in Seq(Wired), a \in Seq(all), d \in Seq(AnswerPart), e \in all :
           Count(<<>>, Append(a, e), d, "closed") <= Count(u, a, d, "open")
    BY DEF Count
  <1> QED
    BY <1>1, <1>2, <1>5, <1>6 DEF Load

(* What arrives was under way, and of it only parts of answers are read.   *)
LEMMA ArriveType ==
    ASSUME sock \in Connection, NEW n, Arrive(n)
    PROVE  sock' \in Connection /\ Load(sock') <= Load(sock) /\ sock'.up = sock.up
  <1> DEFINE all == AnswerPart \cup {FIN, RST}
             air == sock.air
             rest == SubSeq(air, n + 1, Len(air))
  <1>1. /\ sock.up \in Seq(Wired) /\ air \in Seq(all) /\ sock.down \in Seq(AnswerPart)
        /\ sock.srv \in {"open", "closed"} /\ sock.fin \in BOOLEAN /\ sock.rst \in BOOLEAN
    BY Fields
  <1>2. n \in 1..Len(air)
    BY DEF Arrive
  <1>3. PICK d \in 0..n :
          /\ \A k \in 1..n : k <= d <=> air[k] \notin {FIN, RST}
          /\ sock' = [sock EXCEPT
               !.air = rest,
               !.down = @ \o SubSeq(air, 1, d),
               !.fin = @ \/ \E k \in 1..n : air[k] = FIN,
               !.rst = @ \/ \E k \in 1..n : air[k] = RST]
    BY DEF Arrive
  <1> DEFINE data == SubSeq(air, 1, d)
             fin2 == sock.fin \/ \E k \in 1..n : air[k] = FIN
             rst2 == sock.rst \/ \E k \in 1..n : air[k] = RST
  <1>4. rest \in Seq(all) /\ Len(rest) = Len(air) - n
    BY <1>1, <1>2
  <1>5. data \in Seq(AnswerPart) /\ Len(data) = d
    <2>1. Len(data) = d /\ \A k \in 1..d : data[k] = air[k]
      BY <1>1, <1>2
    <2>2. \A k \in 1..d : data[k] \in AnswerPart
      BY <1>1, <1>2, <1>3, <2>1
    <2>3. data \in Seq(all)
      BY <1>1, <1>2
    <2> HIDE DEF data
    <2> QED
      BY <2>1, <2>2, <2>3, IsASeq
  <1>6. fin2 \in BOOLEAN /\ rst2 \in BOOLEAN
    OBVIOUS
  <1>7. sock' = [sock EXCEPT !.air = rest, !.down = sock.down \o data, !.fin = fin2, !.rst = rst2]
    BY <1>3
  <1> HIDE DEF rest, data, fin2, rst2
  <1>8. sock.down \o data \in Seq(AnswerPart)
    BY <1>1, <1>5
  <1>9. /\ sock' \in Connection /\ sock'.up = sock.up /\ sock'.air = rest
        /\ sock'.down = sock.down \o data /\ sock'.srv = sock.srv
    BY <1>1, <1>4, <1>6, <1>7, <1>8 DEF Connection
  <1>10. \A u \in Seq(Wired), a, r \in Seq(all), b, t \in Seq(AnswerPart), v \in {"open", "closed"} :
           Len(r) + Len(t) <= Len(a) => Count(u, r, b \o t, v) <= Count(u, a, b, v)
    <2> HIDE DEF air, all
    <2> QED
      BY DEF Count
  <1>11. Len(rest) + Len(data) <= Len(air)
    BY <1>1, <1>2, <1>4, <1>5
  <1>12. Load(sock') <= Load(sock)
    BY <1>1, <1>4, <1>5, <1>9, <1>10, <1>11 DEF Load
  <1> QED
    BY <1>9, <1>12

(* A read takes parts from the front of what has arrived.                  *)
LEMMA ReadType ==
    ASSUME sock \in Connection, NEW k, NEW full, Read(k, full)
    PROVE  /\ sock' \in Connection /\ Load(sock') <= Load(sock) /\ sock'.up = sock.up
           /\ ToSet(SubSeq(sock.down, 1, k)) \subseteq AnswerPart
           /\ ToSet(SubSeq(sock.down, 1, k)) # {}
  <1> DEFINE down == sock.down
             rest == SubSeq(down, k + 1, Len(down))
             got == SubSeq(down, 1, k)
  <1>1. /\ sock.up \in Seq(Wired) /\ sock.air \in Seq(AnswerPart \cup {FIN, RST}) /\ down \in Seq(AnswerPart)
        /\ sock.srv \in {"open", "closed"}
    BY Fields
  <1>2. k \in 1..Len(down)
    BY DEF Read
  <1>3. rest \in Seq(AnswerPart) /\ Len(rest) = Len(down) - k
    BY <1>1, <1>2
  <1>4. got \in Seq(AnswerPart) /\ Len(got) = k
    BY <1>1, <1>2
  <1>5. ToSet(got) \subseteq AnswerPart /\ ToSet(got) # {}
    <2> HIDE DEF got
    <2>1. DOMAIN got = 1..k /\ \A i \in 1..k : got[i] \in AnswerPart
      BY <1>4
    <2>2. 1 \in DOMAIN got
      BY <1>2, <2>1
    <2> QED
      BY <2>1, <2>2 DEF ToSet
  <1>6. sock' = [sock EXCEPT !.down = rest]
    BY DEF Read
  <1> HIDE DEF rest
  <1>7. /\ sock' \in Connection /\ sock'.up = sock.up /\ sock'.air = sock.air
        /\ sock'.down = rest /\ sock'.srv = sock.srv
    BY <1>3, <1>6 DEF Connection
  <1>8. \A u \in Seq(Wired), a \in Seq(AnswerPart \cup {FIN, RST}), b, t \in Seq(AnswerPart), v \in {"open", "closed"} :
           Len(t) <= Len(b) => Count(u, a, t, v) <= Count(u, a, b, v)
    <2> HIDE DEF down
    <2> QED
      BY DEF Count
  <1>9. Len(rest) <= Len(down)
    BY <1>1, <1>2, <1>3
  <1> QED
    BY <1>1, <1>3, <1>5, <1>7, <1>8, <1>9 DEF Load

-----------------------------------------------------------------------------
(* The inductive invariant                                                 *)

(* What the server has to read are commands of the thread.                 *)
LEMMA RequestType ==
    ASSUME NEW up \in Seq(Wired), NEW j \in 1..Len(up)
    PROVE  up[j] \in Wired /\ up[j].cmd \in Commands /\ up[j].cmd \in Nat
  <1>1. up[j] \in Wired
    BY ElementOfSeq
  <1>2. Commands \subseteq Nat
    BY SoapAssumption DEF Commands
  <1> QED
    BY <1>1, <1>2 DEF Wired

(* Sent is a number of commands.                                           *)
LEMMA SentType ==
    ASSUME SoapTypes
    PROVE  Sent \in Nat /\ Sent <= N /\ Sent <= cur
  BY SoapAssumption DEF SoapTypes, Sent

(* The same after a step.                                                  *)
LEMMA SentTypeNext ==
    ASSUME SoapTypes'
    PROVE  Sent' \in Nat /\ Sent' <= N /\ Sent' <= cur'
  <1>1. cur' \in Nat /\ cur' <= N /\ (pc' # "idle" => cur' > 0) /\ N \in Nat
    BY SoapAssumption DEF SoapTypes
  <1>2. CASE pc' \in {"make", "check", "write"}
    <2>1. Sent' = cur' - 1
      BY <1>2 DEF Sent
    <2>2. cur' > 0
      BY <1>1, <1>2
    <2>3. \A x \in Nat : x > 0 /\ x <= N => x - 1 \in Nat /\ x - 1 <= N /\ x - 1 <= x
      BY <1>1
    <2> QED
      BY <1>1, <2>1, <2>2, <2>3
  <1>3. CASE pc' \notin {"make", "check", "write"}
    <2>1. Sent' = cur'
      BY <1>3 DEF Sent
    <2> QED
      BY <1>1, <2>1
  <1> QED
    BY <1>2, <1>3

(* What is told is not None.                                               *)
LEMMA SayType ==
    /\ ErrorMessage # None
    /\ \A S \in SUBSET AnswerPart : S # None
  BY NoneAssumption

(* The thread begins in the invariant.                                     *)
LEMMA SoapInitInv == Init => SoapInv
  <1> SUFFICES ASSUME Init PROVE SoapInv
    OBVIOUS
  <1>0. N \in Nat /\ mode.maxRefused \in Nat /\ mode.maxDropped \in Nat
    BY SoapAssumption DEF Init, Mode
  <1>1. SoapTypes
    BY <1>0 DEF Init, SoapTypes
  <1>2. CountInv
    BY <1>0 DEF Init, CountInv, SocketsAccounted
  <1>3. RoomInv
    BY DEF Init, RoomInv
  <1>4. OnceInv
    BY DEF Init, OnceInv
  <1> QED
    BY <1>1, <1>2, <1>3, <1>4 DEF SoapInv

(* A step after which no more is on its way than before, of commands that  *)
(* were sent before, keeps the bounds.                                     *)
LEMMA Kept ==
    ASSUME SoapInv, SoapTypes', UNCHANGED executed, Sent' >= Sent,
           \/ sock' = sock
           \/ sock # None /\ sock' \in Connection /\ Load(sock') <= Load(sock) /\ sock'.up = sock.up
    PROVE  RoomInv' /\ OnceInv'
  <1>1. Sent \in Nat /\ Sent' \in Nat
    <2>1. Sent \in Nat
      BY SentType DEF SoapInv
    <2> QED
      BY <2>1, SentTypeNext
  <1>2. sock # None => sock \in Connection /\ Load(sock) \in Nat
    BY Fields DEF SoapInv, SoapTypes
  <1>3. sock' # None => sock # None /\ Load(sock') <= Load(sock) /\ sock'.up = sock.up /\ Load(sock') \in Nat
    BY <1>2, Fields, NoneAssumption
  <1>4. RoomInv'
    BY <1>1, <1>2, <1>3 DEF SoapInv, RoomInv
  <1>5. \A i \in Commands : executed[i] <= 1 /\ (i > Sent' => executed[i] = 0)
    BY <1>1, SoapAssumption DEF SoapInv, OnceInv, Commands
  <1>6. sock' # None => \A j \in 1..Len(sock'.up) : sock'.up[j].kind = "request" => Waits(sock, j)'
    <2> SUFFICES ASSUME sock' # None, NEW j \in 1..Len(sock'.up), sock'.up[j].kind = "request"
                 PROVE  Waits(sock, j)'
      OBVIOUS
    <2>1. sock # None /\ sock'.up = sock.up /\ sock.up \in Seq(Wired)
      BY <1>2, <1>3, Fields
    <2>2. Waits(sock, j)
      BY <2>1 DEF SoapInv, OnceInv
    <2>3. sock.up[j].cmd \in Nat
      BY <2>1, RequestType
    <2> QED
      BY <1>1, <2>1, <2>2, <2>3 DEF Waits
  <1> QED
    BY <1>4, <1>5, <1>6 DEF OnceInv

(* The steps of the thread that leave its socket alone: what they change   *)
(* is where it is and what it will say.                                    *)
LEMMA QuietInv ==
    ASSUME SoapInv,
           \/ Begin \/ UseSocket \/ EmptyRequest \/ CheckOpen \/ WriteError
           \/ ReadEnd \/ ReadNothing \/ SelectTimeout \/ ReplyToClient
    PROVE  SoapInv'
  <1>0. SoapTypes
    BY DEF SoapInv
  <1>1. UNCHANGED <<sock, fds, world>>
    BY DEF Begin, UseSocket, EmptyRequest, CheckOpen, WriteError, ReadEnd, ReadNothing, SelectTimeout, ReplyToClient
  <1>2. CASE Begin
    <2>1. SoapTypes'
      BY <1>0, <1>1, <1>2, SoapAssumption DEF Begin, SoapTypes, world
    <2>2. Sent' >= Sent
      BY <1>0, <1>2 DEF Begin, SoapTypes, Sent
    <2> QED
      BY <1>1, <2>1, <2>2, Kept DEF SoapInv, CountInv, SocketsAccounted, world
  <1>3. CASE ~Begin
    <2>1. cur' = cur /\ pc # "idle" /\ pc' # "make"
      BY <1>3
      DEF UseSocket, EmptyRequest, CheckOpen, WriteError, ReadEnd, Got, ReadNothing, SelectTimeout, ReplyToClient
    <2>2. Sent' >= Sent
      <3>1. pc' \in {"check", "write"} => pc \in {"make", "check"}
        BY <1>3
        DEF UseSocket, EmptyRequest, CheckOpen, WriteError, ReadEnd, Got, ReadNothing, SelectTimeout, ReplyToClient
      <3> QED
        BY <1>0, <2>1, <3>1 DEF SoapTypes, Sent
    <2>3. /\ say' \in {None, ErrorMessage} \/ say' \subseteq AnswerPart
          /\ pc' \in {"more", "reply"} <=> say' # None
          /\ pc' # "more"
          /\ pc' \in {"idle", "make", "check", "write", "select", "more", "reply"}
          /\ pc' \in {"check", "write", "select"} => sock # None
      <3>1. CASE UseSocket \/ CheckOpen \/ ReadNothing \/ SelectTimeout
        BY <1>0, <3>1 DEF SoapTypes, UseSocket, CheckOpen, ReadNothing, SelectTimeout
      <3>2. CASE EmptyRequest \/ WriteError
        BY <1>0, <3>2, SayType DEF SoapTypes, EmptyRequest, WriteError
      <3>3. CASE ReadEnd
        BY <1>0, <3>3 DEF SoapTypes, ReadEnd, Got
      <3>4. CASE ReplyToClient
        BY <1>0, <3>4 DEF SoapTypes, ReplyToClient
      <3> QED
        BY <1>3, <3>1, <3>2, <3>3, <3>4
    <2>4. SoapTypes'
      BY <1>0, <1>1, <2>1, <2>3 DEF SoapTypes, world
    <2> QED
      BY <1>1, <2>2, <2>4, Kept DEF SoapInv, CountInv, SocketsAccounted, world
  <1> QED
    BY <1>2, <1>3

(* The steps that read: what they take has arrived.                        *)
LEMMA ReadInv ==
    ASSUME SoapInv, NEW k, NEW full \in BOOLEAN,
           ReadAnswer(k, full) \/ ReadMore(k, full) \/ ReadBeyond(k)
    PROVE  SoapInv'
  <1>0. SoapTypes
    BY DEF SoapInv
  <1> DEFINE new == ToSet(SubSeq(sock.down, 1, k))
  <1>1. UNCHANGED <<cur, fds, world>> /\ pc \in {"select", "more"} /\ sock # None
    BY <1>0 DEF SoapTypes, ReadAnswer, ReadMore, ReadBeyond
  <1>2. /\ sock \in Connection /\ sock' \in Connection /\ Load(sock') <= Load(sock) /\ sock'.up = sock.up
        /\ new \subseteq AnswerPart /\ new # {}
    <2>1. sock \in Connection
      BY <1>0, <1>1 DEF SoapTypes
    <2>2. Read(k, full) \/ Read(k, TRUE)
      BY DEF ReadAnswer, ReadMore, ReadBeyond
    <2> QED
      BY <2>1, <2>2, ReadType
  <1> HIDE DEF new
  <1>3. PICK parts \in SUBSET AnswerPart, f \in BOOLEAN : Got(parts, f)
    <2>1. CASE ReadAnswer(k, full)
      <3>1. Got(new, full)
        BY <2>1 DEF ReadAnswer, new
      <3> QED
        BY <1>2, <3>1
    <2>2. CASE ReadMore(k, full)
      <3>1. say \subseteq AnswerPart
        BY <1>0, <2>2 DEF ReadMore, SoapTypes
      <3>2. Got(say \cup new, full)
        BY <2>2 DEF ReadMore, new
      <3> QED
        BY <1>2, <3>1, <3>2
    <2>3. CASE ReadBeyond(k)
      <3>1. say \subseteq AnswerPart
        BY <1>0, <2>3 DEF ReadBeyond, SoapTypes
      <3> QED
        BY <2>3, <3>1 DEF ReadBeyond
    <2> QED
      BY <2>1, <2>2, <2>3
  <1>4. parts # None
    BY <1>3, SayType
  <1>5. SoapTypes'
    BY <1>0, <1>1, <1>2, <1>3, <1>4, NoneAssumption DEF SoapTypes, Got, world
  <1>6. Sent' >= Sent
    BY <1>0, <1>1, <1>3 DEF SoapTypes, Sent, Got
  <1>7. CountInv'
    <2>1. sock' # None
      BY <1>2, NoneAssumption
    <2> QED
      BY <1>1, <2>1 DEF SoapInv, CountInv, SocketsAccounted, world
  <1> QED
    BY <1>1, <1>2, <1>5, <1>6, <1>7, Kept DEF SoapInv, world

(* Making a socket, after closing the old one or without one: each failure *)
(* behind socket() costs one descriptor.                                   *)
LEMMA MakeCount ==
    ASSUME SoapInv, NEW c \in {Fresh, None}, UNCHANGED <<mode, dropped>>,
           \/ sock = None /\ make_soap_socket(c, fds)
           \/ reset_thread_local_soap_socket(c),
           sock' = None <=> c = None
    PROVE  CountInv'
  <1>1. /\ fds \in Nat /\ refused \in Nat /\ mode.maxRefused \in Nat
        /\ refused <= mode.maxRefused /\ dropped \in Nat /\ dropped <= mode.maxDropped
        /\ fds = refused + (IF sock = None THEN 0 ELSE 1)
    BY SoapAssumption DEF SoapInv, SoapTypes, CountInv, SocketsAccounted, Mode
  <1>2. make_soap_socket(c, refused)
    BY <1>1 DEF reset_thread_local_soap_socket, make_soap_socket, Connected, Refused, NoSocket
  <1>3. CASE Connected(c, refused)
    BY <1>1, <1>3, FreshType DEF Connected, CountInv, SocketsAccounted
  <1>4. CASE Refused(c, refused)
    BY <1>1, <1>4 DEF Refused, CountInv, SocketsAccounted
  <1>5. CASE NoSocket(c, refused)
    BY <1>1, <1>5 DEF NoSocket, CountInv, SocketsAccounted
  <1> QED
    BY <1>2, <1>3, <1>4, <1>5 DEF make_soap_socket

(* A socket that is new has nothing of the old one.                        *)
LEMMA MakeInv ==
    ASSUME SoapInv, NEW c \in {Fresh, None}, MakeSocket(c) \/ ResetSocket(c)
    PROVE  SoapInv'
  <1>0. SoapTypes
    BY DEF SoapInv
  <1>1. /\ UNCHANGED <<mode, cur, dropped, client, executed>> /\ sock' = c
        /\ pc \in {"make", "check", "write"}
        /\ pc' = "reply" \/ pc' \in {"check", "write"}
        /\ c = None <=> pc' = "reply"
        /\ say' = IF c = None THEN ErrorMessage ELSE say
    BY FreshType DEF MakeSocket, ResetSocket
  <1>2. CountInv'
    BY <1>1, MakeCount DEF MakeSocket, ResetSocket
  <1>3. SoapTypes'
    BY <1>0, <1>1, FreshType, SayType DEF SoapTypes
  <1>4. Sent' \in Nat /\ Sent \in Nat /\ Sent' >= Sent
    <2>1. Sent' \in Nat /\ Sent \in Nat
      BY <1>0, <1>3, SentType, SentTypeNext
    <2>2. Sent' >= Sent
      BY <1>0, <1>1 DEF SoapTypes, Sent
    <2> QED
      BY <2>1, <2>2
  <1>5. sock' # None => sock' = Fresh
    BY <1>1
  <1>6. RoomInv'
    <2>1. sock' # None => Load(sock') = 1
      BY <1>5, FreshType
    <2>2. \A n \in Nat : 1 <= 2 * n + 1
      OBVIOUS
    <2> QED
      BY <1>4, <2>1, <2>2 DEF RoomInv
  <1>7. OnceInv'
    <2>1. \A i \in Commands : executed'[i] <= 1 /\ (i > Sent' => executed'[i] = 0)
      <3>1. Commands \subseteq Nat
        BY SoapAssumption DEF Commands
      <3> QED
        BY <1>1, <1>4, <3>1 DEF SoapInv, OnceInv
    <2>2. sock' # None => Len(sock'.up) = 0
      <3>1. Fresh.up = <<>>
        BY FreshType
      <3> QED
        BY <1>5, <3>1
    <2> QED
      BY <2>1, <2>2 DEF OnceInv
  <1> QED
    BY <1>2, <1>3, <1>6, <1>7 DEF SoapInv

(* Running no command, and with only a reply on its way, the bounds hold.  *)
LEMMA ReplyToClosedInv ==
    ASSUME SoapInv, NEW c \in {Fresh, None}, ReplyToClosed(c)
    PROVE  SoapInv'
  <1>0. SoapTypes
    BY DEF SoapInv
  <1> DEFINE d == Written(Fresh, Reply(cur))
  <1>1. /\ UNCHANGED <<mode, cur, dropped, client, executed>>
        /\ sock' = IF c = None THEN None ELSE d
        /\ pc = "reply" /\ pc' = "idle" /\ say' = None
    BY DEF ReplyToClosed
  <1>2. cur \in Commands /\ cur \in Nat /\ cur > 0
    BY <1>0, <1>1, SoapAssumption DEF SoapTypes, Commands
  <1>3. /\ d \in Connection /\ Load(d) \in Nat /\ Load(d) <= 3
        /\ d.up \in {<<>>, Append(<<>>, Reply(cur))}
    <2>1. Reply(cur) \in Wired
      BY <1>2, WireTypes
    <2>2. d \in Connection /\ Load(d) <= Load(Fresh) + 2 /\ d.up \in {Fresh.up, Append(Fresh.up, Reply(cur))}
      BY <2>1, FreshType, WrittenType
    <2> HIDE DEF d
    <2>3. Load(d) \in Nat
      BY <2>2, Fields
    <2>4. Fresh.up = <<>> /\ Load(Fresh) = 1
      BY FreshType
    <2> QED
      BY <2>2, <2>3, <2>4
  <1> HIDE DEF d
  <1>4. d # None
    BY <1>3, NoneAssumption
  <1>5. CountInv'
    BY <1>1, <1>4, MakeCount, FreshType DEF ReplyToClosed
  <1>6. SoapTypes'
    BY <1>0, <1>1, <1>3 DEF SoapTypes
  <1>7. Sent' = cur /\ Sent = cur
    BY <1>1 DEF Sent
  <1>8. RoomInv'
    BY <1>1, <1>2, <1>3, <1>7 DEF RoomInv
  <1>9. OnceInv'
    <2>1. \A i \in Commands : executed'[i] <= 1 /\ (i > Sent' => executed'[i] = 0)
      BY <1>1, <1>7 DEF SoapInv, OnceInv
    <2>2. \A j \in 1..Len(d.up) : d.up[j].kind # "request"
      <3>1. Reply(cur).kind # "request"
        BY DEF Reply
      <3>2. \A x : x.kind # "request" => \A u \in {<<>>, Append(<<>>, x)} : \A j \in 1..Len(u) : u[j].kind # "request"
        OBVIOUS
      <3> QED
        BY <1>3, <3>1, <3>2
    <2> QED
      BY <1>1, <2>1, <2>2 DEF OnceInv
  <1> QED
    BY <1>5, <1>6, <1>8, <1>9 DEF SoapInv

(* The request of the command in hand is written once, before it can have  *)
(* been executed, and behind those of other commands.                      *)
LEMMA WriteInv ==
    ASSUME SoapInv, WriteRequest
    PROVE  SoapInv'
  <1>0. SoapTypes
    BY DEF SoapInv
  <1> DEFINE x == Request(cur)
             up == sock.up
             new == sock'.up
  <1>1. /\ pc = "write" /\ pc' = "select" /\ sock' = Written(sock, x)
        /\ UNCHANGED <<cur, say, fds, reply, world>>
    BY DEF WriteRequest
  <1>2. /\ sock \in Connection /\ sock # None /\ cur \in Nat /\ cur > 0 /\ cur \in Commands
        /\ Sent = cur - 1 /\ Sent' = cur
    BY <1>0, <1>1, SoapAssumption DEF SoapTypes, Sent, Commands
  <1>3. x \in Wired
    BY <1>2, WireTypes
  <1>4. /\ sock' \in Connection /\ Load(sock') <= Load(sock) + 2
        /\ new \in {up, Append(up, x)} /\ Load(sock) \in Nat /\ Load(sock') \in Nat
        /\ up \in Seq(Wired)
    <2>1. sock' \in Connection /\ Load(sock') <= Load(sock) + 2 /\ new \in {up, Append(up, x)}
      BY <1>1, <1>2, <1>3, WrittenType
    <2> QED
      BY <1>2, <2>1, Fields
  <1>5. sock' # None
    BY <1>4, NoneAssumption
  <1>6. SoapTypes'
    BY <1>0, <1>1, <1>4, <1>5 DEF SoapTypes, world
  <1>7. CountInv'
    BY <1>1, <1>2, <1>5 DEF SoapInv, CountInv, SocketsAccounted, world
  <1>8. RoomInv'
    <2>1. Load(sock) <= 2 * (cur - 1) + 1
      BY <1>2 DEF SoapInv, RoomInv
    <2>2. Load(sock') <= 2 * cur + 1
      BY <1>2, <1>4, <2>1
    <2> QED
      BY <1>2, <2>2 DEF RoomInv
  <1>9. OnceInv'
    <2>1. executed' = executed /\ executed[cur] = 0
      BY <1>1, <1>2 DEF SoapInv, OnceInv, world
    <2>2. \A i \in Commands : executed'[i] <= 1 /\ (i > Sent' => executed'[i] = 0)
      <3>1. Commands \subseteq Nat
        BY SoapAssumption DEF Commands
      <3> QED
        BY <1>2, <2>1, <3>1 DEF SoapInv, OnceInv
    <2>3. ASSUME NEW j \in 1..Len(new), new[j].kind = "request"
          PROVE  Waits(sock, j)'
      <3> HIDE DEF up, new
      <3>1. \A k \in 1..Len(up) : up[k].kind = "request" =>
              /\ up[k].cmd \in Nat /\ up[k].cmd < cur /\ executed[up[k].cmd] = 0
              /\ \A m \in 1..Len(up) : up[m] = up[k] => m = k
        <4> TAKE k \in 1..Len(up)
        <4> HAVE up[k].kind = "request"
        <4>1. up[k].cmd \in Nat
          BY <1>4, RequestType
        <4>2. Waits(sock, k)
          BY <1>2 DEF up, SoapInv, OnceInv
        <4>3. up[k].cmd <= cur - 1
          BY <1>2, <4>2 DEF Waits, up
        <4>4. executed[up[k].cmd] = 0 /\ \A m \in 1..Len(up) : up[m] = up[k] => m = k
          BY <4>2 DEF Waits, up
        <4> QED
          BY <1>2, <4>1, <4>3, <4>4
      <3>2. x.kind = "request" /\ x.cmd = cur
        BY DEF Request
      <3>3. \A m \in 1..Len(new) : \/ m \in 1..Len(up) /\ new[m] = up[m]
                                   \/ m = Len(up) + 1 /\ new[m] = x
        <4> HIDE DEF x
        <4> QED
          BY <1>3, <1>4
      <3> HIDE DEF x
      <3>4. new[j].cmd <= cur /\ executed[new[j].cmd] = 0
        <4>1. CASE j \in 1..Len(up) /\ new[j] = up[j]
          <5>1. up[j].kind = "request"
            BY <2>3, <4>1
          <5>2. up[j].cmd \in Nat /\ up[j].cmd < cur /\ executed[up[j].cmd] = 0
            BY <3>1, <4>1, <5>1
          <5> QED
            BY <1>2, <4>1, <5>2
        <4>2. CASE new[j] = x
          BY <1>2, <2>1, <3>2, <4>2
        <4> QED
          BY <3>3, <4>1, <4>2
      <3>5. \A m \in 1..Len(new) : new[m] = new[j] => m = j
        <4> SUFFICES ASSUME NEW m \in 1..Len(new), new[m] = new[j] PROVE m = j
          OBVIOUS
        <4>1. CASE m \in 1..Len(up) /\ j \in 1..Len(up)
          <5>1. up[m] = up[j] /\ up[j].kind = "request"
            BY <1>4, <2>3, <3>3, <4>1
          <5> QED
            BY <3>1, <4>1, <5>1
        <4>2. CASE m \in 1..Len(up) /\ new[j] = x
          <5>1. up[m].kind = "request" /\ up[m].cmd = cur
            BY <1>4, <3>2, <3>3, <4>2
          <5> QED
            BY <1>2, <3>1, <4>2, <5>1
        <4>3. CASE new[m] = x /\ j \in 1..Len(up)
          <5>1. new[j] = up[j]
            <6>1. Len(up) \in Nat
              BY <1>4
            <6>2. j # Len(up) + 1
              BY <4>3, <6>1
            <6> QED
              BY <3>3, <6>2
          <5>2. up[j] = x
            BY <4>3, <5>1
          <5> QED
            BY <1>2, <3>1, <3>2, <4>3, <5>2
        <4>4. CASE m = Len(up) + 1 /\ j = Len(up) + 1
          BY <4>4
        <4> QED
          BY <3>3, <4>1, <4>2, <4>3, <4>4
      <3> QED
        BY <1>2, <2>1, <3>4, <3>5 DEF Waits, new
    <2> QED
      BY <2>2, <2>3 DEF OnceInv
  <1> QED
    BY <1>6, <1>7, <1>8, <1>9 DEF SoapInv

(* The server executes the first request, which waits nowhere else.        *)
LEMMA ServeInv ==
    ASSUME SoapInv, NEW split \in BOOLEAN, NEW close \in BOOLEAN, Serve(split, close)
    PROVE  SoapInv'
  <1>0. SoapTypes
    BY DEF SoapInv
  <1> DEFINE up == sock.up
             new == sock'.up
             x == Head(sock.up)
  <1>1. sock # None /\ UNCHANGED <<mode, pc, cur, say, fds, reply, refused, dropped, client>>
    BY DEF Serve
  <1>2. sock \in Connection
    BY <1>0, <1>1 DEF SoapTypes
  <1>3. /\ sock' \in Connection /\ Load(sock') <= Load(sock) /\ new \in {<<>>, Tail(up)}
        /\ up \in Seq(Wired) /\ up # <<>> /\ x \in Wired
    BY <1>2, ServeType
  <1>4. sock' # None
    BY <1>3, NoneAssumption
  <1>5. x \in Wired /\ x = up[1] /\ x.cmd \in Commands /\ x.cmd \in Nat /\ 1 \in 1..Len(up)
    <2>1. x = up[1] /\ 1 \in 1..Len(up)
      <3> HIDE DEF up
      <3>1. Head(up) = up[1] /\ 1 \in 1..Len(up)
        BY <1>3
      <3> QED
        BY <3>1 DEF up
    <2> QED
      BY <1>3, <2>1, RequestType
  <1>6. executed' = IF x.kind = "request" THEN [executed EXCEPT ![x.cmd] = @ + 1] ELSE executed
    BY DEF Serve
  <1>7. executed' \in [Commands -> Nat]
    BY <1>0, <1>5, <1>6 DEF SoapTypes
  <1>8. SoapTypes'
    BY <1>0, <1>1, <1>3, <1>4, <1>7 DEF SoapTypes
  <1>9. CountInv'
    BY <1>1, <1>4 DEF SoapInv, CountInv, SocketsAccounted
  <1>10. Sent' = Sent /\ Sent \in Nat
    BY <1>0, <1>1, SentType DEF Sent
  <1>11. RoomInv'
    <2>1. Load(sock) \in Nat /\ Load(sock') \in Nat
      BY <1>2, <1>3, Fields
    <2>2. Load(sock) <= 2 * Sent + 1
      BY <1>1 DEF SoapInv, RoomInv
    <2>3. Load(sock') <= 2 * Sent + 1
      BY <1>3, <1>10, <2>1, <2>2
    <2> QED
      BY <1>10, <2>3 DEF RoomInv
  <1>12. \A i \in Commands : i \in Nat /\ executed[i] \in Nat /\ executed[i] <= 1 /\ (i > Sent => executed[i] = 0)
    <2>1. Commands \subseteq Nat
      BY SoapAssumption DEF Commands
    <2> QED
      BY <1>0, <2>1 DEF SoapTypes, SoapInv, OnceInv
  <1>13. x.kind = "request" => /\ executed[x.cmd] = 0 /\ x.cmd <= Sent
                               /\ \A m \in 1..Len(up) : up[m] = x => m = 1
    BY <1>1, <1>5 DEF SoapInv, OnceInv, Waits
  <1> HIDE DEF x
  <1>14. \A i \in Commands : executed'[i] <= 1 /\ (i > Sent => executed'[i] = 0)
    <2> TAKE i \in Commands
    <2>1. CASE x.kind = "request" /\ i = x.cmd
      <3>1. executed'[i] = 1
        BY <1>0, <1>5, <1>6, <1>13, <2>1 DEF SoapTypes
      <3>2. i <= Sent /\ i \in Nat
        BY <1>5, <1>13, <2>1
      <3> QED
        BY <1>10, <3>1, <3>2
    <2>2. CASE ~(x.kind = "request" /\ i = x.cmd)
      <3>1. executed'[i] = executed[i]
        BY <1>0, <1>5, <1>6, <2>2 DEF SoapTypes
      <3> QED
        BY <1>12, <3>1
    <2> QED
      BY <2>1, <2>2
  <1>15. ASSUME NEW j \in 1..Len(new), new[j].kind = "request"
         PROVE  Waits(sock, j)'
    <2> HIDE DEF up, new
    <2>1. /\ Len(new) = Len(up) - 1 /\ Len(up) \in Nat
          /\ \A m \in 1..Len(new) : m + 1 \in 1..Len(up) /\ new[m] = up[m + 1]
      <3>1. new = Tail(up)
        BY <1>3, <1>15
      <3> QED
        BY <1>3, <3>1
    <2>2. /\ new[j].cmd \in Nat /\ new[j].cmd \in Commands /\ new[j].cmd <= Sent /\ executed[new[j].cmd] = 0
          /\ new[j] \in Wired
          /\ \A m \in 1..Len(up) : up[m] = new[j] => m = j + 1
      <3>1. j + 1 \in 1..Len(up) /\ new[j] = up[j + 1]
        BY <2>1
      <3>2. up[j + 1] \in Wired /\ up[j + 1].cmd \in Nat /\ up[j + 1].cmd \in Commands
        BY <1>3, <3>1, RequestType
      <3>3. Waits(sock, j + 1)
        BY <1>1, <1>15, <3>1 DEF SoapInv, OnceInv, up
      <3> QED
        BY <3>1, <3>2, <3>3 DEF Waits, up
    <2>3. executed'[new[j].cmd] = 0
      <3>1. CASE x.kind = "request" /\ new[j].cmd = x.cmd
        <4>1. new[j] = x
          <5>1. \A u, v \in Wired : u.kind = v.kind /\ u.cmd = v.cmd => u = v
            BY DEF Wired
          <5> QED
            BY <1>5, <1>15, <2>2, <3>1, <5>1
        <4>2. 1 = j + 1
          BY <1>5, <2>2, <4>1
        <4> QED
          BY <4>2
      <3>2. CASE ~(x.kind = "request" /\ new[j].cmd = x.cmd)
        <4>1. executed'[new[j].cmd] = executed[new[j].cmd]
          BY <1>0, <1>5, <1>6, <2>2, <3>2 DEF SoapTypes
        <4> QED
          BY <2>2, <4>1
      <3> QED
        BY <3>1, <3>2
    <2>4. \A m \in 1..Len(new) : new[m] = new[j] => m = j
      <3> TAKE m \in 1..Len(new)
      <3> HAVE new[m] = new[j]
      <3>1. m + 1 \in 1..Len(up) /\ up[m + 1] = new[j]
        BY <2>1
      <3>2. m + 1 = j + 1
        BY <2>2, <3>1
      <3> QED
        BY <3>2
    <2> QED
      BY <1>10, <2>2, <2>3, <2>4 DEF Waits, new
  <1>16. OnceInv'
    BY <1>10, <1>14, <1>15 DEF OnceInv
  <1> QED
    BY <1>8, <1>9, <1>11, <1>16 DEF SoapInv

(* A connection dropped takes with it what the server had not read; what   *)
(* arrives and clients that close change nothing of what is counted.       *)
LEMMA WorldInv ==
    ASSUME SoapInv, Drop \/ (\E n \in 1..(MaxParts + 1) : Arrive(n)) \/ (\E i \in Commands : ClientClose(i))
    PROVE  SoapInv'
  <1>0. SoapTypes
    BY DEF SoapInv
  <1>1. CASE Drop
    <2>1. sock # None /\ UNCHANGED <<mode, pc, cur, say, fds, reply, refused, client, executed>>
      BY <1>1 DEF Drop
    <2>2. sock \in Connection /\ sock' \in Connection /\ Load(sock') <= Load(sock) /\ sock'.up = <<>>
      BY <1>0, <1>1, <2>1, DropType DEF SoapTypes
    <2>3. sock' # None /\ Load(sock) \in Nat /\ Load(sock') \in Nat /\ Len(sock'.up) = 0
      BY <2>2, Fields, NoneAssumption
    <2>4. SoapTypes'
      BY <1>0, <2>1, <2>2, <2>3 DEF SoapTypes
    <2>5. Sent' = Sent /\ Sent \in Nat
      BY <1>0, <2>1, SentType DEF Sent
    <2>6. CountInv'
      <3>1. mode.maxDropped \in Nat
        BY <1>0, SoapAssumption DEF SoapTypes, Mode
      <3>2. dropped' \in Nat /\ dropped' <= mode.maxDropped
        BY <1>1, <3>1 DEF Drop, SoapInv, CountInv
      <3> QED
        BY <2>1, <2>3, <3>2 DEF SoapInv, CountInv, SocketsAccounted
    <2>7. RoomInv'
      <3>1. Load(sock) <= 2 * Sent + 1
        BY <2>1 DEF SoapInv, RoomInv
      <3>2. Load(sock') <= 2 * Sent + 1
        BY <2>2, <2>3, <2>5, <3>1
      <3> QED
        BY <2>5, <3>2 DEF RoomInv
    <2>8. OnceInv'
      BY <2>1, <2>3, <2>5 DEF SoapInv, OnceInv
    <2> QED
      BY <2>4, <2>6, <2>7, <2>8 DEF SoapInv
  <1>2. ASSUME NEW n, Arrive(n) PROVE SoapInv'
    <2>1. sock # None /\ UNCHANGED <<pc, cur, say, fds, reply, world>>
      BY <1>2 DEF Arrive
    <2>2. sock \in Connection /\ sock' \in Connection /\ Load(sock') <= Load(sock) /\ sock'.up = sock.up
      BY <1>0, <1>2, <2>1, ArriveType DEF SoapTypes
    <2>3. sock' # None
      BY <2>2, NoneAssumption
    <2>4. SoapTypes'
      BY <1>0, <2>1, <2>2, <2>3 DEF SoapTypes, world
    <2>5. Sent' = Sent /\ Sent \in Nat
      BY <1>0, <2>1, SentType DEF Sent
    <2>6. Sent' >= Sent
      BY <2>5
    <2>7. CountInv'
      BY <2>1, <2>3 DEF SoapInv, CountInv, SocketsAccounted, world
    <2> QED
      BY <2>1, <2>2, <2>4, <2>6, <2>7, Kept DEF SoapInv, world
  <1>3. ASSUME NEW i \in Commands, ClientClose(i) PROVE SoapInv'
    <2>1. UNCHANGED <<mode, pc, cur, sock, say, fds, reply, refused, dropped, executed>>
      BY <1>3 DEF ClientClose
    <2>2. SoapTypes'
      BY <1>0, <1>3, <2>1 DEF SoapTypes, ClientClose
    <2>3. Sent' = Sent /\ Sent \in Nat
      BY <1>0, <2>1, SentType DEF Sent
    <2>4. Sent' >= Sent
      BY <2>3
    <2> QED
      BY <2>1, <2>2, <2>4, Kept DEF SoapInv, CountInv, SocketsAccounted
  <1> QED
    BY <1>1, <1>2, <1>3

(* Every reachable state of the exchange satisfies the invariant.          *)
THEOREM SoapInvariant == Spec => []SoapInv
  <1>1. SoapInv /\ [Next]_vars => SoapInv'
    <2> SUFFICES ASSUME SoapInv, [Next]_vars PROVE SoapInv'
      OBVIOUS
    <2>1. CASE UNCHANGED vars
      BY <2>1 DEF vars, SoapInv, SoapTypes, CountInv, SocketsAccounted, RoomInv, OnceInv, Sent, Waits
    <2>2. CASE write_pipe_or_sock
      BY <2>2, QuietInv, MakeInv, WriteInv, ReadInv DEF write_pipe_or_sock
    <2>3. CASE write_sock_func
      BY <2>3, QuietInv, ReplyToClosedInv DEF write_sock_func
    <2>4. CASE Server \/ \E i \in Commands : ClientClose(i)
      BY <2>4, ServeInv, WorldInv DEF Server
    <2> QED
      BY <2>1, <2>2, <2>3, <2>4 DEF Next
  <1> QED
    BY <1>1, SoapInitInv, PTL DEF Spec

-----------------------------------------------------------------------------
(* What it says of the code                                                *)

(* No command is executed twice, for any number of commands and whatever   *)
(* the server, the network and the clients do: writen_fd writes a request  *)
(* again only over a new connection, when the first write did not succeed. *)
THEOREM SoapAtMostOnce == Spec => []AtMostOnce
  <1>1. SoapInv => AtMostOnce
    BY DEF SoapInv, OnceInv, AtMostOnce
  <1> QED
    BY <1>1, SoapInvariant, PTL

(* The descriptors the thread has open are its socket and one for each     *)
(* connect that was refused.                                               *)
THEOREM SoapSocketsAccounted == Spec => []SocketsAccounted
  <1>1. SoapInv => SocketsAccounted
    BY DEF SoapInv, CountInv
  <1> QED
    BY <1>1, SoapInvariant, PTL

(* The variables keep their types, and no connection holds more than N     *)
(* requests or more parts than MaxParts.                                   *)
THEOREM SoapTypeOK == Spec => []TypeOK
  <1>1. SoapInv => TypeOK
    <2> SUFFICES ASSUME SoapInv PROVE TypeOK
      OBVIOUS
    <2>0. N \in Nat /\ mode.maxRefused \in Nat /\ mode.maxDropped \in Nat
      BY SoapAssumption DEF SoapInv, SoapTypes, Mode
    <2>1. cur \in 0..N /\ refused \in 0..mode.maxRefused /\ dropped \in 0..mode.maxDropped
      BY <2>0 DEF SoapInv, SoapTypes, CountInv
    <2>2. ASSUME sock # None PROVE sock \in Connection /\ Len(sock.up) <= N /\ Len(sock.down) <= MaxParts
      <3>1. /\ sock \in Connection
            /\ sock.up \in Seq(Wired) /\ sock.air \in Seq(AnswerPart \cup {FIN, RST}) /\ sock.down \in Seq(AnswerPart)
            /\ sock.srv \in {"open", "closed"}
        BY <2>2, Fields DEF SoapInv, SoapTypes
      <3>2. Load(sock) <= 2 * Sent + 1 /\ Sent \in Nat /\ Sent <= N
        BY <2>2, SentType DEF SoapInv, RoomInv
      <3>3. \A up \in Seq(Wired), air \in Seq(AnswerPart \cup {FIN, RST}), down \in Seq(AnswerPart), srv \in {"open", "closed"}, n \in Nat :
              n <= N /\ Count(up, air, down, srv) <= 2 * n + 1 => Len(up) <= N /\ Len(down) <= 2 * (N + 1)
        BY <2>0 DEF Count
      <3> QED
        <4>1. Count(sock.up, sock.air, sock.down, sock.srv) <= 2 * Sent + 1
          BY <3>2 DEF Load
        <4>2. Len(sock.up) <= N /\ Len(sock.down) <= 2 * (N + 1)
          BY <3>1, <3>2, <3>3, <4>1
        <4> QED
          BY <3>1, <4>2 DEF MaxParts
    <2> QED
      BY <2>1, <2>2 DEF TypeOK, SoapInv, SoapTypes, CountInv
  <1> QED
    BY <1>1, SoapInvariant, PTL

-----------------------------------------------------------------------------
(* What the clients are told: the invariant of the refinement              *)

(* The members of S that a sequence holds are there once.                  *)
Distinct(s, S) == \A j, k \in 1..Len(s) : s[j] \in S /\ s[k] = s[j] => k = j

(* The commands whose turn is over.                                        *)
Ended == IF pc = "idle" THEN cur ELSE cur - 1

(* What may still be written, and what the server has still to read.       *)
Unwritten == {x \in Wired : IF x.kind = "request" THEN x.cmd > Sent ELSE x.cmd > Ended}
Unread == IF sock = None THEN {} ELSE ToSet(sock.up)

(* The places of the parts of an answer: still to be made by the server,   *)
(* under way, arrived, about to be said to a client, and told.             *)
Ahead == {p \in AnswerPart : p.of \in Unwritten \cup Unread}
UnderWay == IF sock = None THEN {} ELSE ToSet(sock.air) \cap AnswerPart
Arrived == IF sock = None THEN {} ELSE ToSet(sock.down)
Said == IF say = None THEN {} ELSE say \cap AnswerPart
Told == {p \in AnswerPart : \E i \in Commands : reply[i] # None /\ p \in reply[i]}

(* Five places that share nothing.                                         *)
Apart(h, u, a, s, t) ==
    /\ h \cap u = {} /\ h \cap a = {} /\ h \cap s = {} /\ h \cap t = {}
    /\ u \cap a = {} /\ u \cap s = {} /\ u \cap t = {}
    /\ a \cap s = {} /\ a \cap t = {} /\ s \cap t = {}

(* No part is in two of them or twice in one, and nothing is written twice.*)
Single(c) == Distinct(c.up, Wired) /\ Distinct(c.air, AnswerPart) /\ Distinct(c.down, AnswerPart)

PartsInv ==
    /\ Apart(Ahead, UnderWay, Arrived, Said, Told)
    /\ Unwritten \cap Unread = {}
    /\ sock # None => Single(sock)

(* What is said is not nothing, and said to a client that waits for it.    *)
SayInv ==
    /\ reply \in [Commands -> {None, ErrorMessage} \cup SUBSET AnswerPart]
    /\ say # {}
    /\ pc = "reply" /\ say # ErrorMessage => cur \in mode.needRsp

(* With a prompt server the connection is empty between two exchanges, and *)
(* in one it holds the request, its answer on the way or its answer.       *)
Empty(c) == c.up = <<>> /\ c.air = <<>> /\ c.down = <<>> /\ (c.fin <=> c.srv = "closed")
Asking(c) == c.up = <<Request(cur)>> /\ c.air = <<>> /\ c.down = <<>> /\ c.srv = "open" /\ ~c.fin
Whole == Part(Request(cur), "all")
Answering(c) == /\ c.up = <<>> /\ c.down = <<>> /\ ~c.fin
                /\ c.air = IF c.srv = "open" THEN <<Whole>> ELSE <<Whole, FIN>>
Answered(c) == c.up = <<>> /\ c.air = <<>> /\ c.down = <<Whole>> /\ (c.fin <=> c.srv = "closed")

PromptInv ==
    Prompt =>
      /\ client = [i \in Commands |-> "open"]
      /\ pc # "more"
      /\ pc = "reply" => IF say = ErrorMessage THEN executed[cur] = 0 ELSE say = Answer(cur) /\ executed[cur] = 1
      /\ sock # None => ~sock.rst
      /\ sock # None /\ pc # "select" => Empty(sock)
      /\ pc = "write" => sock.srv = "open"
      /\ pc = "select" => \/ Asking(sock) /\ executed[cur] = 0
                          \/ (Answering(sock) \/ Answered(sock)) /\ executed[cur] = 1

ToldInv == PartsInv /\ SayInv /\ PromptInv

-----------------------------------------------------------------------------
(* The parts of the answers                                                *)

(* The elements of a sequence,                                             *)
LEMMA Elements ==
    ASSUME NEW T, NEW s \in Seq(T)
    PROVE  /\ ToSet(s) = {s[j] : j \in 1..Len(s)} /\ ToSet(s) \subseteq T
           /\ \A x : x \in ToSet(s) <=> \E j \in 1..Len(s) : x = s[j]
  <1>1. DOMAIN s = 1..Len(s) /\ \A j \in 1..Len(s) : s[j] \in T
    OBVIOUS
  <1> QED
    BY <1>1 DEF ToSet

(* of one with something at its end that it does not hold,                 *)
LEMMA AppendElements ==
    ASSUME NEW T, NEW S, NEW s \in Seq(T), NEW e \in T, Distinct(s, S), e \notin S \/ e \notin ToSet(s)
    PROVE  /\ Append(s, e) \in Seq(T) /\ ToSet(Append(s, e)) = ToSet(s) \cup {e}
           /\ Distinct(Append(s, e), S)
  <1> DEFINE r == Append(s, e)
  <1>1. /\ r \in Seq(T) /\ Len(r) = Len(s) + 1 /\ Len(s) \in Nat
        /\ r[Len(s) + 1] = e /\ \A j \in 1..Len(s) : r[j] = s[j]
    OBVIOUS
  <1> HIDE DEF r
  <1>2. PICK n \in Nat : n = Len(s)
    BY <1>1
  <1>3. /\ \A x : x \in ToSet(s) <=> \E j \in 1..n : x = s[j]
        /\ \A x : x \in ToSet(r) <=> \E j \in 1..(n + 1) : x = r[j]
    BY <1>1, <1>2, Elements
  <1>4. \A j \in 1..(n + 1) : (j \in 1..n /\ r[j] = s[j]) \/ (j = n + 1 /\ r[j] = e)
    <2>1. r[n + 1] = e /\ \A j \in 1..n : r[j] = s[j]
      BY <1>1, <1>2
    <2>2. \A j \in 1..(n + 1) : j \in 1..n \/ j = n + 1
      OBVIOUS
    <2> QED
      BY <2>1, <2>2
  <1>5. ToSet(r) = ToSet(s) \cup {e}
    <2>1. ASSUME NEW x PROVE x \in ToSet(r) => x \in ToSet(s) \cup {e}
      BY <1>3, <1>4
    <2>2. e \in ToSet(r)
      BY <1>1, <1>2, <1>3
    <2>3. ASSUME NEW x \in ToSet(s) PROVE x \in ToSet(r)
      <3>1. PICK j \in 1..n : x = s[j]
        BY <1>3
      <3>2. j \in 1..(n + 1) /\ r[j] = x
        BY <1>1, <1>2, <3>1
      <3> QED
        BY <1>3, <3>2
    <2> QED
      BY <2>1, <2>2, <2>3
  <1>6. Distinct(r, S)
    <2> SUFFICES ASSUME NEW j \in 1..(n + 1), NEW k \in 1..(n + 1), r[j] \in S, r[k] = r[j]
                 PROVE  k = j
      BY <1>1, <1>2 DEF Distinct
    <2>1. CASE j \in 1..n /\ k \in 1..n
      BY <1>1, <1>2, <2>1 DEF Distinct
    <2>2. CASE j = n + 1 /\ k \in 1..n
      BY <1>1, <1>2, <1>3, <2>2
    <2>3. CASE k = n + 1 /\ j \in 1..n
      BY <1>1, <1>2, <1>3, <2>3
    <2> QED
      BY <1>4, <2>1, <2>2, <2>3
  <1> QED
    BY <1>1, <1>5, <1>6 DEF r

(* of two put together that share nothing,                                 *)
LEMMA ConcatElements ==
    ASSUME NEW T, NEW S, NEW a \in Seq(T), NEW b \in Seq(T), Distinct(a, S), Distinct(b, S),
           ToSet(a) \cap ToSet(b) \cap S = {}
    PROVE  /\ a \o b \in Seq(T) /\ ToSet(a \o b) = ToSet(a) \cup ToSet(b)
           /\ Distinct(a \o b, S)
  <1> DEFINE r == a \o b
  <1>1. PICK m \in Nat, n \in Nat : m = Len(a) /\ n = Len(b)
    OBVIOUS
  <1>2. /\ r \in Seq(T) /\ Len(r) = m + n
        /\ \A i \in 1..(m + n) : r[i] = IF i <= m THEN a[i] ELSE b[i - m]
    BY <1>1, ConcatProperties
  <1> HIDE DEF r
  <1>3. /\ \A x : x \in ToSet(a) <=> \E j \in 1..m : x = a[j]
        /\ \A x : x \in ToSet(b) <=> \E j \in 1..n : x = b[j]
        /\ \A x : x \in ToSet(r) <=> \E j \in 1..(m + n) : x = r[j]
    <2>1. \A x : x \in ToSet(a) <=> \E j \in 1..m : x = a[j]
      BY <1>1, Elements
    <2>2. \A x : x \in ToSet(b) <=> \E j \in 1..n : x = b[j]
      BY <1>1, Elements
    <2>3. \A x : x \in ToSet(r) <=> \E j \in 1..(m + n) : x = r[j]
      BY <1>2, Elements
    <2> QED
      BY <2>1, <2>2, <2>3
  <1>4. /\ \A j \in 1..m : j \in 1..(m + n) /\ r[j] = a[j]
        /\ \A j \in 1..n : m + j \in 1..(m + n) /\ r[m + j] = b[j]
        /\ \A i \in 1..(m + n) : \/ i \in 1..m /\ r[i] = a[i]
                                 \/ i > m /\ i - m \in 1..n /\ r[i] = b[i - m]
    BY <1>2
  <1>5. ToSet(r) = ToSet(a) \cup ToSet(b)
    <2>1. ASSUME NEW x \in ToSet(r) PROVE x \in ToSet(a) \cup ToSet(b)
      BY <1>3, <1>4
    <2>2. ASSUME NEW x \in ToSet(a) PROVE x \in ToSet(r)
      BY <1>3, <1>4
    <2>3. ASSUME NEW x \in ToSet(b) PROVE x \in ToSet(r)
      <3>1. PICK j \in 1..n : x = b[j]
        BY <1>3
      <3>2. m + j \in 1..(m + n) /\ x = r[m + j]
        BY <1>4, <3>1
      <3> QED
        BY <1>3, <3>2
    <2> QED
      BY <2>1, <2>2, <2>3
  <1>6. Distinct(r, S)
    <2> SUFFICES ASSUME NEW j \in 1..(m + n), NEW k \in 1..(m + n), r[j] \in S, r[k] = r[j]
                 PROVE  k = j
      BY <1>2 DEF Distinct
    <2>1. CASE j \in 1..m /\ k \in 1..m
      BY <1>1, <1>4, <2>1 DEF Distinct
    <2>2. CASE j > m /\ k > m
      <3>1. j - m \in 1..n /\ k - m \in 1..n /\ b[j - m] \in S /\ b[k - m] = b[j - m]
        BY <1>4, <2>2
      <3>2. k - m = j - m
        BY <1>1, <3>1 DEF Distinct
      <3> QED
        BY <3>2
    <2>3. CASE j > m /\ k \in 1..m
      <3>1. j - m \in 1..n /\ r[j] = b[j - m]
        BY <1>4, <2>3
      <3>2. r[k] = a[k]
        BY <1>4, <2>3
      <3>3. r[j] \in ToSet(b)
        BY <1>3, <3>1
      <3>4. r[k] \in ToSet(a)
        BY <1>3, <2>3, <3>2
      <3> QED
        BY <3>3, <3>4
    <2>4. CASE k > m /\ j \in 1..m
      <3>1. k - m \in 1..n /\ r[k] = b[k - m]
        BY <1>4, <2>4
      <3>2. r[j] = a[j]
        BY <1>4, <2>4
      <3>3. r[k] \in ToSet(b)
        BY <1>3, <3>1
      <3>4. r[j] \in ToSet(a)
        BY <1>3, <2>4, <3>2
      <3> QED
        BY <3>3, <3>4
    <2> QED
      BY <2>1, <2>2, <2>3, <2>4
  <1> QED
    BY <1>2, <1>5, <1>6 DEF r

(* of its first d and of those after its first n,                          *)
LEMMA CutElements ==
    ASSUME NEW T, NEW S, NEW s \in Seq(T), Distinct(s, S), NEW d \in Nat, NEW n \in Nat, d <= n, n <= Len(s)
    PROVE  LET a == SubSeq(s, 1, d)
               b == SubSeq(s, n + 1, Len(s))
           IN  /\ a \in Seq(T) /\ b \in Seq(T) /\ Distinct(a, S) /\ Distinct(b, S)
               /\ ToSet(a) \subseteq ToSet(s) /\ ToSet(b) \subseteq ToSet(s)
               /\ ToSet(a) \cap ToSet(b) \cap S = {}
  <1> DEFINE a == SubSeq(s, 1, d)
             b == SubSeq(s, n + 1, Len(s))
  <1>1. PICK m \in Nat : m = Len(s)
    OBVIOUS
  <1>2. a \in Seq(T) /\ Len(a) = d /\ \A j \in 1..d : a[j] = s[j]
    BY <1>1
  <1>3. b \in Seq(T) /\ Len(b) = m - n /\ \A j \in 1..(m - n) : b[j] = s[n + j]
    BY <1>1
  <1> HIDE DEF a, b
  <1>4. /\ \A x : x \in ToSet(s) <=> \E j \in 1..m : x = s[j]
        /\ \A x : x \in ToSet(a) <=> \E j \in 1..d : x = a[j]
        /\ \A x : x \in ToSet(b) <=> \E j \in 1..(m - n) : x = b[j]
    BY <1>1, <1>2, <1>3, Elements
  <1>5. \A j, k \in 1..m : s[j] \in S /\ s[k] = s[j] => k = j
    BY <1>1 DEF Distinct
  <1>6. /\ \A j \in 1..d : j \in 1..m
        /\ \A j \in 1..(m - n) : n + j \in 1..m
    BY <1>1
  <1>7. Distinct(a, S)
    BY <1>2, <1>5, <1>6 DEF Distinct
  <1>8. Distinct(b, S)
    <2> SUFFICES ASSUME NEW j \in 1..(m - n), NEW k \in 1..(m - n), b[j] \in S, b[k] = b[j]
                 PROVE  k = j
      BY <1>3 DEF Distinct
    <2>1. n + k = n + j
      BY <1>3, <1>5, <1>6
    <2> QED
      BY <2>1
  <1>9. ToSet(a) \subseteq ToSet(s) /\ ToSet(b) \subseteq ToSet(s)
    <2>1. ASSUME NEW x \in ToSet(a) PROVE x \in ToSet(s)
      BY <1>2, <1>4, <1>6
    <2>2. ASSUME NEW x \in ToSet(b) PROVE x \in ToSet(s)
      <3>1. PICK j \in 1..(m - n) : x = b[j]
        BY <1>4
      <3>2. n + j \in 1..m /\ x = s[n + j]
        BY <1>3, <1>6, <3>1
      <3> QED
        BY <1>4, <3>2
    <2> QED
      BY <2>1, <2>2
  <1>10. ASSUME NEW x \in S, x \in ToSet(a), x \in ToSet(b) PROVE FALSE
    <2>1. PICK j \in 1..d : x = a[j]
      BY <1>4, <1>10
    <2>2. PICK k \in 1..(m - n) : x = b[k]
      BY <1>4, <1>10
    <2>3. j \in 1..m /\ n + k \in 1..m /\ s[j] = x /\ s[n + k] = x
      BY <1>2, <1>3, <1>6, <2>1, <2>2
    <2>4. n + k = j
      BY <1>5, <1>10, <2>3
    <2> QED
      BY <2>1, <2>2, <2>4
  <1> QED
    BY <1>2, <1>3, <1>7, <1>8, <1>9, <1>10 DEF a, b

(* of none,                                                                *)
LEMMA EmptyElements == ToSet(<<>>) = {} /\ \A S : Distinct(<<>>, S)
  BY DEF ToSet, Distinct

(* and of one or two.                                                      *)
LEMMA FewElements ==
    ASSUME NEW S
    PROVE  /\ \A a : ToSet(<<a>>) \subseteq {a} /\ Distinct(<<a>>, S)
           /\ \A a, b : a # b => ToSet(<<a, b>>) \subseteq {a, b} /\ Distinct(<<a, b>>, S)
  <1>1. \A a : ToSet(<<a>>) \subseteq {a} /\ Distinct(<<a>>, S)
    BY DEF ToSet, Distinct
  <1>2. ASSUME NEW a, NEW b, a # b PROVE ToSet(<<a, b>>) \subseteq {a, b} /\ Distinct(<<a, b>>, S)
    <2>1. ToSet(<<a, b>>) \subseteq {a, b}
      BY DEF ToSet
    <2>2. Len(<<a, b>>) = 2 /\ <<a, b>>[1] = a /\ <<a, b>>[2] = b /\ \A j \in 1..2 : j = 1 \/ j = 2
      OBVIOUS
    <2>3. Distinct(<<a, b>>, S)
      BY <1>2, <2>2 DEF Distinct
    <2> QED
      BY <2>1, <2>3
  <1> QED
    BY <1>1, <1>2

(* Nothing that was written can be written again.                          *)
LEMMA UnwrittenShrinks ==
    ASSUME SoapInv, SoapTypes', Next
    PROVE  Unwritten' \subseteq Unwritten
  <1>0. SoapTypes /\ SoapTypes'
    BY DEF SoapInv
  <1>1. \/ pc = "idle" /\ pc' = "make" /\ cur' = cur + 1
        \/ /\ cur' = cur
           /\ pc' \in {"make", "check", "write"} => pc \in {"make", "check", "write"}
           /\ pc = "idle" => pc' = "idle"
    <2>1. CASE Begin \/ UseSocket \/ EmptyRequest \/ CheckOpen \/ WriteError \/ WriteRequest
      BY <2>1 DEF Begin, UseSocket, EmptyRequest, CheckOpen, WriteError, WriteRequest
    <2>2. CASE \E c \in {Fresh, None} : MakeSocket(c) \/ ResetSocket(c)
      BY <2>2 DEF MakeSocket, ResetSocket
    <2>3. CASE \/ ReadEnd \/ ReadNothing \/ SelectTimeout
               \/ \E k \in 1..MaxParts : ReadBeyond(k) \/ \E full \in BOOLEAN : ReadAnswer(k, full) \/ ReadMore(k, full)
      BY <2>3 DEF ReadEnd, ReadNothing, SelectTimeout, ReadBeyond, ReadAnswer, ReadMore, Got
    <2>4. CASE write_sock_func
      BY <2>4 DEF write_sock_func, ReplyToClient, ReplyToClosed
    <2>5. CASE Server \/ \E i \in Commands : ClientClose(i)
      BY <2>5 DEF Server, Serve, Drop, Arrive, ClientClose, world
    <2> QED
      BY <2>1, <2>2, <2>3, <2>4, <2>5 DEF Next, write_pipe_or_sock
  <1>2. PICK a \in Nat, b \in Nat : a = Sent /\ b = Ended
    BY <1>0 DEF SoapTypes, Sent, Ended
  <1>3. PICK c \in Nat, d \in Nat : c = Sent' /\ d = Ended' /\ a <= c /\ b <= d
    <2>1. /\ cur \in Nat /\ cur' \in Nat
          /\ pc # "idle" => cur > 0
          /\ pc' # "idle" => cur' > 0
      BY <1>0 DEF SoapTypes
    <2>2. /\ Sent' = IF pc' \in {"make", "check", "write"} THEN cur' - 1 ELSE cur'
          /\ Ended' = IF pc' = "idle" THEN cur' ELSE cur' - 1
      BY DEF Sent, Ended
    <2>3. CASE pc = "idle" /\ pc' = "make" /\ cur' = cur + 1
      <3>1. a = cur /\ b = cur /\ Sent' = cur' - 1 /\ Ended' = cur' - 1
        BY <1>2, <2>2, <2>3 DEF Sent, Ended
      <3>2. Sent' = cur /\ Ended' = cur
        BY <2>1, <2>3, <3>1
      <3>3. a = Sent' /\ b = Ended' /\ a <= a /\ b <= b
        BY <3>1, <3>2
      <3> QED
        BY <3>3
    <2>4. CASE /\ cur' = cur
               /\ pc' \in {"make", "check", "write"} => pc \in {"make", "check", "write"}
               /\ pc = "idle" => pc' = "idle"
      <3>1. Sent' \in Nat /\ a <= Sent'
        <4>1. CASE pc' \in {"make", "check", "write"}
          <5>1. Sent' = a
            BY <1>2, <2>2, <2>4, <4>1 DEF Sent
          <5> QED
            BY <5>1
        <4>2. CASE pc' \notin {"make", "check", "write"}
          <5>1. Sent' = cur
            BY <2>2, <2>4, <4>2
          <5>2. a <= cur
            BY <1>2, <2>1 DEF Sent
          <5> QED
            BY <2>1, <5>1, <5>2
        <4> QED
          BY <4>1, <4>2
      <3>2. Ended' \in Nat /\ b <= Ended'
        <4>1. CASE pc' = "idle"
          <5>1. Ended' = cur
            BY <2>2, <2>4, <4>1
          <5>2. b <= cur
            BY <1>2, <2>1 DEF Ended
          <5> QED
            BY <2>1, <5>1, <5>2
        <4>2. CASE pc' # "idle"
          <5>1. Ended' = b
            BY <1>2, <2>2, <2>4, <4>2 DEF Ended
          <5> QED
            BY <5>1
        <4> QED
          BY <4>1, <4>2
      <3> QED
        BY <3>1, <3>2
    <2> QED
      BY <1>1, <2>3, <2>4
  <1>4. \A x \in Wired : x.cmd \in Nat
    BY SoapAssumption DEF Wired, Commands
  <1>5. \A n \in Nat : (n > c => n > a) /\ (n > d => n > b)
    BY <1>3
  <1> QED
    BY <1>2, <1>3, <1>4, <1>5 DEF Unwritten

(* The parts of answers only move on: from what is to be made to what is   *)
(* under way (x), to what has arrived (y), to what is said (z), to what is *)
(* told (v), or away.  Then they are in one place after the step as well.  *)
LEMMA PartsMoved ==
    ASSUME PartsInv, NEW x, NEW y, NEW z, NEW v,
           x \subseteq Ahead, y \subseteq UnderWay, z \subseteq Arrived, v \subseteq Said,
           Ahead' \subseteq Ahead \ x,
           UnderWay' \subseteq (UnderWay \cup x) \ y,
           Arrived' \subseteq (Arrived \cup y) \ z,
           Said' \subseteq (Said \cup z) \ v,
           Told' \subseteq Told \cup v,
           (Unwritten \cap Unread)' = {},
           sock' # None => Single(sock)'
    PROVE  PartsInv'
  <1>1. ASSUME NEW h, NEW u, NEW a, NEW s, NEW t, Apart(h, u, a, s, t),
               x \subseteq h, y \subseteq u, z \subseteq a, v \subseteq s,
               NEW h2, NEW u2, NEW a2, NEW s2, NEW t2,
               h2 \subseteq h \ x, u2 \subseteq (u \cup x) \ y, a2 \subseteq (a \cup y) \ z,
               s2 \subseteq (s \cup z) \ v, t2 \subseteq t \cup v
        PROVE  Apart(h2, u2, a2, s2, t2)
    BY <1>1 DEF Apart
  <1>2. Apart(Ahead, UnderWay, Arrived, Said, Told)
    BY DEF PartsInv
  <1>3. Apart(Ahead', UnderWay', Arrived', Said', Told')
    BY <1>1, <1>2
  <1>4. Apart(Ahead, UnderWay, Arrived, Said, Told)'
    BY <1>3 DEF Apart
  <1> QED
    BY <1>4 DEF PartsInv

(* What is ahead, from what is still to be written and read.               *)
LEMMA AheadNext ==
    ASSUME (Unwritten \cup Unread)' \subseteq Unwritten \cup Unread
    PROVE  Ahead' \subseteq Ahead
  BY DEF Ahead

(* A step that leaves the connection alone or replaces it by an empty one. *)
LEMMA PartsKept ==
    ASSUME PartsInv, Unwritten' \subseteq Unwritten,
           sock' \in {sock, Fresh, None}, sock' = Fresh => Fresh # None,
           \/ say' \in {say, None, ErrorMessage} /\ reply' = reply
           \/ say' = None /\ Told' \subseteq Told \cup Said
    PROVE  PartsInv'
  <1>1. ErrorMessage \cap AnswerPart = {}
    BY DEF ErrorMessage, AnswerPart, Wired, Part
  <1>2. ErrorMessage # None
    BY NoneAssumption
  <1>3. /\ Unread' \subseteq Unread /\ UnderWay' \subseteq UnderWay /\ Arrived' \subseteq Arrived
        /\ sock' # None => Single(sock)'
    <2>1. CASE sock' = sock
      BY <2>1 DEF PartsInv, Unread, UnderWay, Arrived, Single
    <2>2. CASE sock' = None
      BY <2>2 DEF Unread, UnderWay, Arrived
    <2>3. CASE sock' = Fresh
      <3>1. sock'.up = <<>> /\ sock'.air = <<>> /\ sock'.down = <<>> /\ sock' # None
        BY <2>3 DEF Fresh
      <3> QED
        BY <3>1, EmptyElements DEF Unread, UnderWay, Arrived, Single
    <2> QED
      BY <2>1, <2>2, <2>3
  <1>4. Ahead' \subseteq Ahead /\ (Unwritten \cap Unread)' = {}
    BY <1>3, AheadNext DEF PartsInv
  <1>5. PICK v \in SUBSET Said : Said' \subseteq Said \ v /\ Told' \subseteq Told \cup v
    <2>1. CASE say' \in {say, None, ErrorMessage} /\ reply' = reply
      <3>1. Said' \subseteq Said /\ Told' = Told
        BY <1>1, <1>2, <2>1 DEF Said, Told
      <3> QED
        BY <3>1
    <2>2. CASE say' = None /\ Told' \subseteq Told \cup Said
      <3>1. Said' = {}
        BY <2>2 DEF Said
      <3> QED
        BY <2>2, <3>1
    <2> QED
      BY <2>1, <2>2
  <1> QED
    BY <1>3, <1>4, <1>5, PartsMoved

(* The steps of the thread that leave its socket alone, and making one.    *)
LEMMA PartsQuiet ==
    ASSUME SoapInv, SayInv, PartsInv, Unwritten' \subseteq Unwritten,
           \/ Begin \/ UseSocket \/ EmptyRequest \/ CheckOpen \/ WriteError
           \/ ReadEnd \/ ReadNothing \/ SelectTimeout \/ ReplyToClient
           \/ \E c \in {Fresh, None} : MakeSocket(c) \/ ResetSocket(c)
           \/ \E i \in Commands : ClientClose(i)
    PROVE  PartsInv'
  <1>0. SoapTypes /\ Fresh # None
    BY FreshType DEF SoapInv
  <1>1. CASE ReplyToClient
    <2>1. sock' = sock /\ say' = None /\ reply' = [reply EXCEPT ![cur] = say] /\ pc = "reply"
      BY <1>1 DEF ReplyToClient
    <2>2. say # None /\ cur \in Commands
      BY <1>0, <2>1, SoapAssumption DEF SoapTypes, Commands
    <2>3. \A i \in Commands : reply'[i] = reply[i] \/ reply'[i] = say
      BY <2>1, <2>2 DEF SayInv
    <2>4. Told' \subseteq Told \cup Said
      BY <2>2, <2>3 DEF Told, Said
    <2> QED
      BY <1>0, <2>1, <2>4, PartsKept
  <1>2. CASE Begin \/ UseSocket \/ EmptyRequest \/ CheckOpen \/ WriteError \/ ReadEnd \/ ReadNothing \/ SelectTimeout
    <2>1. sock' = sock /\ reply' = reply
      BY <1>2 DEF Begin, UseSocket, EmptyRequest, CheckOpen, WriteError, ReadEnd, ReadNothing, SelectTimeout
    <2>2. say' \in {say, None, ErrorMessage}
      BY <1>2 DEF Begin, UseSocket, EmptyRequest, CheckOpen, WriteError, ReadEnd, Got, ReadNothing, SelectTimeout
    <2> QED
      BY <1>0, <2>1, <2>2, PartsKept
  <1>3. CASE \E c \in {Fresh, None} : MakeSocket(c) \/ ResetSocket(c)
    <2>1. sock' \in {Fresh, None} /\ reply' = reply /\ say' \in {say, ErrorMessage}
      BY <1>3 DEF MakeSocket, ResetSocket
    <2> QED
      BY <1>0, <2>1, PartsKept
  <1>4. CASE \E i \in Commands : ClientClose(i)
    <2>1. sock' = sock /\ reply' = reply /\ say' = say
      BY <1>4 DEF ClientClose
    <2> QED
      BY <1>0, <2>1, PartsKept
  <1> QED
    BY <1>1, <1>2, <1>3, <1>4

(* One thing is written, or lost.                                          *)
LEMMA PartsWritten ==
    ASSUME PartsInv, Unwritten' \subseteq Unwritten, NEW x, x \in Unwritten, x \notin Unwritten',
           Unread' \subseteq Unread \cup {x}, UnderWay' \subseteq UnderWay, Arrived' \subseteq Arrived,
           \/ UNCHANGED <<say, reply>>
           \/ Said' \subseteq Said /\ Told' = Told,
           Single(sock)'
    PROVE  PartsInv'
  <1>1. Said' \subseteq Said /\ Told' = Told
    BY DEF Said, Told
  <1>2. Ahead' \subseteq Ahead /\ (Unwritten \cap Unread)' = {}
    BY AheadNext DEF PartsInv
  <1> QED
    BY <1>1, <1>2, PartsMoved

(* The request in hand is written once: it was not written before and will *)
(* not be again.                                                           *)
LEMMA PartsWrite ==
    ASSUME SoapInv, SoapTypes', PartsInv, Unwritten' \subseteq Unwritten, WriteRequest
    PROVE  PartsInv'
  <1> DEFINE x == Request(cur)
  <1>1. /\ pc = "write" /\ pc' = "select" /\ sock' = Written(sock, x) /\ sock # None
        /\ UNCHANGED <<cur, say, reply>>
    BY DEF WriteRequest, SoapInv, SoapTypes
  <1>2. sock \in Connection /\ cur \in Commands /\ cur \in Nat
    BY <1>1, SoapAssumption DEF SoapInv, SoapTypes, Commands
  <1>3. x \in Wired /\ x.kind = "request" /\ x.cmd = cur
    BY <1>2 DEF Request, Wired
  <1>4. x \in Unwritten /\ x \notin Unwritten'
    <2>1. Sent = cur - 1 /\ Sent' = cur
      BY <1>1 DEF Sent
    <2> QED
      BY <1>2, <1>3, <2>1 DEF Unwritten
  <1>5. /\ sock.up \in Seq(Wired) /\ sock.air \in Seq(AnswerPart \cup {FIN, RST})
        /\ Distinct(sock.up, Wired) /\ Distinct(sock.air, AnswerPart) /\ Distinct(sock.down, AnswerPart)
        /\ Unwritten \cap ToSet(sock.up) = {} /\ Unread = ToSet(sock.up)
    BY <1>1, <1>2, Fields DEF PartsInv, Single, Unread
  <1> HIDE DEF x
  <1>6. CASE sock.srv = "open"
    <2>1. sock' = [sock EXCEPT !.up = Append(sock.up, x)]
      BY <1>1, <1>6 DEF Written
    <2>2. sock'.up = Append(sock.up, x) /\ sock'.air = sock.air /\ sock'.down = sock.down
      BY <1>2, <2>1 DEF Connection
    <2>3. ToSet(sock'.up) = ToSet(sock.up) \cup {x} /\ Distinct(sock'.up, Wired)
      BY <1>3, <1>4, <1>5, <2>2, AppendElements
    <2>4. Unread' \subseteq Unread \cup {x}
      BY <1>5, <2>3 DEF Unread
    <2>5. UnderWay' \subseteq UnderWay /\ Arrived' \subseteq Arrived /\ Single(sock)'
      BY <1>1, <1>5, <2>2, <2>3 DEF UnderWay, Arrived, Single
    <2> QED
      BY <1>1, <1>4, <1>5, <2>4, <2>5, PartsWritten
  <1>7. CASE sock.srv # "open"
    <2>1. sock' = [sock EXCEPT !.air = Append(sock.air, RST)]
      BY <1>1, <1>7 DEF Written
    <2>2. sock'.up = sock.up /\ sock'.air = Append(sock.air, RST) /\ sock'.down = sock.down
      BY <1>2, <2>1 DEF Connection
    <2>3. ToSet(sock'.air) = ToSet(sock.air) \cup {RST} /\ Distinct(sock'.air, AnswerPart)
      BY <1>5, <2>2, AppendElements, WireTypes
    <2>4. Unread' \subseteq Unread
      BY <1>5, <2>2 DEF Unread
    <2>5. UnderWay' \subseteq UnderWay /\ Arrived' \subseteq Arrived /\ Single(sock)'
      BY <1>1, <1>5, <2>2, <2>3, WireTypes DEF UnderWay, Arrived, Single
    <2> QED
      BY <1>1, <1>4, <1>5, <2>4, <2>5, PartsWritten
  <1> QED
    BY <1>6, <1>7

(* The reply to a client that has closed goes to the server, on a new      *)
(* connection.                                                             *)
LEMMA PartsReplyToClosed ==
    ASSUME SoapInv, SoapTypes', PartsInv, Unwritten' \subseteq Unwritten,
           NEW c \in {Fresh, None}, ReplyToClosed(c)
    PROVE  PartsInv'
  <1> DEFINE x == Reply(cur)
             d == Written(Fresh, x)
  <1>1. /\ pc = "reply" /\ pc' = "idle" /\ say' = None /\ sock' = IF c = None THEN None ELSE d
        /\ UNCHANGED <<cur, reply>>
    BY DEF ReplyToClosed
  <1>2. CASE c = None
    <2>1. sock' = None
      BY <1>1, <1>2
    <2> QED
      BY <1>1, <2>1, FreshType, PartsKept
  <1>3. CASE c # None
    <2>1. cur \in Commands /\ cur \in Nat
      BY <1>1, SoapAssumption DEF SoapInv, SoapTypes, Commands
    <2>2. x \in Wired /\ x.kind = "reply" /\ x.cmd = cur
      BY <2>1 DEF Reply, Wired
    <2>3. x \in Unwritten /\ x \notin Unwritten'
      <3>1. Ended = cur - 1 /\ Ended' = cur
        BY <1>1 DEF Ended
      <3> QED
        BY <2>1, <2>2, <3>1 DEF Unwritten
    <2> HIDE DEF x
    <2>4. /\ d.up = Append(<<>>, x) /\ d.air = <<>> /\ d.down = <<>>
      BY DEF Written, Fresh
    <2>5. d # None
      BY <2>2, FreshType, WrittenType, NoneAssumption
    <2>6. sock' = d
      BY <1>1, <1>3
    <2> HIDE DEF d
    <2>7. ToSet(d.up) = {x} /\ Distinct(d.up, Wired)
      <3> DEFINE none == <<>>
      <3>1. none \in Seq(Wired) /\ Distinct(none, Wired) /\ ToSet(none) = {}
        BY EmptyElements
      <3>2. d.up = Append(none, x)
        BY <2>4
      <3> HIDE DEF none
      <3>3. ToSet(Append(none, x)) = ToSet(none) \cup {x} /\ Distinct(Append(none, x), Wired)
        BY <2>2, <3>1, AppendElements
      <3> QED
        BY <3>1, <3>2, <3>3
    <2>8. Unread' \subseteq Unread \cup {x}
      BY <2>6, <2>7 DEF Unread
    <2>9. UnderWay' \subseteq UnderWay /\ Arrived' \subseteq Arrived /\ Single(sock)'
      BY <2>4, <2>5, <2>6, <2>7, EmptyElements DEF UnderWay, Arrived, Single
    <2>10. Said' \subseteq Said /\ Told' = Told
      BY <1>1 DEF Said, Told
    <2> QED
      BY <2>3, <2>8, <2>9, <2>10, PartsWritten
  <1> QED
    BY <1>2, <1>3

(* A read takes the parts it says from those that have arrived.            *)
LEMMA PartsRead ==
    ASSUME SoapInv, SoapTypes', PartsInv, Unwritten' \subseteq Unwritten, NEW k, NEW full \in BOOLEAN,
           ReadAnswer(k, full) \/ ReadMore(k, full) \/ ReadBeyond(k)
    PROVE  PartsInv'
  <1> DEFINE down == sock.down
             got == ToSet(SubSeq(down, 1, k))
             rest == SubSeq(down, k + 1, Len(down))
  <1>1. UNCHANGED reply /\ pc \in {"select", "more"} /\ (Read(k, full) \/ Read(k, TRUE))
    BY DEF ReadAnswer, ReadMore, ReadBeyond
  <1>2. sock \in Connection /\ sock # None /\ Single(sock) /\ Unwritten \cap Unread = {}
    BY <1>1 DEF SoapInv, SoapTypes, PartsInv
  <1>3. k \in 1..Len(down) /\ sock' = [sock EXCEPT !.down = rest]
    BY <1>1 DEF Read
  <1>4. down \in Seq(AnswerPart) /\ Distinct(down, AnswerPart)
    BY <1>2, Fields DEF Single
  <1>5. /\ rest \in Seq(AnswerPart) /\ Distinct(rest, AnswerPart)
        /\ got \subseteq ToSet(down) /\ ToSet(rest) \subseteq ToSet(down) /\ got \cap ToSet(rest) = {}
        /\ got \subseteq AnswerPart
    <2>1. k \in Nat /\ k <= Len(down) /\ k <= k
      BY <1>3, <1>4
    <2>2. ToSet(down) \subseteq AnswerPart
      BY <1>4, Elements
    <2>3. /\ rest \in Seq(AnswerPart) /\ Distinct(rest, AnswerPart)
          /\ got \subseteq ToSet(down) /\ ToSet(rest) \subseteq ToSet(down) /\ got \cap ToSet(rest) \cap AnswerPart = {}
      BY <1>4, <2>1, CutElements
    <2> HIDE DEF got, rest, down
    <2> QED
      BY <2>2, <2>3
  <1>6. say' = None \/ say' = got \/ (say' = say /\ say # None) \/ (say' = say \cup got /\ say # None)
    <2>1. pc = "more" => say # None
      BY DEF SoapInv, SoapTypes
    <2> QED
      BY <2>1 DEF ReadAnswer, ReadMore, ReadBeyond, Got
  <1> HIDE DEF got, rest
  <1>7. sock'.up = sock.up /\ sock'.air = sock.air /\ sock'.down = rest
    BY <1>2, <1>3 DEF Connection
  <1>8. sock' # None
    BY <1>1, <1>2, ReadType, NoneAssumption
  <1>9. Unread' = Unread /\ UnderWay' = UnderWay /\ Single(sock)'
    BY <1>2, <1>5, <1>7, <1>8 DEF Unread, UnderWay, Single
  <1>10. Arrived = ToSet(down) /\ Arrived' = ToSet(rest)
    BY <1>2, <1>7, <1>8 DEF Arrived
  <1>11. Said' \subseteq Said \cup got
    BY <1>5, <1>6 DEF Said
  <1>12. Told' = Told
    BY <1>1 DEF Told
  <1>13. Ahead' \subseteq Ahead /\ (Unwritten \cap Unread)' = {}
    BY <1>2, <1>9, AheadNext
  <1>14. Arrived' \subseteq (Arrived \cup {}) \ got /\ got \subseteq Arrived
    BY <1>5, <1>10
  <1> QED
    BY <1>9, <1>11, <1>12, <1>13, <1>14, PartsMoved

(* The server makes the parts of one answer, of what it reads first.       *)
LEMMA PartsServe ==
    ASSUME SoapInv, SoapTypes', PartsInv, Unwritten' \subseteq Unwritten,
           NEW split \in BOOLEAN, NEW close \in BOOLEAN, Serve(split, close)
    PROVE  PartsInv'
  <1> DEFINE up == sock.up
             air == sock.air
             x == Head(up)
             said == IF split THEN <<Part(x, "head"), Part(x, "tail")>> ELSE <<Part(x, "all")>>
             end == IF close THEN <<FIN>> ELSE <<>>
             all == AnswerPart \cup {FIN, RST}
             made == {p \in AnswerPart : p.of = x}
  <1>1. sock # None /\ sock.srv = "open" /\ up # <<>> /\ UNCHANGED <<say, reply>>
    BY DEF Serve
  <1>2. sock \in Connection /\ Single(sock) /\ Unwritten \cap Unread = {}
    BY <1>1 DEF SoapInv, SoapTypes, PartsInv
  <1>3. /\ up \in Seq(Wired) /\ air \in Seq(all) /\ Distinct(up, Wired) /\ Distinct(air, AnswerPart)
        /\ Distinct(sock.down, AnswerPart)
    BY <1>2, Fields DEF Single
  <1>4. x \in Wired /\ x \in ToSet(up)
    <2> HIDE DEF up
    <2>1. Head(up) \in Wired /\ Head(up) = up[1] /\ 1 \in 1..Len(up)
      BY <1>1, <1>3
    <2> QED
      BY <1>3, <2>1, Elements
  <1>5. /\ Tail(up) \in Seq(Wired) /\ Distinct(Tail(up), Wired)
        /\ ToSet(Tail(up)) \subseteq ToSet(up) \ {x}
    <2> HIDE DEF up
    <2>1. PICK n \in Nat : n = Len(up)
      BY <1>3
    <2>2. n >= 1 /\ Tail(up) \in Seq(Wired) /\ Len(Tail(up)) = n - 1 /\ \A j \in 1..(n - 1) : Tail(up)[j] = up[j + 1]
      BY <1>1, <1>3, <2>1, HeadTailProperties
    <2> DEFINE t == Tail(up)
    <2> HIDE DEF t
    <2>3. \A j, k \in 1..n : up[k] = up[j] => k = j
      <3>1. \A j \in 1..n : up[j] \in Wired
        BY <1>3, <2>1, ElementOfSeq
      <3> QED
        BY <1>3, <2>1, <3>1 DEF Distinct
    <2>4. \A j \in 1..(n - 1) : j + 1 \in 1..n /\ j + 1 # 1 /\ t[j] = up[j + 1]
      BY <2>2 DEF t
    <2>5. Distinct(t, Wired)
      <3> SUFFICES ASSUME NEW j \in 1..(n - 1), NEW k \in 1..(n - 1), t[k] = t[j] PROVE k = j
        BY <2>2 DEF Distinct, t
      <3>1. k + 1 = j + 1
        BY <2>3, <2>4
      <3> QED
        BY <3>1
    <2>6. ASSUME NEW e \in ToSet(t) PROVE e \in ToSet(up) /\ e # x
      <3>1. PICK j \in 1..(n - 1) : e = t[j]
        <4>1. t \in Seq(Wired) /\ Len(t) = n - 1
          BY <2>2 DEF t
        <4> QED
          BY <2>6, <4>1, Elements
      <3>2. j + 1 \in 1..n /\ e = up[j + 1]
        BY <2>4, <3>1
      <3>3. e \in ToSet(up)
        BY <1>3, <2>1, <3>2, Elements
      <3>4. x = up[1] /\ 1 \in 1..n
        BY <1>1, <1>3, <2>1, <2>2
      <3> QED
        BY <2>3, <2>4, <3>2, <3>3, <3>4
    <2> QED
      BY <2>2, <2>5, <2>6 DEF t
  <1>6. /\ said \in Seq(all) /\ ToSet(said) \subseteq made /\ Distinct(said, AnswerPart)
    <2> DEFINE h == Part(x, "head")
               t == Part(x, "tail")
               w == Part(x, "all")
    <2>1. h \in made /\ t \in made /\ w \in made /\ h # t
      BY <1>4, WireTypes DEF Part
    <2>2. said = (IF split THEN <<h, t>> ELSE <<w>>) /\ made \subseteq all
      OBVIOUS
    <2> HIDE DEF h, t, w, made, said, all
    <2>3. <<h, t>> \in Seq(all) /\ <<w>> \in Seq(all)
      <3>1. h \in all /\ t \in all /\ w \in all
        BY <2>1, <2>2
      <3> QED
        BY <3>1
    <2>4. CASE split
      <3>1. said = <<h, t>>
        BY <2>2, <2>4
      <3>2. ToSet(<<h, t>>) \subseteq {h, t} /\ Distinct(<<h, t>>, AnswerPart)
        BY <2>1, FewElements
      <3> QED
        BY <2>1, <2>3, <3>1, <3>2
    <2>5. CASE ~split
      <3>1. said = <<w>>
        BY <2>2, <2>5
      <3>2. ToSet(<<w>>) \subseteq {w} /\ Distinct(<<w>>, AnswerPart)
        BY FewElements
      <3> QED
        BY <2>1, <2>3, <3>1, <3>2
    <2> QED
      BY <2>4, <2>5
  <1>7. end \in Seq(all) /\ ToSet(end) \subseteq {FIN} /\ Distinct(end, AnswerPart)
    <2>1. CASE close
      BY <2>1, FewElements
    <2>2. CASE ~close
      <3>1. end = <<>>
        BY <2>2
      <3> QED
        BY <3>1, EmptyElements
    <2> QED
      BY <2>1, <2>2
  <1>8. made \subseteq Ahead
    BY <1>1, <1>4 DEF Ahead, Unread
  <1>9. ToSet(air) \cap made = {}
    <2>1. UnderWay \cap Ahead = {} /\ UnderWay = ToSet(air) \cap AnswerPart
      BY <1>1 DEF PartsInv, Apart, UnderWay
    <2> HIDE DEF air
    <2> QED
      BY <1>8, <2>1
  <1> DEFINE out == air \o said \o end
  <1>10. sock' = [sock EXCEPT !.up = IF close THEN <<>> ELSE Tail(up), !.air = out,
                              !.srv = IF close THEN "closed" ELSE "open"]
    BY <1>1 DEF Serve
  <1>11. /\ sock'.up = (IF close THEN <<>> ELSE Tail(up)) /\ sock'.air = out /\ sock'.down = sock.down
    <2> HIDE DEF out, up
    <2> QED
      BY <1>2, <1>10 DEF Connection
  <1> HIDE DEF said, end, all, made, air
  <1>12. ToSet(out) \subseteq ToSet(air) \cup made \cup {FIN} /\ Distinct(out, AnswerPart)
    <2>1. /\ air \o said \in Seq(all) /\ ToSet(air \o said) = ToSet(air) \cup ToSet(said)
          /\ Distinct(air \o said, AnswerPart)
      <3>1. ToSet(air) \cap ToSet(said) \cap AnswerPart = {}
        BY <1>6, <1>9
      <3> QED
        BY <1>3, <1>6, <3>1, ConcatElements
    <2> DEFINE both == air \o said
    <2> HIDE DEF both
    <2>2. both \in Seq(all) /\ ToSet(both) = ToSet(air) \cup ToSet(said) /\ Distinct(both, AnswerPart)
      BY <2>1 DEF both
    <2>3. ToSet(both) \cap ToSet(end) \cap AnswerPart = {}
      BY <1>7, WireTypes
    <2>4. ToSet(both \o end) = ToSet(both) \cup ToSet(end) /\ Distinct(both \o end, AnswerPart)
      BY <1>7, <2>2, <2>3, ConcatElements
    <2> QED
      BY <1>6, <1>7, <2>2, <2>4 DEF both
  <1> HIDE DEF out
  <1>13. sock' # None
    BY <1>2, ServeType, NoneAssumption
  <1>14. Unread' \subseteq Unread \ {x} /\ Distinct(sock'.up, Wired)
    BY <1>1, <1>5, <1>11, <1>13, EmptyElements DEF Unread
  <1>15. UnderWay' \subseteq UnderWay \cup made
    BY <1>1, <1>11, <1>12, <1>13, WireTypes DEF UnderWay, air
  <1>16. Arrived' = Arrived /\ Single(sock)' /\ Said' = Said /\ Told' = Told
    BY <1>1, <1>3, <1>11, <1>12, <1>13, <1>14 DEF Arrived, Single, Said, Told
  <1>17. Ahead' \subseteq Ahead \ made /\ (Unwritten \cap Unread)' = {}
    <2>1. x \in Unread
      BY <1>1, <1>4 DEF Unread
    <2>2. x \notin Unwritten' /\ x \notin Unread'
      BY <1>2, <1>14, <2>1
    <2> HIDE DEF x
    <2> QED
      BY <1>2, <1>14, <2>2 DEF Ahead, made
  <1> QED
    BY <1>8, <1>15, <1>16, <1>17, PartsMoved

(* A connection dropped loses what the server had not read.                *)
LEMMA PartsDrop ==
    ASSUME SoapInv, PartsInv, Unwritten' \subseteq Unwritten, Drop
    PROVE  PartsInv'
  <1> DEFINE all == AnswerPart \cup {FIN, RST}
             end == IF sock.up = <<>> THEN FIN ELSE RST
  <1>1. /\ sock # None /\ UNCHANGED <<say, reply>>
        /\ sock' = [sock EXCEPT !.srv = "closed", !.up = <<>>, !.air = Append(sock.air, end)]
    BY DEF Drop
  <1>2. sock \in Connection /\ Single(sock)
    BY <1>1 DEF SoapInv, SoapTypes, PartsInv
  <1>3. sock.air \in Seq(all) /\ Distinct(sock.air, AnswerPart) /\ Distinct(sock.down, AnswerPart)
    BY <1>2, Fields DEF Single
  <1>4. end \in all /\ end \notin AnswerPart
    BY WireTypes
  <1> HIDE DEF end, all
  <1>5. ToSet(Append(sock.air, end)) = ToSet(sock.air) \cup {end} /\ Distinct(Append(sock.air, end), AnswerPart)
    BY <1>3, <1>4, AppendElements
  <1>6. sock'.up = <<>> /\ sock'.air = Append(sock.air, end) /\ sock'.down = sock.down
    BY <1>1, <1>2 DEF Connection
  <1>7. sock' # None
    BY <1>2, DropType, NoneAssumption
  <1>8. Unread' = {} /\ Arrived' = Arrived /\ UnderWay' = UnderWay /\ Said' = Said /\ Told' = Told
    BY <1>1, <1>4, <1>5, <1>6, <1>7, EmptyElements DEF Unread, Arrived, UnderWay, Said, Told
  <1>9. Single(sock)'
    BY <1>3, <1>5, <1>6, EmptyElements DEF Single
  <1>10. Ahead' \subseteq Ahead /\ (Unwritten \cap Unread)' = {}
    BY <1>8, AheadNext
  <1> QED
    BY <1>8, <1>9, <1>10, PartsMoved

(* What arrives is no longer under way.                                    *)
LEMMA PartsArrive ==
    ASSUME SoapInv, PartsInv, Unwritten' \subseteq Unwritten, NEW n, Arrive(n)
    PROVE  PartsInv'
  <1> DEFINE all == AnswerPart \cup {FIN, RST}
             air == sock.air
             down == sock.down
             rest == SubSeq(air, n + 1, Len(air))
  <1>1. sock # None /\ n \in 1..Len(air) /\ UNCHANGED <<say, reply>>
    BY DEF Arrive
  <1>2. sock \in Connection /\ Single(sock) /\ Unwritten \cap Unread = {}
    BY <1>1 DEF SoapInv, SoapTypes, PartsInv
  <1>3. /\ air \in Seq(all) /\ Distinct(air, AnswerPart) /\ down \in Seq(AnswerPart) /\ Distinct(down, AnswerPart)
        /\ Distinct(sock.up, Wired)
    BY <1>2, Fields DEF Single
  <1>4. PICK d \in 0..n :
          /\ \A k \in 1..n : k <= d <=> air[k] \notin {FIN, RST}
          /\ sock' = [sock EXCEPT
               !.air = rest,
               !.down = @ \o SubSeq(air, 1, d),
               !.fin = @ \/ \E k \in 1..n : air[k] = FIN,
               !.rst = @ \/ \E k \in 1..n : air[k] = RST]
    BY DEF Arrive
  <1> DEFINE data == SubSeq(air, 1, d)
  <1>5. sock'.up = sock.up /\ sock'.air = rest /\ sock'.down = down \o data
    <2> HIDE DEF rest, data
    <2> QED
      BY <1>2, <1>4 DEF Connection, data
  <1>6. /\ data \in Seq(all) /\ Distinct(data, AnswerPart) /\ Distinct(rest, AnswerPart)
        /\ ToSet(data) \subseteq ToSet(air) /\ ToSet(rest) \subseteq ToSet(air)
        /\ ToSet(data) \cap ToSet(rest) \cap AnswerPart = {}
    <2>1. n \in Nat /\ n <= Len(air) /\ d \in Nat /\ d <= n
      BY <1>1, <1>3
    <2> HIDE DEF all, air
    <2> QED
      BY <1>3, <2>1, CutElements
  <1>7. data \in Seq(AnswerPart)
    <2>1. Len(data) = d /\ \A k \in 1..d : data[k] = air[k]
      BY <1>1, <1>3
    <2>2. \A k \in 1..d : data[k] \in AnswerPart
      BY <1>1, <1>3, <1>4, <2>1
    <2> HIDE DEF data
    <2> QED
      BY <1>6, <2>1, <2>2, IsASeq
  <1> HIDE DEF data, rest, air, down, all
  <1>8. ToSet(data) \subseteq UnderWay
    <2>1. ToSet(data) \subseteq AnswerPart
      BY <1>7, Elements
    <2> QED
      BY <1>1, <1>6, <2>1 DEF UnderWay, air
  <1>9. ToSet(down \o data) = ToSet(down) \cup ToSet(data) /\ Distinct(down \o data, AnswerPart)
    <2>1. UnderWay \cap Arrived = {} /\ Arrived = ToSet(down)
      BY <1>1 DEF PartsInv, Apart, Arrived, down
    <2>2. ToSet(down) \cap ToSet(data) \cap AnswerPart = {}
      BY <1>8, <2>1
    <2> QED
      BY <1>3, <1>6, <1>7, <2>2, ConcatElements
  <1>10. sock' # None
    BY <1>2, ArriveType, NoneAssumption
  <1>11. /\ Unread' = Unread /\ Said' = Said /\ Told' = Told
         /\ Arrived' = Arrived \cup ToSet(data)
         /\ UnderWay' \subseteq UnderWay \ ToSet(data)
    <2>1. Unread' = Unread /\ Said' = Said /\ Told' = Told
      BY <1>1, <1>5, <1>10 DEF Unread, Said, Told
    <2>2. Arrived' = Arrived \cup ToSet(data)
      BY <1>1, <1>5, <1>9, <1>10 DEF Arrived, down
    <2>3. UnderWay' = ToSet(rest) \cap AnswerPart /\ UnderWay = ToSet(air) \cap AnswerPart
      BY <1>1, <1>5, <1>10 DEF UnderWay, air
    <2>4. UnderWay' \subseteq UnderWay \ ToSet(data)
      BY <1>6, <2>3
    <2> QED
      BY <2>1, <2>2, <2>4
  <1>12. Single(sock)'
    BY <1>3, <1>5, <1>6, <1>9 DEF Single
  <1>13. Ahead' \subseteq Ahead /\ (Unwritten \cap Unread)' = {}
    BY <1>2, <1>11, AheadNext
  <1> DEFINE none == {}
  <1>14. /\ Ahead' \subseteq Ahead \ none /\ UnderWay' \subseteq (UnderWay \cup none) \ ToSet(data)
         /\ Arrived' \subseteq (Arrived \cup ToSet(data)) \ none
         /\ Said' \subseteq (Said \cup none) \ none /\ Told' \subseteq Told \cup none
         /\ none \subseteq Ahead /\ none \subseteq Arrived /\ none \subseteq Said
    BY <1>11, <1>13
  <1> HIDE DEF none
  <1> QED
    BY <1>8, <1>12, <1>13, <1>14, PartsMoved

(* Every step keeps each part in one place.                                *)
LEMMA PartsNext ==
    ASSUME SoapInv, SoapTypes', SayInv, PartsInv, Next
    PROVE  PartsInv'
  <1>1. Unwritten' \subseteq Unwritten
    BY UnwrittenShrinks
  <1>2. CASE write_pipe_or_sock
    BY <1>1, <1>2, PartsQuiet, PartsWrite, PartsRead DEF write_pipe_or_sock
  <1>3. CASE write_sock_func
    BY <1>1, <1>3, PartsQuiet, PartsReplyToClosed DEF write_sock_func
  <1>4. CASE Server \/ \E i \in Commands : ClientClose(i)
    BY <1>1, <1>4, PartsQuiet, PartsServe, PartsDrop, PartsArrive DEF Server
  <1> QED
    BY <1>2, <1>3, <1>4 DEF Next

-----------------------------------------------------------------------------
(* What is said                                                            *)

(* Every step that has something to say has it for a client that waits, or *)
(* says that the server was not reached.                                   *)
LEMMA SayNext ==
    ASSUME SoapInv, SayInv, Next
    PROVE  SayInv'
  <1>0. SoapTypes
    BY DEF SoapInv
  <1>1. None # {} /\ ErrorMessage # {}
    BY NoneAssumption DEF ErrorMessage
  <1>2. CASE Begin \/ UseSocket \/ EmptyRequest \/ CheckOpen \/ WriteError \/ WriteRequest \/ ReadNothing \/ SelectTimeout
    BY <1>1, <1>2
    DEF SayInv, world, Begin, UseSocket, EmptyRequest, CheckOpen, WriteError, WriteRequest, ReadNothing, SelectTimeout
  <1>3. CASE \E c \in {Fresh, None} : MakeSocket(c) \/ ResetSocket(c)
    <2>1. /\ UNCHANGED <<mode, cur, reply>> /\ say' \in {say, ErrorMessage}
          /\ pc' = "reply" => say' = ErrorMessage
      BY <1>3, FreshType DEF MakeSocket, ResetSocket
    <2> QED
      BY <1>1, <2>1 DEF SayInv
  <1>4. ASSUME NEW parts, NEW full, Got(parts, full), UNCHANGED <<mode, cur, reply>>, parts # {}
        PROVE  SayInv'
    <2>1. say' # {} /\ (pc' = "reply" => cur \in mode.needRsp)
      BY <1>1, <1>4 DEF Got
    <2> QED
      BY <1>4, <2>1 DEF SayInv
  <1>5. CASE ReadEnd
    <2>1. Got(say, FALSE) /\ UNCHANGED <<mode, cur, reply>> /\ say # {}
      BY <1>5 DEF ReadEnd, world, SayInv
    <2> QED
      BY <1>4, <2>1
  <1>6. ASSUME NEW k, NEW full \in BOOLEAN, ReadAnswer(k, full) \/ ReadMore(k, full) \/ ReadBeyond(k)
        PROVE  SayInv'
    <2> DEFINE got == ToSet(SubSeq(sock.down, 1, k))
    <2>1. got # {}
      <3>1. sock \in Connection /\ (Read(k, full) \/ Read(k, TRUE))
        BY <1>0, <1>6 DEF SoapTypes, ReadAnswer, ReadMore, ReadBeyond
      <3> QED
        BY <3>1, ReadType
    <2>2. UNCHANGED <<mode, cur, reply>>
      BY <1>6 DEF ReadAnswer, ReadMore, ReadBeyond, world
    <2>3. \E parts \in {got, say \cup got, say}, f \in BOOLEAN : Got(parts, f)
      BY <1>6 DEF ReadAnswer, ReadMore, ReadBeyond
    <2> HIDE DEF got
    <2>4. \A parts \in {got, say \cup got, say} : parts # {}
      BY <2>1 DEF SayInv
    <2> QED
      BY <1>4, <2>2, <2>3, <2>4
  <1>7. CASE ReplyToClient
    <2>1. /\ pc = "reply" /\ pc' = "idle" /\ say' = None /\ reply' = [reply EXCEPT ![cur] = say]
      BY <1>7 DEF ReplyToClient
    <2>2. say \in {None, ErrorMessage} \cup SUBSET AnswerPart
      BY <1>0 DEF SoapTypes
    <2> QED
      BY <1>1, <2>1, <2>2 DEF SayInv
  <1>8. CASE \E c \in {Fresh, None} : ReplyToClosed(c)
    BY <1>1, <1>8 DEF SayInv, ReplyToClosed
  <1>9. CASE Server \/ \E i \in Commands : ClientClose(i)
    <2>1. UNCHANGED <<mode, pc, cur, say, reply>>
      BY <1>9 DEF Server, Serve, Drop, Arrive, ClientClose, world
    <2> QED
      BY <2>1 DEF SayInv
  <1> QED
    BY <1>2, <1>3, <1>5, <1>6, <1>7, <1>8, <1>9 DEF Next, write_pipe_or_sock, write_sock_func
-----------------------------------------------------------------------------
(* A prompt server                                                         *)

(* Sequences of one part,                                                  *)
LEMMA OnePart ==
    ASSUME NEW w
    PROVE  SubSeq(<<w>>, 1, 1) = <<w>> /\ SubSeq(<<w>>, 2, 1) = <<>> /\ <<>> \o <<w>> = <<w>>
  <1>1. <<w>> \in Seq({w}) /\ Len(<<w>>) = 1
    OBVIOUS
  <1>2. SubSeq(<<w>>, 1, 1) = <<w>>
    <2> DEFINE s == SubSeq(<<w>>, 1, 1)
    <2>1. s \in Seq({w}) /\ Len(s) = 1 /\ s[1] = w
      BY <1>1
    <2> HIDE DEF s
    <2>2. \A i \in 1..1 : s[i] = <<w>>[i]
      BY <2>1
    <2> QED
      BY <1>1, <2>1, <2>2, SeqEqual DEF s
  <1>3. SubSeq(<<w>>, 2, 1) = <<>>
    BY <1>1
  <1>4. <<>> \o <<w>> = <<w>>
    BY <1>1
  <1> QED
    BY <1>2, <1>3, <1>4

(* and of two.                                                             *)
LEMMA TwoParts ==
    ASSUME NEW w, NEW f
    PROVE  /\ SubSeq(<<w, f>>, 1, 1) = <<w>> /\ SubSeq(<<w, f>>, 3, 2) = <<>>
           /\ <<>> \o <<w>> \o <<f>> = <<w, f>> /\ <<>> \o <<w>> \o <<>> = <<w>>
  <1>1. <<w, f>> \in Seq({w, f}) /\ Len(<<w, f>>) = 2
    OBVIOUS
  <1>0. <<w>> \in Seq({w, f}) /\ <<f>> \in Seq({w, f}) /\ Len(<<w>>) = 1 /\ Len(<<f>>) = 1 /\ <<w>>[1] = w /\ <<f>>[1] = f
    OBVIOUS
  <1>2. SubSeq(<<w, f>>, 1, 1) = <<w>>
    <2> DEFINE s == SubSeq(<<w, f>>, 1, 1)
    <2>1. s \in Seq({w, f}) /\ Len(s) = 1 /\ s[1] = w
      BY <1>1
    <2> HIDE DEF s
    <2>2. \A i \in 1..1 : s[i] = <<w>>[i]
      BY <2>1
    <2> QED
      BY <1>0, <2>1, <2>2, SeqEqual DEF s
  <1>3. SubSeq(<<w, f>>, 3, 2) = <<>>
    BY <1>1
  <1>4. <<>> \o <<w>> = <<w>> /\ <<w>> \o <<>> = <<w>>
    BY <1>0
  <1>5. <<w>> \o <<f>> = <<w, f>>
    <2> DEFINE s == <<w>> \o <<f>>
    <2>1. s \in Seq({w, f}) /\ Len(s) = 2 /\ s[1] = w /\ s[2] = f
      BY <1>0
    <2> HIDE DEF s
    <2>2. \A i \in 1..2 : s[i] = <<w, f>>[i]
      BY <2>1
    <2> QED
      BY <1>1, <2>1, <2>2, SeqEqual DEF s
  <1> QED
    BY <1>2, <1>3, <1>4, <1>5

(* An answer is no error.                                                  *)
LEMMA AnswerNotError ==
    \A i : Answer(i) # ErrorMessage
  <1> TAKE i
  <1>1. Part(Request(i), "all").of.kind = "request" /\ Part([kind |-> "error", cmd |-> 0], "all").of.kind = "error"
    BY DEF Part, Request
  <1>2. Part(Request(i), "all") # Part([kind |-> "error", cmd |-> 0], "all")
    BY <1>1
  <1> QED
    BY <1>2 DEF Answer, ErrorMessage

(* A step that leaves the connection alone, inside one exchange or outside.*)
LEMMA PromptKept ==
    ASSUME SoapInv, SoapTypes', PromptInv, UNCHANGED <<mode, client, executed, sock>>,
           pc # "select", pc' \notin {"select", "more"},
           Prompt => /\ pc' = "write" => sock.srv = "open"
                     /\ pc' = "reply" => say' = ErrorMessage /\ executed[cur'] = 0
    PROVE  PromptInv'
  <1> SUFFICES ASSUME Prompt' PROVE PromptInv'
    BY DEF PromptInv
  <1>1. Prompt
    BY DEF Prompt
  <1> QED
    BY <1>1 DEF PromptInv, Empty

(* A command that was not sent has not been executed.                      *)
LEMMA NotYet ==
    ASSUME SoapInv, pc \in {"make", "check", "write"}
    PROVE  cur \in Commands /\ executed[cur] = 0
  <1>1. cur \in Nat /\ cur > 0 /\ cur <= N /\ Sent = cur - 1
    BY DEF SoapInv, SoapTypes, Sent
  <1>2. cur \in Commands /\ cur > Sent
    BY <1>1, SoapAssumption DEF Commands
  <1> QED
    BY <1>2 DEF SoapInv, OnceInv

(* While a prompt server has its answer to give, the thread waits for it.  *)
LEMMA PromptWaits ==
    ASSUME SoapTypes, PromptInv, Prompt, ReadNothing \/ SelectTimeout
    PROVE  FALSE
  <1>1. pc = "select" /\ ~sock.rst /\ mode.prompt
    BY DEF ReadNothing, SelectTimeout, PromptInv, SoapTypes, Prompt
  <1>2. CASE Asking(sock)
    BY <1>1, <1>2 DEF Asking, ReadNothing, SelectTimeout, is_sock_closed_by_peer, Owing
  <1>3. CASE Answering(sock)
    <2>1. sock.air # <<>> /\ ~sock.fin
      BY <1>3 DEF Answering
    <2> QED
      BY <1>1, <2>1 DEF ReadNothing, SelectTimeout, is_sock_closed_by_peer, Owing
  <1>4. CASE Answered(sock)
    <2>1. sock.down # <<>>
      BY <1>4 DEF Answered
    <2> QED
      BY <2>1 DEF ReadNothing, SelectTimeout, is_sock_closed_by_peer
  <1> QED
    BY <1>1, <1>2, <1>3, <1>4 DEF PromptInv

(* The steps of the thread that leave its socket alone.                    *)
LEMMA PromptQuiet ==
    ASSUME SoapInv, SoapTypes', SayInv, PromptInv,
           \/ Begin \/ UseSocket \/ EmptyRequest \/ CheckOpen \/ WriteError
           \/ ReadEnd \/ ReadNothing \/ SelectTimeout \/ ReplyToClient
    PROVE  PromptInv'
  <1> SUFFICES ASSUME Prompt' PROVE PromptInv'
    BY DEF PromptInv
  <1>0. UNCHANGED <<mode, client, executed, sock>> /\ SoapTypes
    BY DEF Begin, UseSocket, EmptyRequest, CheckOpen, WriteError, ReadEnd, ReadNothing, SelectTimeout, ReplyToClient, world, SoapInv
  <1>1. Prompt
    BY <1>0 DEF Prompt
  <1>2. CASE Begin \/ UseSocket \/ ReplyToClient
    <2>1. pc # "select" /\ pc' \notin {"select", "more", "write", "reply"}
      BY <1>2 DEF Begin, UseSocket, ReplyToClient
    <2> QED
      BY <1>0, <2>1, PromptKept
  <1>3. CASE EmptyRequest \/ WriteError
    <2>1. pc \in {"check", "write"} /\ pc' = "reply" /\ say' = ErrorMessage /\ cur' = cur
      BY <1>3 DEF EmptyRequest, WriteError
    <2>2. executed[cur'] = 0
      BY <2>1, NotYet
    <2> QED
      BY <1>0, <2>1, <2>2, PromptKept
  <1>4. CASE CheckOpen
    <2>1. pc = "check" /\ pc' = "write" /\ ~is_sock_closed_by_peer(sock) /\ sock # None
      BY <1>0, <1>4 DEF CheckOpen, SoapTypes
    <2>2. sock.srv \in {"open", "closed"}
      BY <1>0, <2>1, Fields DEF SoapTypes
    <2>3. sock.srv = "open"
      BY <1>1, <2>1, <2>2 DEF PromptInv, Empty, is_sock_closed_by_peer
    <2> QED
      BY <1>0, <2>1, <2>3, PromptKept
  <1>5. CASE ReadEnd
    BY <1>1, <1>5 DEF PromptInv, ReadEnd
  <1>6. CASE ReadNothing \/ SelectTimeout
    BY <1>0, <1>1, <1>6, PromptWaits
  <1> QED
    BY <1>2, <1>3, <1>4, <1>5, <1>6

(* A new socket is empty, and one that was not made leaves an error.       *)
LEMMA PromptMake ==
    ASSUME SoapInv, SoapTypes', PromptInv, NEW c \in {Fresh, None}, MakeSocket(c) \/ ResetSocket(c)
    PROVE  PromptInv'
  <1> SUFFICES ASSUME Prompt' PROVE PromptInv'
    BY DEF PromptInv
  <1>1. /\ UNCHANGED <<mode, cur, client, executed>> /\ sock' = c
        /\ pc \in {"make", "check", "write"}
        /\ pc' = "reply" \/ pc' \in {"check", "write"}
        /\ c = None <=> pc' = "reply"
        /\ say' = IF c = None THEN ErrorMessage ELSE say
    BY FreshType DEF MakeSocket, ResetSocket
  <1>2. Prompt
    BY <1>1 DEF Prompt
  <1>3. executed[cur] = 0
    BY <1>1, NotYet
  <1>4. Fresh.srv = "open" /\ ~Fresh.rst /\ Empty(Fresh)
    BY DEF Fresh, Empty
  <1>5. sock' # None => sock' = Fresh
    BY <1>1
  <1>6. Empty(sock)' <=> Empty(sock')
    BY DEF Empty
  <1>7. pc' = "write" => sock' = Fresh
    BY <1>1, <1>5
  <1>8. client' = [i \in Commands |-> "open"] /\ pc' \notin {"more", "select"}
    BY <1>1, <1>2 DEF PromptInv
  <1> HIDE DEF PromptInv
  <1> QED
    BY <1>1, <1>3, <1>4, <1>5, <1>6, <1>7, <1>8 DEF PromptInv

(* The request goes to a server that is there and has nothing else to do.  *)
LEMMA PromptWrite ==
    ASSUME SoapInv, PromptInv, WriteRequest
    PROVE  PromptInv'
  <1> SUFFICES ASSUME Prompt' PROVE PromptInv'
    BY DEF PromptInv
  <1>1. /\ UNCHANGED <<mode, cur, client, executed>> /\ pc = "write" /\ pc' = "select"
        /\ sock' = Written(sock, Request(cur))
    BY DEF WriteRequest, world
  <1>2. Prompt
    BY <1>1 DEF Prompt
  <1>3. sock \in Connection /\ sock # None
    BY <1>1 DEF SoapInv, SoapTypes
  <1>4. sock.srv = "open" /\ Empty(sock) /\ ~sock.rst /\ client = [i \in Commands |-> "open"]
    BY <1>1, <1>2, <1>3 DEF PromptInv
  <1>5. sock' = [sock EXCEPT !.up = Append(sock.up, Request(cur))]
    BY <1>1, <1>4 DEF Written
  <1>6. /\ sock'.up = <<Request(cur)>> /\ sock'.air = <<>> /\ sock'.down = <<>>
        /\ sock'.srv = "open" /\ ~sock'.fin /\ ~sock'.rst
    <2>1. Append(sock.up, Request(cur)) = <<Request(cur)>>
      BY <1>4 DEF Empty
    <2> QED
      BY <1>3, <1>4, <1>5, <2>1 DEF Empty, Connection
  <1>7. Asking(sock)'
    BY <1>1, <1>6 DEF Asking
  <1>8. executed[cur] = 0
    BY <1>1, NotYet
  <1> QED
    BY <1>1, <1>4, <1>6, <1>7, <1>8 DEF PromptInv

(* One read takes the whole answer, and leaves nothing.                    *)
LEMMA PromptRead ==
    ASSUME SoapInv, PromptInv, NEW k, NEW full \in BOOLEAN,
           ReadAnswer(k, full) \/ ReadMore(k, full) \/ ReadBeyond(k)
    PROVE  PromptInv'
  <1> SUFFICES ASSUME Prompt' PROVE PromptInv'
    BY DEF PromptInv
  <1>1. UNCHANGED <<mode, cur, client, executed>>
    BY DEF ReadAnswer, ReadMore, ReadBeyond, world
  <1>2. Prompt
    BY <1>1 DEF Prompt
  <1>3. ReadAnswer(k, full) /\ pc = "select"
    BY <1>2 DEF PromptInv, ReadAnswer, ReadMore, ReadBeyond
  <1>4. sock \in Connection /\ sock # None
    BY <1>3 DEF SoapInv, SoapTypes
  <1>5. ~full /\ k = Len(sock.down) /\ k \in 1..Len(sock.down)
    BY <1>2, <1>3 DEF ReadAnswer, Read, Prompt
  <1>6. Answered(sock) /\ executed[cur] = 1 /\ ~sock.rst /\ client = [i \in Commands |-> "open"]
    BY <1>2, <1>3, <1>4, <1>5 DEF PromptInv, Asking, Answering
  <1>7. k = 1 /\ sock.down = <<Whole>>
    BY <1>5, <1>6 DEF Answered
  <1>8. /\ sock' = [sock EXCEPT !.down = SubSeq(sock.down, k + 1, Len(sock.down))]
        /\ Got(ToSet(SubSeq(sock.down, 1, k)), FALSE)
    BY <1>3, <1>5 DEF ReadAnswer, Read
  <1>9. SubSeq(<<Whole>>, 1, 1) = <<Whole>> /\ SubSeq(<<Whole>>, 2, 1) = <<>> /\ Len(<<Whole>>) = 1
    BY OnePart
  <1>10. ToSet(<<Whole>>) = Answer(cur)
    <2>1. Answer(cur) = {Whole}
      BY DEF Answer, Whole
    <2>2. \A w : ToSet(<<w>>) = {w}
      BY DEF ToSet
    <2> QED
      BY <2>1, <2>2
  <1>11. /\ sock'.up = <<>> /\ sock'.air = <<>> /\ sock'.down = <<>>
         /\ sock'.fin <=> sock'.srv = "closed"
         /\ ~sock'.rst
    BY <1>4, <1>6, <1>7, <1>8, <1>9 DEF Answered, Connection
  <1>12. Empty(sock)'
    BY <1>11 DEF Empty
  <1>13. /\ pc' \in {"reply", "idle"}
         /\ pc' = "reply" => say' = Answer(cur)
    BY <1>7, <1>8, <1>9, <1>10 DEF Got
  <1>14. Answer(cur) # ErrorMessage
    BY AnswerNotError
  <1>15. Answer(cur)' = Answer(cur)
    BY <1>1 DEF Answer
  <1> QED
    BY <1>1, <1>6, <1>11, <1>12, <1>13, <1>14, <1>15 DEF PromptInv

(* The answer goes out whole, and with it the end of the connection if the *)
(* server closes it.                                                       *)
LEMMA PromptServe ==
    ASSUME SoapInv, PromptInv, NEW split \in BOOLEAN, NEW close \in BOOLEAN, Serve(split, close)
    PROVE  PromptInv'
  <1> SUFFICES ASSUME Prompt' PROVE PromptInv'
    BY DEF PromptInv
  <1>1. /\ UNCHANGED <<mode, pc, cur, client>> /\ sock # None /\ sock.up # <<>>
        /\ split => mode.splits
    BY DEF Serve
  <1>2. Prompt /\ ~split
    BY <1>1 DEF Prompt
  <1>3. sock \in Connection
    BY <1>1 DEF SoapInv, SoapTypes
  <1>4. pc = "select" /\ Asking(sock) /\ executed[cur] = 0 /\ ~sock.rst /\ client = [i \in Commands |-> "open"]
    BY <1>1, <1>2 DEF PromptInv, Empty, Answering, Answered
  <1>5. cur \in Commands /\ executed \in [Commands -> Nat]
    BY <1>4, SoapAssumption DEF SoapInv, SoapTypes, Commands
  <1>6. Head(sock.up) = Request(cur) /\ Tail(sock.up) = <<>>
    BY <1>4 DEF Asking
  <1>7. executed'[cur] = 1
    <2>1. Head(sock.up).kind = "request" /\ Head(sock.up).cmd = cur
      BY <1>6 DEF Request
    <2>2. executed' = [executed EXCEPT ![cur] = @ + 1]
      BY <2>1 DEF Serve
    <2> QED
      BY <1>4, <1>5, <2>2
  <1> DEFINE end == IF close THEN <<FIN>> ELSE <<>>
             air == sock.air \o <<Whole>> \o end
  <1>8. sock' = [sock EXCEPT !.up = <<>>, !.air = air, !.srv = IF close THEN "closed" ELSE "open"]
    BY <1>2, <1>4, <1>6 DEF Serve, Asking, Whole
  <1>9. air = IF close THEN <<Whole, FIN>> ELSE <<Whole>>
    <2>1. sock.air = <<>>
      BY <1>4 DEF Asking
    <2>2. /\ <<>> \o <<Whole>> \o <<FIN>> = <<Whole, FIN>>
          /\ <<>> \o <<Whole>> \o <<>> = <<Whole>>
      BY TwoParts
    <2> QED
      BY <2>1, <2>2
  <1> HIDE DEF air
  <1>10. /\ sock'.up = <<>> /\ sock'.air = air /\ sock'.srv = (IF close THEN "closed" ELSE "open")
         /\ sock'.down = <<>> /\ ~sock'.fin /\ ~sock'.rst
    BY <1>3, <1>4, <1>8 DEF Connection, Asking
  <1>11. Whole' = Whole
    BY <1>1 DEF Whole
  <1>12. Answering(sock)'
    BY <1>9, <1>10, <1>11 DEF Answering
  <1> QED
    BY <1>1, <1>4, <1>7, <1>10, <1>12 DEF PromptInv

(* It arrives whole, and its end with it.                                  *)
LEMMA PromptArrive ==
    ASSUME SoapInv, PromptInv, NEW n, Arrive(n)
    PROVE  PromptInv'
  <1> SUFFICES ASSUME Prompt' PROVE PromptInv'
    BY DEF PromptInv
  <1> DEFINE air == sock.air
  <1>1. /\ UNCHANGED <<mode, pc, cur, client, executed>> /\ sock # None /\ n \in 1..Len(air)
        /\ mode.finTogether /\ n < Len(air) => air[n + 1] # FIN
    BY DEF Arrive, world
  <1>2. Prompt
    BY <1>1 DEF Prompt
  <1>3. sock \in Connection /\ sock.srv \in {"open", "closed"}
    BY <1>1, Fields DEF SoapInv, SoapTypes
  <1>4. Len(air) # 0
    <2>1. air \in Seq(AnswerPart \cup {FIN, RST})
      BY <1>3, Fields
    <2> QED
      BY <1>1, <2>1
  <1>5. pc = "select" /\ Answering(sock) /\ executed[cur] = 1 /\ ~sock.rst /\ client = [i \in Commands |-> "open"]
    <2>1. air # <<>>
      BY <1>4
    <2> QED
      BY <1>1, <1>2, <2>1 DEF PromptInv, Empty, Asking, Answered
  <1>6. air = IF sock.srv = "open" THEN <<Whole>> ELSE <<Whole, FIN>>
    BY <1>5 DEF Answering
  <1>7. n = Len(air)
    <2>1. CASE sock.srv = "open"
      BY <1>1, <1>6, <2>1
    <2>2. CASE sock.srv # "open"
      <3>1. Len(air) = 2 /\ air[2] = FIN
        BY <1>6, <2>2
      <3>2. n = 1 => FALSE
        BY <1>1, <1>2, <3>1 DEF Prompt
      <3> QED
        BY <1>1, <3>1, <3>2
    <2> QED
      BY <2>1, <2>2
  <1>8. Whole \notin {FIN, RST} /\ FIN # RST
    BY DEF Whole, FIN, RST, Part, Request
  <1>9. PICK d \in 0..n :
          /\ \A k \in 1..n : k <= d <=> air[k] \notin {FIN, RST}
          /\ sock' = [sock EXCEPT
               !.air = SubSeq(@, n + 1, Len(@)),
               !.down = @ \o SubSeq(air, 1, d),
               !.fin = @ \/ \E k \in 1..n : air[k] = FIN,
               !.rst = @ \/ \E k \in 1..n : air[k] = RST]
    BY DEF Arrive
  <1> DEFINE fin2 == sock.fin \/ \E k \in 1..n : air[k] = FIN
             rst2 == sock.rst \/ \E k \in 1..n : air[k] = RST
  <1>10. /\ d = 1 /\ (fin2 <=> sock.srv = "closed") /\ ~rst2
         /\ SubSeq(air, 1, d) = <<Whole>>
         /\ SubSeq(air, n + 1, Len(air)) = <<>>
    <2> HIDE DEF Whole, FIN, RST, air
    <2>1. CASE sock.srv = "open"
      <3>1. air = <<Whole>> /\ n = 1
        BY <1>6, <1>7, <2>1
      <3>2. d = 1
        BY <1>8, <1>9, <3>1
      <3>3. SubSeq(air, 1, 1) = <<Whole>> /\ SubSeq(air, 2, 1) = <<>> /\ Len(air) = 1 /\ air[1] = Whole
        BY <3>1, OnePart
      <3>4. \A k \in 1..n : k = 1
        BY <3>1
      <3> QED
        BY <1>5, <1>8, <2>1, <3>1, <3>2, <3>3, <3>4 DEF Answering
    <2>2. CASE sock.srv = "closed"
      <3>1. air = <<Whole, FIN>> /\ n = 2 /\ air[1] = Whole /\ air[2] = FIN /\ air \in Seq({Whole, FIN})
        BY <1>6, <1>7, <2>2
      <3>2. (1 <= d) /\ ~(2 <= d)
        BY <1>8, <1>9, <3>1
      <3>3. d = 1
        BY <3>1, <3>2
      <3>4. SubSeq(air, 1, 1) = <<Whole>> /\ SubSeq(air, 3, 2) = <<>>
        BY <3>1, TwoParts
      <3>5. \A k \in 1..n : k = 1 \/ k = 2
        BY <3>1
      <3> QED
        BY <1>5, <1>7, <1>8, <2>2, <3>1, <3>3, <3>4, <3>5
    <2> QED
      BY <1>3, <2>1, <2>2
  <1>11. /\ sock'.up = <<>> /\ sock'.air = <<>> /\ sock'.down = <<Whole>>
         /\ sock'.srv = sock.srv /\ (sock'.fin <=> fin2) /\ (sock'.rst <=> rst2)
    <2>1. sock.up = <<>> /\ sock.down = <<>>
      BY <1>5 DEF Answering
    <2>2. sock' = [sock EXCEPT !.air = <<>>, !.down = <<>> \o <<Whole>>, !.fin = fin2, !.rst = rst2]
      BY <1>9, <1>10, <2>1
    <2>3. <<>> \o <<Whole>> = <<Whole>>
      BY OnePart
    <2> HIDE DEF fin2, rst2
    <2> QED
      BY <1>3, <2>1, <2>2, <2>3 DEF Connection
  <1>12. Whole' = Whole
    BY <1>1 DEF Whole
  <1>13. Answered(sock)' /\ ~sock'.rst
    BY <1>10, <1>11, <1>12 DEF Answered
  <1> HIDE DEF fin2, rst2
  <1> QED
    BY <1>1, <1>5, <1>13 DEF PromptInv

(* Every step keeps the exchange with a prompt server in order.            *)
LEMMA PromptNext ==
    ASSUME SoapInv, SoapTypes', SayInv, PromptInv, Next
    PROVE  PromptInv'
  <1>1. ASSUME NEW c, ReplyToClosed(c) PROVE PromptInv'
    <2>1. UNCHANGED mode /\ pc = "reply" /\ client[cur] = "closed"
      BY <1>1 DEF ReplyToClosed
    <2>2. cur \in Commands
      BY <2>1, SoapAssumption DEF SoapInv, SoapTypes, Commands
    <2> QED
      BY <2>1, <2>2 DEF PromptInv, Prompt
  <1>2. CASE Drop
    <2>1. UNCHANGED mode /\ dropped < mode.maxDropped /\ dropped \in Nat
      BY <1>2 DEF Drop, SoapInv, CountInv
    <2> QED
      BY <2>1 DEF PromptInv, Prompt
  <1>3. ASSUME NEW i \in Commands, ClientClose(i) PROVE PromptInv'
    BY <1>3 DEF ClientClose, PromptInv, Prompt
  <1>4. CASE write_pipe_or_sock
    BY <1>4, PromptQuiet, PromptMake, PromptWrite, PromptRead DEF write_pipe_or_sock
  <1> QED
    BY <1>1, <1>2, <1>3, <1>4, PromptQuiet, PromptServe, PromptArrive DEF Next, write_sock_func, Server

(* In every reachable state the parts of the answers are each in one       *)
(* place, and a prompt server's exchange is in one of its stages.          *)
THEOREM ToldInvariant == Spec => []ToldInv
  <1>1. Init => ToldInv
    <2> SUFFICES ASSUME Init PROVE ToldInv
      OBVIOUS
    <2>1. None # {}
      BY NoneAssumption
    <2>2. /\ sock = None /\ say = None /\ pc = "idle" /\ reply = [i \in Commands |-> None]
          /\ client = [i \in Commands |-> "open"]
      BY DEF Init
    <2>3. SayInv
      BY <2>1, <2>2 DEF SayInv
    <2>4. PromptInv
      BY <2>2 DEF PromptInv
    <2>5. UnderWay = {} /\ Arrived = {} /\ Said = {} /\ Told = {} /\ Unread = {}
      BY <2>2 DEF UnderWay, Arrived, Said, Told, Unread
    <2>6. PartsInv
      BY <2>2, <2>5 DEF PartsInv, Apart
    <2> QED
      BY <2>3, <2>4, <2>6 DEF ToldInv
  <1>2. SoapInv /\ SoapInv' /\ ToldInv /\ [Next]_vars => ToldInv'
    <2> SUFFICES ASSUME SoapInv, SoapInv', ToldInv, [Next]_vars PROVE ToldInv'
      OBVIOUS
    <2>1. SoapTypes' /\ PartsInv /\ SayInv /\ PromptInv
      BY DEF SoapInv, ToldInv
    <2>2. CASE UNCHANGED vars
      <3>1. SayInv' /\ PromptInv'
        BY <2>1, <2>2 DEF vars, SayInv, PromptInv, Prompt, Empty, Asking, Answering, Answered, Whole, Answer
      <3>2. PartsInv'
        BY <2>1, <2>2 DEF vars, PartsInv, Single, Unwritten, Sent, Ended, Unread, Ahead, UnderWay, Arrived, Said, Told
      <3> QED
        BY <3>1, <3>2 DEF ToldInv
    <2>3. CASE Next
      BY <2>1, <2>3, PartsNext, SayNext, PromptNext DEF ToldInv
    <2> QED
      BY <2>2, <2>3
  <1> QED
    BY <1>1, <1>2, SoapInvariant, PTL DEF Spec

-----------------------------------------------------------------------------
(* The refinement                                                          *)

(* A thread that begins is one that owes nobody anything.                  *)
LEMMA ExchangeInit == Init => Exchange!Init
  <1> SUFFICES ASSUME Init PROVE Exchange!Init
    OBVIOUS
  <1>1. mode \in Mode
    BY SoapAssumption DEF Init
  <1>2. Prompt \in BOOLEAN
    BY DEF Prompt
  <1>3. mode.needRsp \subseteq 1..N
    BY <1>1 DEF Mode
  <1> QED
    BY <1>2, <1>3 DEF Init, Exchange!Init, Commands

(* The steps that Exchange does not see.                                   *)
LEMMA ExchangeStutter ==
    ASSUME UNCHANGED <<mode, cur, executed, reply>>, pc' # "idle" <=> pc # "idle"
    PROVE  UNCHANGED Exchange!exchangeVars
  <1>1. Prompt' = Prompt /\ mode.needRsp' = mode.needRsp
    BY DEF Prompt
  <1>2. (pc' # "idle") = (pc # "idle")
    OBVIOUS
  <1> QED
    BY <1>1, <1>2 DEF Exchange!exchangeVars

(* A turn that ends without a word is one nobody waits for, or the server  *)
(* is not prompt.                                                          *)
LEMMA ExchangePass ==
    ASSUME UNCHANGED <<mode, cur, executed, reply>>, pc # "idle", pc' = "idle",
           Prompt => cur \notin mode.needRsp
    PROVE  Exchange!Next
  <1>1. Prompt' = Prompt /\ mode.needRsp' = mode.needRsp
    BY DEF Prompt
  <1>2. Exchange!Pass
    BY <1>1 DEF Exchange!Pass
  <1> QED
    BY <1>2 DEF Exchange!Next

(* The steps of write_pipe_or_sock.                                        *)
LEMMA ExchangeThread ==
    ASSUME SoapInv, ToldInv, write_pipe_or_sock
    PROVE  [Exchange!Next]_(Exchange!exchangeVars)
  <1>0. SoapTypes /\ PromptInv
    BY DEF SoapInv, ToldInv
  <1>1. CASE Begin
    <2>1. Prompt' = Prompt /\ mode.needRsp' = mode.needRsp
      BY <1>1 DEF Begin, Prompt, world
    <2>2. Exchange!Take
      BY <1>1, <2>1 DEF Begin, world, Exchange!Take
    <2> QED
      BY <2>2 DEF Exchange!Next
  <1>2. CASE UseSocket \/ EmptyRequest \/ CheckOpen \/ WriteError \/ WriteRequest
    <2>1. UNCHANGED <<mode, cur, executed, reply>> /\ pc # "idle" /\ pc' # "idle"
      BY <1>2 DEF UseSocket, EmptyRequest, CheckOpen, WriteError, WriteRequest, world
    <2> QED
      BY <2>1, ExchangeStutter
  <1>3. CASE \E c \in {Fresh, None} : MakeSocket(c) \/ ResetSocket(c)
    <2>1. UNCHANGED <<mode, cur, executed, reply>> /\ pc # "idle" /\ pc' # "idle"
      BY <1>3 DEF MakeSocket, ResetSocket
    <2> QED
      BY <2>1, ExchangeStutter
  <1>4. ASSUME NEW parts, NEW full, Got(parts, full), UNCHANGED <<mode, cur, executed, reply>>, pc # "idle"
        PROVE  [Exchange!Next]_(Exchange!exchangeVars)
    <2>1. CASE pc' # "idle"
      BY <1>4, <2>1, ExchangeStutter
    <2>2. CASE pc' = "idle"
      <3>1. cur \notin mode.needRsp
        BY <1>4, <2>2 DEF Got
      <3> QED
        BY <1>4, <2>2, <3>1, ExchangePass
    <2> QED
      BY <2>1, <2>2
  <1>5. CASE ReadEnd \/ \E k \in 1..MaxParts : ReadBeyond(k) \/ \E full \in BOOLEAN : ReadAnswer(k, full) \/ ReadMore(k, full)
    <2>1. \E parts, full : Got(parts, full)
      BY <1>5 DEF ReadEnd, ReadBeyond, ReadAnswer, ReadMore
    <2>2. UNCHANGED <<mode, cur, executed, reply>> /\ pc # "idle"
      BY <1>5 DEF ReadEnd, ReadBeyond, ReadAnswer, ReadMore, world
    <2> QED
      BY <1>4, <2>1, <2>2
  <1>6. CASE ReadNothing \/ SelectTimeout
    <2>1. UNCHANGED <<mode, cur, executed, reply>> /\ pc = "select" /\ pc' = "idle"
      BY <1>6 DEF ReadNothing, SelectTimeout, world
    <2>2. ~Prompt
      BY <1>0, <1>6, PromptWaits
    <2> QED
      BY <2>1, <2>2, ExchangePass
  <1> QED
    BY <1>1, <1>2, <1>3, <1>5, <1>6 DEF write_pipe_or_sock

(* The steps of write_sock_func: what is said may be said.                 *)
LEMMA ExchangeReply ==
    ASSUME SoapInv, ToldInv, write_sock_func
    PROVE  Exchange!Next
  <1>0. SoapTypes /\ PartsInv /\ SayInv /\ PromptInv
    BY DEF SoapInv, ToldInv
  <1>1. CASE ReplyToClient
    <2>1. /\ pc = "reply" /\ pc' = "idle" /\ reply' = [reply EXCEPT ![cur] = say]
          /\ UNCHANGED <<mode, cur, executed>>
      BY <1>1 DEF ReplyToClient, world
    <2>2. cur \in Commands /\ say # None /\ reply'[cur] = say
      BY <1>0, <2>1, SoapAssumption DEF SoapTypes, SayInv, Commands
    <2>3. Prompt' = Prompt /\ mode.needRsp' = mode.needRsp
      BY <2>1 DEF Prompt
    <2>4. Exchange!Sayable(say)
      <3>1. CASE say = ErrorMessage
        BY <1>0, <2>1, <3>1 DEF PromptInv, Exchange!Sayable
      <3>2. CASE say # ErrorMessage /\ Prompt
        BY <1>0, <2>1, <3>2 DEF PromptInv, SayInv, Exchange!Sayable
      <3>3. CASE say # ErrorMessage /\ ~Prompt
        <4>1. say \subseteq AnswerPart /\ say # {} /\ cur \in mode.needRsp
          BY <1>0, <2>1, <2>2, <3>3 DEF SoapTypes, SayInv
        <4>2. ASSUME NEW i \in Commands, reply[i] # None
              PROVE  reply[i] \cap say = {}
          <5>1. say \cap Told = {}
            BY <1>0, <2>2, <4>1 DEF PartsInv, Apart, Said
          <5> QED
            BY <4>1, <4>2, <5>1 DEF Told
        <4> QED
          BY <3>3, <4>1, <4>2 DEF Exchange!Sayable, Commands
      <3> QED
        BY <3>1, <3>2, <3>3
    <2>5. Exchange!Tell
      BY <2>1, <2>2, <2>3, <2>4 DEF Exchange!Tell
    <2> QED
      BY <2>5 DEF Exchange!Next
  <1>2. ASSUME NEW c \in {Fresh, None}, ReplyToClosed(c) PROVE Exchange!Next
    <2>1. UNCHANGED <<mode, cur, executed, reply>> /\ pc = "reply" /\ pc' = "idle" /\ client[cur] = "closed"
      BY <1>2 DEF ReplyToClosed
    <2>2. cur \in Commands
      BY <1>0, <2>1, SoapAssumption DEF SoapTypes, Commands
    <2>3. ~Prompt
      BY <1>0, <2>1, <2>2 DEF PromptInv
    <2> QED
      BY <2>1, <2>3, ExchangePass
  <1> QED
    BY <1>1, <1>2 DEF write_sock_func

(* The steps of the server, the network and the clients.                   *)
LEMMA ExchangeWorld ==
    ASSUME SoapInv, ToldInv, Server \/ \E i \in Commands : ClientClose(i)
    PROVE  [Exchange!Next]_(Exchange!exchangeVars)
  <1>0. SoapTypes /\ OnceInv /\ PromptInv
    BY DEF SoapInv, ToldInv
  <1>1. ASSUME NEW split \in BOOLEAN, NEW close \in BOOLEAN, Serve(split, close)
        PROVE  [Exchange!Next]_(Exchange!exchangeVars)
    <2> DEFINE x == Head(sock.up)
               up == sock.up
    <2>1. sock # None /\ up # <<>> /\ UNCHANGED <<mode, pc, cur, reply>>
      BY <1>1 DEF Serve
    <2>2. executed' = IF x.kind = "request" THEN [executed EXCEPT ![x.cmd] = @ + 1] ELSE executed
      BY <1>1 DEF Serve
    <2>3. up \in Seq(Wired)
      BY <1>0, <2>1, Fields DEF SoapTypes
    <2>4. 1 \in 1..Len(up) /\ x = up[1]
      <3> HIDE DEF up
      <3>1. 1 \in 1..Len(up) /\ Head(up) = up[1]
        BY <2>1, <2>3
      <3> QED
        BY <3>1 DEF up
    <2>5. CASE x.kind # "request"
      BY <2>1, <2>2, <2>5, ExchangeStutter
    <2>6. CASE x.kind = "request"
      <3>1. Waits(sock, 1)
        BY <1>0, <2>1, <2>4, <2>6 DEF OnceInv
      <3>2. x.cmd \in Commands /\ x.cmd \in Nat
        BY <2>3, <2>4, RequestType
      <3>3. x.cmd <= Sent /\ executed[x.cmd] = 0
        BY <2>4, <3>1 DEF Waits
      <3>4. x.cmd \in 1..cur /\ x.cmd \in 1..N
        <4>1. Sent \in Nat /\ Sent <= cur /\ cur \in Nat
          BY <1>0, SentType DEF SoapTypes
        <4> QED
          BY <3>2, <3>3, <4>1 DEF Commands
      <3>5. executed' = [executed EXCEPT ![x.cmd] = 1]
        BY <1>0, <2>2, <2>6, <3>2, <3>3 DEF SoapTypes
      <3>6. Prompt => pc # "idle" /\ x.cmd = cur
        <4> SUFFICES ASSUME Prompt PROVE pc # "idle" /\ x.cmd = cur
          OBVIOUS
        <4>1. Asking(sock) /\ pc = "select"
          BY <1>0, <2>1 DEF PromptInv, Empty, Answering, Answered
        <4>2. up[1] = Request(cur)
          BY <4>1 DEF Asking
        <4> QED
          BY <2>4, <4>1, <4>2 DEF Request
      <3>7. Prompt' = Prompt /\ mode.needRsp' = mode.needRsp /\ (pc # "idle")' = (pc # "idle")
        BY <2>1 DEF Prompt
      <3> HIDE DEF x
      <3>8. Exchange!Execute(x.cmd)
        BY <2>1, <3>3, <3>4, <3>5, <3>6, <3>7 DEF Exchange!Execute
      <3> QED
        BY <3>4, <3>8 DEF Exchange!Next
    <2> QED
      BY <2>5, <2>6
  <1>2. CASE Drop \/ (\E n \in 1..(MaxParts + 1) : Arrive(n)) \/ \E i \in Commands : ClientClose(i)
    <2>1. UNCHANGED <<mode, pc, cur, executed, reply>>
      BY <1>2 DEF Drop, Arrive, ClientClose, world
    <2> QED
      BY <2>1, ExchangeStutter
  <1> QED
    BY <1>1, <1>2 DEF Server

(* The thread does for its clients what Exchange promises, for any number  *)
(* of commands and every way the world may behave: with a prompt server    *)
(* each client that waits gets the answer to its own command, or an error  *)
(* when the server did not run it; with any other, no part of an answer is *)
(* told to two clients.                                                    *)
THEOREM SoapImplements == Spec => Implements
  <1>1. SoapInv /\ ToldInv /\ [Next]_vars => [Exchange!Next]_(Exchange!exchangeVars)
    <2> SUFFICES ASSUME SoapInv, ToldInv, [Next]_vars PROVE [Exchange!Next]_(Exchange!exchangeVars)
      OBVIOUS
    <2>1. CASE UNCHANGED vars
      BY <2>1, ExchangeStutter DEF vars
    <2>2. CASE write_pipe_or_sock
      BY <2>2, ExchangeThread
    <2>3. CASE write_sock_func
      BY <2>3, ExchangeReply
    <2>4. CASE Server \/ \E i \in Commands : ClientClose(i)
      BY <2>4, ExchangeWorld
    <2> QED
      BY <2>1, <2>2, <2>3, <2>4 DEF Next
  <1> QED
    BY <1>1, ExchangeInit, SoapInvariant, ToldInvariant, PTL DEF Spec, Implements, Exchange!Spec
=============================================================================
