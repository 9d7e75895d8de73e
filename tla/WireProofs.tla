----------------------------- MODULE WireProofs -----------------------------
(***************************************************************************)
(* Proofs about Wire.                                                      *)
(***************************************************************************)
EXTENDS Wire, WellFoundedInduction, SequenceTheorems, TLAPS

-----------------------------------------------------------------------------
(* Induction over numbers, with a set for the predicate                    *)

(* Every set of numbers has a least element.                               *)
LEMMA LeastNumber ==
    ASSUME NEW T \in SUBSET Nat, T # {}
    PROVE  \E x \in T : \A y \in T : x <= y
  <1>1. IsWellFoundedOn(OpToRel(<, Nat), Nat)
    BY NatLessThanWellFounded
  <1>2. PICK x \in T : \A y \in T : ~ (<<y, x>> \in OpToRel(<, Nat))
    BY <1>1, WFMin
  <1>3. \A y \in T : ~ (y < x)
    BY <1>2 DEF OpToRel
  <1> QED
    BY <1>3

(* What has 0, and with every number the next one, has all numbers.        *)
LEMMA SetInduction ==
    ASSUME NEW S, 0 \in S, \A n \in Nat : n \in S => n + 1 \in S
    PROVE  \A n \in Nat : n \in S
  <1> SUFFICES ASSUME \E n \in Nat : n \notin S
               PROVE  FALSE
    OBVIOUS
  <1> DEFINE T == {n \in Nat : n \notin S}
  <1>1. PICK x \in T : \A y \in T : x <= y
    <2>1. T \in SUBSET Nat /\ T # {}
      OBVIOUS
    <2> QED
      BY <2>1, LeastNumber
  <1>2. x # 0 /\ x \in Nat
    OBVIOUS
  <1>3. x - 1 \in Nat /\ x - 1 \notin T
    BY <1>1, <1>2
  <1>4. x - 1 \in S
    BY <1>3
  <1>5. (x - 1) + 1 = x
    BY <1>2
  <1> QED
    BY <1>3, <1>4, <1>5

(* f begins with z and goes on in steps.                                   *)
Follows(f, S, z, step, N) ==
    /\ f \in [0..N -> S]
    /\ f[0] = z
    /\ \A n \in 1..N : f[n] = step[n][f[n - 1]]

(* A function may be defined by what it is at 0 and by a step from each    *)
(* number to the next.                                                     *)
LEMMA Recursion ==
    ASSUME NEW S, NEW z \in S, NEW step \in [Nat -> [S -> S]], NEW N \in Nat
    PROVE  \E f : Follows(f, S, z, step, N)
  <1> DEFINE Good(m, f) == f[0] = z /\ \A n \in 1..m : f[n] = step[n][f[n - 1]]
  <1> DEFINE G == {m \in Nat : \E f \in [0..m -> S] : Good(m, f)}
  <1>1. 0 \in G
    <2>1. [n \in 0..0 |-> z] \in [0..0 -> S]
      OBVIOUS
    <2>2. Good(0, [n \in 0..0 |-> z])
      OBVIOUS
    <2> QED
      BY <2>1, <2>2
  <1>2. ASSUME NEW m \in Nat, m \in G
        PROVE  m + 1 \in G
    <2>1. PICK f \in [0..m -> S] : Good(m, f)
      BY <1>2
    <2> DEFINE g == [n \in 0..m + 1 |-> IF n = m + 1 THEN step[m + 1][f[m]] ELSE f[n]]
    <2>2. f[m] \in S /\ step[m + 1][f[m]] \in S
      OBVIOUS
    <2>3. g \in [0..m + 1 -> S]
      BY <2>2
    <2>4. g[0] = z
      BY <2>1
    <2>5. ASSUME NEW n \in 1..m + 1
          PROVE  g[n] = step[n][g[n - 1]]
      <3>1. CASE n = m + 1
        BY <3>1
      <3>2. CASE n # m + 1
        <4>1. n \in 1..m /\ n - 1 \in 0..m /\ n - 1 # m + 1
          BY <3>2
        <4>2. g[n] = f[n] /\ g[n - 1] = f[n - 1]
          BY <4>1
        <4> QED
          BY <4>1, <4>2, <2>1
      <3> QED
        BY <3>1, <3>2
    <2>6. Good(m + 1, g)
      BY <2>4, <2>5
    <2> HIDE DEF g, Good
    <2> QED
      BY <2>3, <2>6
  <1>3. N \in G
    <2> HIDE DEF G
    <2> QED
      BY <1>1, <1>2, SetInduction
  <1>4. PICK f \in [0..N -> S] : Good(N, f)
    BY <1>3
  <1> QED
    BY <1>4 DEF Follows

(* A function on the first n numbers is a sequence of n elements.          *)
LEMMA FunctionIsSeq ==
    ASSUME NEW S, NEW n \in Nat, NEW f \in [1..n -> S]
    PROVE  f \in Seq(S) /\ Len(f) = n
  <1>1. f \in Seq(S)
    BY SeqDef
  <1>2. Len(f) \in Nat /\ DOMAIN f = 1..Len(f)
    BY <1>1, LenProperties
  <1>3. 1..Len(f) = 1..n
    BY <1>2
  <1>4. Len(f) = n
    BY <1>2, <1>3
  <1> QED
    BY <1>1, <1>4

(* What Append does to a sequence of n elements.                           *)
LEMMA AppendFacts ==
    ASSUME NEW S, NEW s \in Seq(S), NEW n \in Nat, Len(s) = n, NEW e \in S
    PROVE  /\ Append(s, e) \in Seq(S) /\ Len(Append(s, e)) = n + 1
           /\ Append(s, e)[n + 1] = e
           /\ \A i \in 1..n : Append(s, e)[i] = s[i]
  BY AppendProperties

(* What Tail leaves of a sequence of n + 1 elements.                       *)
LEMMA TailFacts ==
    ASSUME NEW S, NEW s \in Seq(S), NEW n \in Nat, Len(s) = n + 1
    PROVE  Tail(s) \in Seq(S) /\ Len(Tail(s)) = n /\ \A i \in 1..n : Tail(s)[i] = s[i + 1]
  <1>1. s # <<>>
    OBVIOUS
  <1> QED
    BY <1>1, HeadTailProperties

-----------------------------------------------------------------------------
(* Rounds of crc8                                                          *)

Nil == [i \in 1..16 |-> 0]

(* The register between two rounds: nothing is left in its lower half.     *)
Clean == {r \in Register : \A i \in 9..16 : r[i] = 0}

(* The register with a byte in its upper half.                             *)
Absorb(crc, byte) == [i \in 1..16 |-> IF i <= 8 THEN Xor(crc[i], byte[i]) ELSE crc[i]]

(* The exclusive or of two bits is a bit.                                  *)
LEMMA XorType == \A a, b \in Bit : Xor(a, b) \in Bit
  BY DEF Xor, Bit

(* What a round makes of each bit.                                         *)
LEMMA RoundBits ==
    ASSUME NEW r \in Register
    PROVE  /\ CrcBit(r) \in [1..16 -> Int]
           /\ \A i \in 1..15 : CrcBit(r)[i] = IF r[1] = 1 /\ i \in {6, 7, 8} THEN 1 - r[i + 1] ELSE r[i + 1]
           /\ CrcBit(r)[16] = 0
  <1> DEFINE c == IF r[1] = 1 THEN Subtract(r) ELSE r
  <1>1. c \in [1..16 -> Int] /\ \A i \in 2..16 : c[i] = IF r[1] = 1 /\ i \in {7, 8, 9} THEN 1 - r[i] ELSE r[i]
    BY DEF Register, Bit, Subtract
  <1> HIDE DEF c
  <1>2. c \in Seq(Int) /\ Len(c) = 16
    <2>1. c \in [1..16 -> Int] /\ 16 \in Nat
      BY <1>1
    <2> QED
      BY <2>1, FunctionIsSeq, Zenon
  <1>3. Tail(c) \in Seq(Int) /\ Len(Tail(c)) = 15 /\ \A i \in 1..15 : Tail(c)[i] = c[i + 1]
    <2>1. PICK n \in Nat : n = 15
      OBVIOUS
    <2>2. Len(c) = n + 1
      BY <1>2, <2>1
    <2>3. Tail(c) \in Seq(Int) /\ Len(Tail(c)) = n /\ \A i \in 1..n : Tail(c)[i] = c[i + 1]
      BY <1>2, <2>2, TailFacts
    <2> QED
      BY <2>1, <2>3
  <1> DEFINE t == Tail(c)
  <1> HIDE DEF t
  <1>4. t \in Seq(Int) /\ Len(t) = 15
    BY <1>3 DEF t
  <1>5. /\ Append(t, 0) \in Seq(Int) /\ Len(Append(t, 0)) = 16 /\ Append(t, 0)[16] = 0
        /\ \A i \in 1..15 : Append(t, 0)[i] = t[i]
    <2>1. PICK n \in Nat, z \in Int : n = 15 /\ z = 0
      OBVIOUS
    <2>2. Len(t) = n
      BY <1>4, <2>1
    <2>3. /\ Append(t, z) \in Seq(Int) /\ Len(Append(t, z)) = n + 1
          /\ Append(t, z)[n + 1] = z
          /\ \A i \in 1..n : Append(t, z)[i] = t[i]
      BY <1>4, <2>2, AppendFacts
    <2>4. n + 1 = 16
      BY <2>1
    <2> QED
      BY <2>1, <2>3, <2>4
  <1>6. CrcBit(r) = Append(t, 0)
    BY DEF CrcBit, c, t
  <1>7. \A i \in 1..15 : CrcBit(r)[i] = c[i + 1]
    BY <1>3, <1>5, <1>6 DEF t
  <1>8. CrcBit(r) \in [1..16 -> Int]
    BY <1>5, <1>6, LenProperties
  <1>9. ASSUME NEW i \in 1..15
        PROVE  CrcBit(r)[i] = IF r[1] = 1 /\ i \in {6, 7, 8} THEN 1 - r[i + 1] ELSE r[i + 1]
    <2>1. i + 1 \in 2..16 /\ (i + 1 \in {7, 8, 9} <=> i \in {6, 7, 8})
      OBVIOUS
    <2> QED
      BY <2>1, <1>1, <1>7
  <1> QED
    BY <1>5, <1>6, <1>8, <1>9

(* A round multiplies the upper half by x and reduces it by the polynomial *)
(* x^8 + x^2 + x + 1.                                                      *)
LEMMA CleanRound ==
    ASSUME NEW r \in Clean
    PROVE  /\ CrcBit(r) \in Clean
           /\ \A i \in 1..5 : CrcBit(r)[i] = r[i + 1]
           /\ CrcBit(r)[6] = Xor(r[7], r[1])
           /\ CrcBit(r)[7] = Xor(r[8], r[1])
           /\ CrcBit(r)[8] = r[1]
  <1>1. r \in Register /\ \A i \in 1..16 : r[i] \in Bit
    BY DEF Clean, Register
  <1>2. \A i \in 9..16 : r[i] = 0
    BY DEF Clean
  <1> DEFINE n == CrcBit(r)
  <1>3. /\ n \in [1..16 -> Int]
        /\ \A i \in 1..15 : n[i] = IF r[1] = 1 /\ i \in {6, 7, 8} THEN 1 - r[i + 1] ELSE r[i + 1]
        /\ n[16] = 0
    BY <1>1, RoundBits
  <1> HIDE DEF n
  <1>4. \A i \in 1..5 : n[i] = r[i + 1]
    BY <1>3
  <1>5. n[6] = Xor(r[7], r[1])
    BY <1>1, <1>3 DEF Xor, Bit
  <1>6. n[7] = Xor(r[8], r[1])
    BY <1>1, <1>3 DEF Xor, Bit
  <1>7. n[8] = r[1]
    <2>1. n[8] = IF r[1] = 1 THEN 1 - r[9] ELSE r[9]
      BY <1>3
    <2> QED
      BY <2>1, <1>1, <1>2 DEF Bit
  <1>8. \A i \in 9..16 : n[i] = 0
    BY <1>2, <1>3
  <1>9. ASSUME NEW i \in 1..16
        PROVE  n[i] \in Bit
    <2>1. CASE i \in 1..5
      BY <2>1, <1>1, <1>4
    <2>2. CASE i = 6
      BY <2>2, <1>1, <1>5, XorType
    <2>3. CASE i = 7
      BY <2>3, <1>1, <1>6, XorType
    <2>4. CASE i = 8
      BY <2>4, <1>1, <1>7
    <2>5. CASE i \in 9..16
      BY <2>5, <1>8 DEF Bit
    <2> QED
      BY <2>1, <2>2, <2>3, <2>4, <2>5
  <1>10. n \in Clean
    BY <1>3, <1>8, <1>9 DEF Clean, Register
  <1> QED
    BY <1>4, <1>5, <1>6, <1>7, <1>10 DEF n

(* Two registers with the same bits in their upper halves are the same.    *)
LEMMA CleanEqual ==
    ASSUME NEW r \in Clean, NEW s \in Clean, \A i \in 1..8 : r[i] = s[i]
    PROVE  r = s
  <1>1. \A i \in 9..16 : r[i] = s[i]
    BY DEF Clean
  <1>2. \A i \in 1..16 : r[i] = s[i]
    BY <1>1
  <1> QED
    BY <1>2 DEF Clean, Register

(* A round loses nothing: different registers stay different.              *)
LEMMA RoundInjective ==
    ASSUME NEW r \in Clean, NEW s \in Clean, CrcBit(r) = CrcBit(s)
    PROVE  r = s
  <1>1. \A i \in 1..16 : r[i] \in Bit /\ s[i] \in Bit
    BY DEF Clean, Register
  <1>2. r[1] = s[1]
    BY CleanRound
  <1>3. \A i \in 2..6 : r[i] = s[i]
    <2> TAKE i \in 2..6
    <2>1. i - 1 \in 1..5 /\ (i - 1) + 1 = i
      OBVIOUS
    <2> QED
      BY <2>1, CleanRound
  <1>4. Xor(r[7], r[1]) = Xor(s[7], s[1]) /\ Xor(r[8], r[1]) = Xor(s[8], s[1])
    BY CleanRound
  <1>5. r[7] = s[7] /\ r[8] = s[8]
    BY <1>1, <1>2, <1>4 DEF Xor, Bit
  <1>6. \A i \in 1..8 : r[i] = s[i]
    BY <1>2, <1>3, <1>5
  <1> QED
    BY <1>6, CleanEqual

(* An empty register stays empty.                                          *)
LEMMA RoundNil == Nil \in Clean /\ CrcBit(Nil) = Nil
  <1>1. Nil \in Clean
    BY DEF Nil, Clean, Register, Bit
  <1>2. \A i \in 1..8 : CrcBit(Nil)[i] = Nil[i]
    BY <1>1, CleanRound DEF Nil, Xor
  <1> QED
    BY <1>1, <1>2, CleanRound, CleanEqual

(* The upper half takes a byte.                                            *)
LEMMA AbsorbClean ==
    ASSUME NEW r \in Clean, NEW b \in Octet
    PROVE  /\ Absorb(r, b) \in Clean
           /\ \A i \in 1..8 : Absorb(r, b)[i] = Xor(r[i], b[i])
  <1>1. \A i \in 1..8 : b[i] \in Bit
    BY DEF Octet
  <1>2. \A i \in 1..16 : r[i] \in Bit
    BY DEF Clean, Register
  <1>3. \A i \in 1..16 : Absorb(r, b)[i] = IF i <= 8 THEN Xor(r[i], b[i]) ELSE r[i]
    BY DEF Absorb
  <1>4. \A i \in 1..8 : Absorb(r, b)[i] = Xor(r[i], b[i])
    BY <1>3
  <1>5. \A i \in 9..16 : Absorb(r, b)[i] = 0
    BY <1>3 DEF Clean
  <1>6. \A i \in 1..16 : Absorb(r, b)[i] \in Bit
    BY <1>1, <1>2, <1>3, XorType
  <1>7. Absorb(r, b) \in Register
    BY <1>6 DEF Absorb, Register
  <1> QED
    BY <1>4, <1>5, <1>7 DEF Clean

(* A byte leaves a register with an empty lower half.                      *)
LEMMA ByteClean ==
    ASSUME NEW r \in Clean, NEW b \in Octet
    PROVE  CrcByte(r, b) \in Clean
  <1>1. \A s \in Clean : CrcBit(s) \in Clean
    BY CleanRound
  <1>2. CrcByte(r, b) = CrcBit(CrcBit(CrcBit(CrcBit(CrcBit(CrcBit(CrcBit(CrcBit(Absorb(r, b)))))))))
    BY DEF CrcByte, Absorb
  <1>3. Absorb(r, b) \in Clean
    BY AbsorbClean
  <1> QED
    BY <1>1, <1>2, <1>3

(* What the rounds make equal was equal before them.                       *)
LEMMA ByteInjective ==
    ASSUME NEW r \in Clean, NEW b \in Octet, NEW s \in Clean, NEW c \in Octet,
           CrcByte(r, b) = CrcByte(s, c)
    PROVE  Absorb(r, b) = Absorb(s, c)
  <1>1. \A x \in Clean : CrcBit(x) \in Clean
    BY CleanRound
  <1>2. \A x, y \in Clean : CrcBit(x) = CrcBit(y) => x = y
    BY RoundInjective
  <1> DEFINE Two(x) == CrcBit(CrcBit(x))
             Four(x) == Two(Two(x))
  <1>3. \A x, y \in Clean : Two(x) \in Clean /\ (Two(x) = Two(y) => x = y)
    BY <1>1, <1>2
  <1>4. \A x, y \in Clean : Four(x) \in Clean /\ (Four(x) = Four(y) => x = y)
    <2> HIDE DEF Two
    <2> QED
      BY <1>3
  <1>5. CrcByte(r, b) = Four(Four(Absorb(r, b))) /\ CrcByte(s, c) = Four(Four(Absorb(s, c)))
    BY DEF CrcByte, Absorb
  <1>6. Absorb(r, b) \in Clean /\ Absorb(s, c) \in Clean
    BY AbsorbClean
  <1> HIDE DEF Four
  <1> QED
    BY <1>4, <1>5, <1>6

(* The same byte keeps different registers apart.                          *)
LEMMA AbsorbInjective ==
    ASSUME NEW r \in Clean, NEW s \in Clean, NEW b \in Octet, Absorb(r, b) = Absorb(s, b)
    PROVE  r = s
  <1>1. \A i \in 1..8 : Xor(r[i], b[i]) = Xor(s[i], b[i])
    BY AbsorbClean
  <1>2. \A i \in 1..8 : r[i] \in Bit /\ s[i] \in Bit /\ b[i] \in Bit
    BY DEF Clean, Register, Octet
  <1>3. \A i \in 1..8 : r[i] = s[i]
    BY <1>1, <1>2 DEF Xor, Bit
  <1> QED
    BY <1>3, CleanEqual

(* The registers crc8 goes through, one before each byte and one at the    *)
(* end.                                                                    *)
IsRun(f, data) ==
    /\ f \in [0..Len(data) -> Clean]
    /\ f[0] = Nil
    /\ \A n \in 1..Len(data) : f[n] = CrcByte(f[n - 1], data[n])

(* crc8 goes through such registers, and takes its result from the last.   *)
LEMMA CrcRun ==
    ASSUME NEW data \in Seq(Octet)
    PROVE  \E f : IsRun(f, data) /\ CrcOf(data) = f[Len(data)]
  <1> DEFINE N == Len(data)
             F(f) == [n \in 0..N |-> IF n = 0 THEN [i \in 1..16 |-> 0] ELSE CrcByte(f[n - 1], data[n])]
             step == [n \in Nat |-> [r \in Clean |-> IF n \in 1..N THEN CrcByte(r, data[n]) ELSE r]]
  <1>1. N \in Nat /\ \A n \in 1..N : data[n] \in Octet
    OBVIOUS
  <1> HIDE DEF N
  <1>2. step \in [Nat -> [Clean -> Clean]]
    BY <1>1, ByteClean
  <1>3. Nil \in Clean
    BY RoundNil
  <1>4. PICK g \in [0..N -> Clean] : g[0] = Nil /\ \A n \in 1..N : g[n] = step[n][g[n - 1]]
    <2> HIDE DEF step
    <2>1. PICK g : Follows(g, Clean, Nil, step, N)
      BY <1>1, <1>2, <1>3, Recursion
    <2> QED
      BY <2>1 DEF Follows
  <1>5. ASSUME NEW n \in 1..N
        PROVE  g[n] = CrcByte(g[n - 1], data[n])
    <2>1. n \in Nat /\ n - 1 \in 0..N
      BY <1>1
    <2>2. g[n - 1] \in Clean
      BY <2>1
    <2>3. step[n][g[n - 1]] = CrcByte(g[n - 1], data[n])
      BY <2>1, <2>2
    <2> HIDE DEF step
    <2> QED
      BY <1>4, <2>3
  <1>6. g = F(g)
    <2>1. [i \in 1..16 |-> 0] = Nil
      BY DEF Nil
    <2>2. \A n \in 0..N : n # 0 => n \in 1..N
      BY <1>1
    <2> HIDE DEF step
    <2>3. \A n \in 0..N : g[n] = IF n = 0 THEN Nil ELSE CrcByte(g[n - 1], data[n])
      BY <1>4, <1>5, <2>2
    <2> QED
      BY <2>1, <2>3
  <1> DEFINE c == CHOOSE f : f = F(f)
  <1>7. c = F(c)
    <2> HIDE DEF F
    <2> QED
      BY <1>6
  <1>8. CrcOf(data) = c[N]
    BY DEF CrcOf, N
  <1> HIDE DEF c
  <1>9. /\ c[0] = Nil
        /\ \A n \in 1..N : c[n] = CrcByte(c[n - 1], data[n])
    <2>1. 0 \in 0..N /\ \A n \in 1..N : n \in 0..N /\ n # 0
      BY <1>1
    <2>2. \A n \in 0..N : c[n] = IF n = 0 THEN [i \in 1..16 |-> 0] ELSE CrcByte(c[n - 1], data[n])
      BY <1>7
    <2> QED
      BY <2>1, <2>2 DEF Nil
  <1>10. \A n \in 0..N : c[n] \in Clean
    <2> DEFINE S == {n \in Nat : n <= N => c[n] \in Clean}
    <2>1. 0 \in S
      BY <1>3, <1>9
    <2>2. ASSUME NEW n \in Nat, n \in S
          PROVE  n + 1 \in S
      <3> SUFFICES ASSUME n + 1 <= N
                   PROVE  c[n + 1] \in Clean
        OBVIOUS
      <3>1. n + 1 \in 1..N /\ (n + 1) - 1 = n /\ c[n] \in Clean
        BY <1>1, <2>2
      <3> QED
        BY <1>1, <1>9, <3>1, ByteClean
    <2> HIDE DEF S
    <2>3. \A n \in Nat : n \in S
      BY <2>1, <2>2, SetInduction
    <2> QED
      BY <1>1, <2>3 DEF S
  <1>11. c \in [0..N -> Clean]
    BY <1>7, <1>10
  <1> QED
    BY <1>8, <1>9, <1>11 DEF IsRun, N

(* The upper half of a register.                                           *)
LEMMA UpperHalf ==
    ASSUME NEW r \in Clean
    PROVE  /\ SubSeq(r, 1, 8) \in Octet
           /\ \A i \in 1..8 : SubSeq(r, 1, 8)[i] = r[i]
           /\ SubSeq(r, 1, 8) = Zero <=> r = Nil
  <1>1. \A i \in 1..8 : r[i] \in Bit
    BY DEF Clean, Register
  <1> DEFINE u == SubSeq(r, 1, 8)
  <1>2. u \in Seq(Bit) /\ Len(u) = 8 /\ \A i \in 1..8 : u[i] = r[i]
    <2>1. PICK m \in Int, n \in Int : m = 1 /\ n = 8
      OBVIOUS
    <2>2. \A i \in m..n : r[i] \in Bit
      BY <1>1, <2>1
    <2>3. /\ SubSeq(r, m, n) \in Seq(Bit)
          /\ Len(SubSeq(r, m, n)) = IF m <= n THEN n - m + 1 ELSE 0
          /\ \A i \in 1..n - m + 1 : SubSeq(r, m, n)[i] = r[m + i - 1]
      BY <2>2, SubSeqProperties
    <2>4. n - m + 1 = 8 /\ m <= n /\ \A i \in 1..8 : m + i - 1 = i
      BY <2>1
    <2> QED
      BY <2>1, <2>3, <2>4
  <1> HIDE DEF u
  <1>3. u \in Octet
    BY <1>2, LenProperties DEF Octet
  <1>4. u = Zero <=> \A i \in 1..8 : u[i] = 0
    BY <1>3 DEF Octet, Zero
  <1>5. r = Nil <=> \A i \in 1..8 : r[i] = 0
    BY RoundNil, CleanEqual DEF Nil
  <1> QED
    BY <1>2, <1>3, <1>4, <1>5 DEF u

(* As long as the bytes are the same, so are the registers.                *)
LEMMA SameSoFar ==
    ASSUME NEW d \in Seq(Octet), NEW e \in Seq(Octet), NEW f, NEW g,
           IsRun(f, d), IsRun(g, e),
           NEW m \in Nat, m <= Len(d), m <= Len(e), \A n \in 1..m : d[n] = e[n]
    PROVE  f[m] = g[m]
  <1> DEFINE S == {n \in Nat : n <= m => f[n] = g[n]}
  <1>0. Len(d) \in Nat /\ Len(e) \in Nat
    OBVIOUS
  <1>1. 0 \in S
    BY DEF IsRun
  <1>2. ASSUME NEW n \in Nat, n \in S
        PROVE  n + 1 \in S
    <2> SUFFICES ASSUME n + 1 <= m
                 PROVE  f[n + 1] = g[n + 1]
      OBVIOUS
    <2>1. n + 1 \in 1..Len(d) /\ n + 1 \in 1..Len(e) /\ n + 1 \in 1..m /\ (n + 1) - 1 = n /\ n <= m
      BY <1>0
    <2>2. f[n] = g[n]
      BY <1>2, <2>1
    <2> QED
      BY <2>1, <2>2 DEF IsRun
  <1> HIDE DEF S
  <1>3. m \in S
    BY <1>1, <1>2, SetInduction
  <1> QED
    BY <1>3 DEF S

(* Registers that differ stay different while the bytes are the same.      *)
LEMMA ApartToTheEnd ==
    ASSUME NEW d \in Seq(Octet), NEW e \in Seq(Octet), NEW f, NEW g,
           IsRun(f, d), IsRun(g, e), Len(e) = Len(d),
           NEW m \in 0..Len(d), f[m] # g[m], \A n \in m + 1..Len(d) : d[n] = e[n]
    PROVE  f[Len(d)] # g[Len(d)]
  <1> DEFINE N == Len(d)
             S == {n \in Nat : m + n <= N => f[m + n] # g[m + n]}
  <1>0. N \in Nat /\ m \in Nat /\ m <= N
    OBVIOUS
  <1>1. 0 \in S
    BY <1>0
  <1>2. ASSUME NEW n \in Nat, n \in S
        PROVE  n + 1 \in S
    <2> SUFFICES ASSUME m + (n + 1) <= N
                 PROVE  f[m + (n + 1)] # g[m + (n + 1)]
      OBVIOUS
    <2> DEFINE p == m + n
    <2>1. /\ p + 1 = m + (n + 1) /\ p + 1 \in 1..N /\ p + 1 \in m + 1..N
          /\ (p + 1) - 1 = p /\ p \in 0..N
      BY <1>0
    <2>2. f[p] # g[p]
      BY <1>0, <1>2, <2>1
    <2> HIDE DEF p
    <2>3. f[p] \in Clean /\ g[p] \in Clean /\ d[p + 1] \in Octet /\ e[p + 1] = d[p + 1]
      <3>1. f[p] \in Clean /\ g[p] \in Clean
        BY <2>1 DEF IsRun
      <3>2. d[p + 1] \in Octet
        BY <2>1, ElementOfSeq
      <3>3. e[p + 1] = d[p + 1]
        BY <2>1
      <3> QED
        BY <3>1, <3>2, <3>3
    <2>4. f[p + 1] = CrcByte(f[p], d[p + 1]) /\ g[p + 1] = CrcByte(g[p], d[p + 1])
      BY <2>1, <2>3 DEF IsRun
    <2>5. f[p + 1] # g[p + 1]
      BY <2>2, <2>3, <2>4, ByteInjective, AbsorbInjective
    <2> QED
      BY <2>1, <2>5
  <1>3. N - m \in Nat /\ m + (N - m) = N
    BY <1>0
  <1> HIDE DEF S
  <1>4. N - m \in S
    BY <1>1, <1>2, <1>3, SetInduction
  <1> QED
    BY <1>0, <1>3, <1>4 DEF S

(* The checksum is a byte.                                                 *)
LEMMA CrcType ==
    ASSUME NEW data \in Seq(Octet)
    PROVE  crc8(data) \in Octet
  <1>1. PICK f : IsRun(f, data) /\ CrcOf(data) = f[Len(data)]
    BY CrcRun
  <1>2. Len(data) \in 0..Len(data)
    OBVIOUS
  <1>3. CrcOf(data) \in Clean
    BY <1>1, <1>2 DEF IsRun
  <1> QED
    BY <1>3, UpperHalf DEF crc8

(* A text with its checksum behind it has the checksum 0.                  *)
LEMMA CrcCancels ==
    ASSUME NEW data \in Seq(Octet)
    PROVE  crc_data(data) \in Seq(Octet) /\ crc8(crc_data(data)) = Zero
  <1>1. PICK f : IsRun(f, data) /\ CrcOf(data) = f[Len(data)]
    BY CrcRun
  <1> DEFINE c == crc8(data)
             all == crc_data(data)
  <1>2. PICK N \in Nat : N = Len(data)
    OBVIOUS
  <1>3. c \in Octet
    BY CrcType
  <1> HIDE DEF c
  <1>4. /\ all \in Seq(Octet) /\ Len(all) = N + 1 /\ all[N + 1] = c
        /\ \A n \in 1..N : all[n] = data[n]
    BY <1>2, <1>3, AppendFacts DEF crc_data, c
  <1> HIDE DEF all
  <1>5. PICK g : IsRun(g, all) /\ CrcOf(all) = g[Len(all)]
    BY <1>4, CrcRun
  <1>6. g[N] = f[N]
    BY <1>1, <1>2, <1>4, <1>5, SameSoFar
  <1>7. f[N] \in Clean /\ c = SubSeq(f[N], 1, 8)
    <2>1. N \in 0..Len(data)
      BY <1>2
    <2> QED
      BY <1>1, <1>2, <2>1 DEF IsRun, c, crc8
  <1>8. Absorb(f[N], c) = Nil
    <2>1. \A i \in 1..8 : c[i] = f[N][i]
      BY <1>7, UpperHalf
    <2>2. Absorb(f[N], c) \in Clean /\ \A i \in 1..8 : Absorb(f[N], c)[i] = 0
      BY <1>3, <1>7, <2>1, AbsorbClean DEF Xor
    <2>3. \A i \in 1..8 : Nil[i] = 0
      BY DEF Nil
    <2> QED
      BY <2>2, <2>3, RoundNil, CleanEqual
  <1>9. CrcByte(f[N], c) = Nil
    <2>1. CrcByte(f[N], c) = CrcBit(CrcBit(CrcBit(CrcBit(CrcBit(CrcBit(CrcBit(CrcBit(Absorb(f[N], c)))))))))
      BY DEF CrcByte, Absorb
    <2> QED
      BY <2>1, <1>8, RoundNil
  <1>10. g[N + 1] = CrcByte(g[N], c)
    <2>1. N + 1 \in 1..Len(all) /\ (N + 1) - 1 = N
      BY <1>4
    <2> QED
      BY <1>4, <1>5, <2>1 DEF IsRun
  <1>11. CrcOf(all) = Nil
    BY <1>4, <1>5, <1>6, <1>9, <1>10
  <1>12. crc8(all) = Zero
    BY <1>11, RoundNil, UpperHalf DEF crc8
  <1> QED
    BY <1>4, <1>12 DEF all

(* Damage that ever makes a difference to the register is seen in the      *)
(* checksum.                                                               *)
LEMMA DamageSeen ==
    ASSUME NEW d \in Seq(Octet), NEW e \in Seq(Octet), Len(e) = Len(d), crc8(d) = Zero,
           NEW m \in 0..Len(d), \A n \in m + 1..Len(d) : d[n] = e[n],
           \A f, g : IsRun(f, d) /\ IsRun(g, e) => f[m] # g[m]
    PROVE  crc8(e) # Zero
  <1>1. PICK f : IsRun(f, d) /\ CrcOf(d) = f[Len(d)]
    BY CrcRun
  <1>2. PICK g : IsRun(g, e) /\ CrcOf(e) = g[Len(e)]
    BY CrcRun
  <1>3. f[m] # g[m]
    BY <1>1, <1>2
  <1>4. f[Len(d)] # g[Len(d)]
    BY <1>1, <1>2, <1>3, ApartToTheEnd
  <1>5. Len(d) \in 0..Len(d)
    OBVIOUS
  <1>6. f[Len(d)] \in Clean /\ g[Len(d)] \in Clean
    BY <1>1, <1>2, <1>5 DEF IsRun
  <1>7. f[Len(d)] = Nil
    BY <1>1, <1>6, UpperHalf DEF crc8
  <1> QED
    BY <1>2, <1>4, <1>6, <1>7, UpperHalf DEF crc8

-----------------------------------------------------------------------------
(* How a difference travels through the rounds                             *)

(* The bits of r changed where e has a 1.                                  *)
Plus(r, e) == [i \in 1..16 |-> Xor(r[i], e[i])]

(* What becomes of x in N rounds.                                          *)
IsOrbit(o, x, N) ==
    /\ o \in [0..N -> Clean]
    /\ o[0] = x
    /\ \A n \in 1..N : o[n] = CrcBit(o[n - 1])

(* Every register has its rounds.                                          *)
LEMMA OrbitExists ==
    ASSUME NEW x \in Clean, NEW N \in Nat
    PROVE  \E o : IsOrbit(o, x, N)
  <1> DEFINE step == [n \in Nat |-> [r \in Clean |-> CrcBit(r)]]
  <1>1. step \in [Nat -> [Clean -> Clean]]
    BY CleanRound
  <1>2. \A n \in Nat, r \in Clean : step[n][r] = CrcBit(r)
    OBVIOUS
  <1> HIDE DEF step
  <1>3. PICK o : Follows(o, Clean, x, step, N)
    BY <1>1, Recursion
  <1>4. ASSUME NEW n \in 1..N
        PROVE  o[n] = CrcBit(o[n - 1])
    <2>1. n \in Nat /\ n - 1 \in 0..N
      OBVIOUS
    <2>2. o[n - 1] \in Clean
      BY <1>3, <2>1 DEF Follows
    <2> QED
      BY <1>2, <1>3, <2>1, <2>2 DEF Follows
  <1> QED
    BY <1>3, <1>4 DEF Follows, IsOrbit

(* One round of an orbit.                                                  *)
LEMMA OrbitStep ==
    ASSUME NEW o, NEW x, NEW N \in Nat, IsOrbit(o, x, N), NEW n \in Nat, n + 1 <= N
    PROVE  o[n] \in Clean /\ o[n + 1] \in Clean /\ o[n + 1] = CrcBit(o[n])
  <1>1. n \in 0..N /\ n + 1 \in 0..N /\ n + 1 \in 1..N /\ (n + 1) - 1 = n
    OBVIOUS
  <1> QED
    BY <1>1 DEF IsOrbit

(* Two orbits that meet have met all the way back.                         *)
LEMMA OrbitsMeet ==
    ASSUME NEW a, NEW x, NEW N \in Nat, IsOrbit(a, x, N),
           NEW b, NEW y, NEW M \in Nat, IsOrbit(b, y, M),
           NEW p \in Nat, NEW t \in Nat, p + t <= N, t <= M, a[p + t] = b[t]
    PROVE  a[p] = y
  <1> DEFINE S == {n \in Nat : p + n <= N /\ n <= M /\ a[p + n] = b[n] => a[p] = y}
  <1>1. 0 \in S
    BY DEF IsOrbit
  <1>2. ASSUME NEW n \in Nat, n \in S
        PROVE  n + 1 \in S
    <2> SUFFICES ASSUME p + (n + 1) <= N, n + 1 <= M, a[p + (n + 1)] = b[n + 1]
                 PROVE  a[p] = y
      OBVIOUS
    <2> DEFINE q == p + n
    <2>1. q \in Nat /\ q + 1 <= N /\ q + 1 = p + (n + 1) /\ q <= N /\ n <= M
      OBVIOUS
    <2> HIDE DEF q
    <2>2. a[q] \in Clean /\ a[q + 1] = CrcBit(a[q])
      BY <2>1, OrbitStep
    <2>3. b[n] \in Clean /\ b[n + 1] = CrcBit(b[n])
      BY OrbitStep
    <2>4. a[q] = b[n]
      BY <2>1, <2>2, <2>3, RoundInjective
    <2> QED
      BY <1>2, <2>1, <2>4 DEF q
  <1> HIDE DEF S
  <1>3. t \in S
    BY <1>1, <1>2, SetInduction
  <1> QED
    BY <1>3 DEF S

(* The upper half of y is that of x, shifted by m.                         *)
Shifted(y, x, m) == \A i \in 1..8 : y[i] = IF i + m <= 8 THEN x[i + m] ELSE 0

(* As long as the top bits are 0, a round is a shift.                      *)
LEMMA OrbitShifts ==
    ASSUME NEW o, NEW x \in Clean, NEW N \in Nat, IsOrbit(o, x, N),
           NEW m \in 0..8, m <= N, \A i \in 1..m : x[i] = 0
    PROVE  Shifted(o[m], x, m)
  <1> DEFINE S == {n \in Nat : n <= m => \A i \in 1..8 : o[n][i] = IF i + n <= 8 THEN x[i + n] ELSE 0}
  <1>1. 0 \in S
    BY DEF IsOrbit
  <1>2. ASSUME NEW n \in Nat, n \in S
        PROVE  n + 1 \in S
    <2> SUFFICES ASSUME n + 1 <= m
                 PROVE  \A i \in 1..8 : o[n + 1][i] = IF i + (n + 1) <= 8 THEN x[i + (n + 1)] ELSE 0
      OBVIOUS
    <2>1. \A i \in 1..8 : o[n][i] = IF i + n <= 8 THEN x[i + n] ELSE 0
      BY <1>2
    <2>2. o[n] \in Clean /\ o[n + 1] = CrcBit(o[n])
      BY OrbitStep
    <2>3. o[n][1] = 0
      <3>1. 1 + n <= 8 /\ 1 + n \in 1..m
        OBVIOUS
      <3> QED
        BY <2>1, <3>1
    <2>4. \A i \in 1..8 : o[n][i] \in Bit
      BY <2>2 DEF Clean, Register
    <2>5. \A i \in 1..7 : o[n + 1][i] = o[n][i + 1]
      <3>1. /\ \A i \in 1..5 : o[n + 1][i] = o[n][i + 1]
            /\ o[n + 1][6] = Xor(o[n][7], o[n][1])
            /\ o[n + 1][7] = Xor(o[n][8], o[n][1])
        BY <2>2, CleanRound
      <3>2. o[n + 1][6] = o[n][7] /\ o[n + 1][7] = o[n][8]
        BY <2>3, <2>4, <3>1 DEF Xor, Bit
      <3> QED
        BY <3>1, <3>2
    <2>6. o[n + 1][8] = 0
      BY <2>2, <2>3, CleanRound
    <2> TAKE i \in 1..8
    <2>7. CASE i = 8
      BY <2>6, <2>7
    <2>8. CASE i # 8
      <3>1. i \in 1..7 /\ i + 1 \in 1..8 /\ (i + 1) + n = i + (n + 1)
        BY <2>8
      <3>2. o[n][i + 1] = IF (i + 1) + n <= 8 THEN x[(i + 1) + n] ELSE 0
        BY <2>1, <3>1
      <3> QED
        BY <2>5, <3>1, <3>2
    <2> QED
      BY <2>7, <2>8
  <1> HIDE DEF S
  <1>3. m \in S
    BY <1>1, <1>2, SetInduction
  <1> QED
    BY <1>3 DEF S, Shifted

(* The sum of two registers.                                               *)
LEMMA PlusClean ==
    ASSUME NEW r \in Clean, NEW e \in Clean
    PROVE  Plus(r, e) \in Clean /\ \A i \in 1..16 : Plus(r, e)[i] = Xor(r[i], e[i])
  <1>1. \A i \in 1..16 : r[i] \in Bit /\ e[i] \in Bit
    BY DEF Clean, Register
  <1>2. \A i \in 9..16 : r[i] = 0 /\ e[i] = 0
    BY DEF Clean
  <1>3. \A i \in 1..16 : Plus(r, e)[i] = Xor(r[i], e[i])
    BY DEF Plus
  <1>4. Plus(r, e) \in Register
    BY <1>1, XorType DEF Plus, Register
  <1>5. \A i \in 9..16 : Plus(r, e)[i] = 0
    BY <1>2, <1>3 DEF Xor
  <1> QED
    BY <1>3, <1>4, <1>5 DEF Clean

(* A round of a sum is the sum of the rounds.                              *)
LEMMA RoundLinear ==
    ASSUME NEW r \in Clean, NEW e \in Clean
    PROVE  CrcBit(Plus(r, e)) = Plus(CrcBit(r), CrcBit(e))
  <1> DEFINE s == Plus(r, e)
             a == CrcBit(r)
             b == CrcBit(e)
             c == CrcBit(s)
  <1>1. s \in Clean /\ \A i \in 1..8 : s[i] = Xor(r[i], e[i])
    BY PlusClean
  <1> HIDE DEF s
  <1>2. /\ a \in Clean /\ a[6] = Xor(r[7], r[1]) /\ a[7] = Xor(r[8], r[1]) /\ a[8] = r[1]
        /\ \A i \in 1..5 : a[i] = r[i + 1]
    BY CleanRound
  <1>3. /\ b \in Clean /\ b[6] = Xor(e[7], e[1]) /\ b[7] = Xor(e[8], e[1]) /\ b[8] = e[1]
        /\ \A i \in 1..5 : b[i] = e[i + 1]
    BY CleanRound
  <1>4. /\ c \in Clean /\ c[6] = Xor(s[7], s[1]) /\ c[7] = Xor(s[8], s[1]) /\ c[8] = s[1]
        /\ \A i \in 1..5 : c[i] = s[i + 1]
    BY <1>1, CleanRound
  <1> HIDE DEF a, b, c
  <1>5. \A i \in 1..8 : r[i] \in Bit /\ e[i] \in Bit
    BY DEF Clean, Register
  <1>6. \A i \in 1..5 : c[i] = Xor(a[i], b[i])
    <2> TAKE i \in 1..5
    <2>1. i + 1 \in 1..8
      OBVIOUS
    <2> QED
      BY <2>1, <1>1, <1>2, <1>3, <1>4
  <1>7. c[6] = Xor(a[6], b[6])
    <2>1. c[6] = Xor(Xor(r[7], e[7]), Xor(r[1], e[1]))
      BY <1>1, <1>4
    <2> QED
      BY <2>1, <1>2, <1>3, <1>5 DEF Xor, Bit
  <1>8. c[7] = Xor(a[7], b[7])
    <2>1. c[7] = Xor(Xor(r[8], e[8]), Xor(r[1], e[1]))
      BY <1>1, <1>4
    <2> QED
      BY <2>1, <1>2, <1>3, <1>5 DEF Xor, Bit
  <1>9. c[8] = Xor(a[8], b[8])
    BY <1>1, <1>2, <1>3, <1>4
  <1>10. \A i \in 1..8 : c[i] = Xor(a[i], b[i])
    BY <1>6, <1>7, <1>8, <1>9
  <1>11. Plus(a, b) \in Clean /\ \A i \in 1..8 : Plus(a, b)[i] = Xor(a[i], b[i])
    BY <1>2, <1>3, PlusClean
  <1>12. c = Plus(a, b)
    BY <1>4, <1>10, <1>11, CleanEqual
  <1> QED
    BY <1>12 DEF a, b, c, s

(* Over a byte, a difference goes through eight rounds.                    *)
LEMMA ByteLinear ==
    ASSUME NEW o, NEW x, NEW N \in Nat, IsOrbit(o, x, N), NEW m \in Nat, m + 8 <= N,
           NEW r \in Clean, NEW b \in Octet, NEW s \in Clean, NEW c \in Octet,
           Absorb(s, c) = Plus(Absorb(r, b), o[m])
    PROVE  CrcByte(s, c) = Plus(CrcByte(r, b), o[m + 8])
  <1>1. Absorb(r, b) \in Clean
    BY AbsorbClean
  <1> DEFINE A == Absorb(r, b)
  <1>2. ASSUME NEW y \in Clean, NEW n \in Nat, n + 1 <= N
        PROVE  CrcBit(y) \in Clean /\ CrcBit(Plus(y, o[n])) = Plus(CrcBit(y), o[n + 1])
    <2>1. o[n] \in Clean /\ o[n + 1] = CrcBit(o[n])
      BY <1>2, OrbitStep
    <2> QED
      BY <2>1, CleanRound, RoundLinear
  <1>3. ASSUME NEW y \in Clean, NEW n \in Nat, n + 2 <= N
        PROVE  CrcBit(CrcBit(y)) \in Clean /\ CrcBit(CrcBit(Plus(y, o[n]))) = Plus(CrcBit(CrcBit(y)), o[n + 2])
    <2>1. n + 1 <= N /\ n + 1 \in Nat /\ (n + 1) + 1 = n + 2
      BY <1>3
    <2>2. CrcBit(y) \in Clean /\ CrcBit(Plus(y, o[n])) = Plus(CrcBit(y), o[n + 1])
      BY <1>2, <2>1
    <2>3. CrcBit(CrcBit(y)) \in Clean /\ CrcBit(Plus(CrcBit(y), o[n + 1])) = Plus(CrcBit(CrcBit(y)), o[(n + 1) + 1])
      BY <1>2, <1>3, <2>1, <2>2
    <2> QED
      BY <2>1, <2>2, <2>3
  <1> DEFINE Two(y) == CrcBit(CrcBit(y))
             Four(y) == Two(Two(y))
  <1>4. ASSUME NEW y \in Clean, NEW n \in Nat, n + 4 <= N
        PROVE  Four(y) \in Clean /\ Four(Plus(y, o[n])) = Plus(Four(y), o[n + 4])
    <2> HIDE DEF Two
    <2>1. \A z \in Clean, k \in Nat : k + 2 <= N => Two(z) \in Clean /\ Two(Plus(z, o[k])) = Plus(Two(z), o[k + 2])
      BY <1>3 DEF Two
    <2>2. n + 2 <= N /\ n + 2 \in Nat /\ (n + 2) + 2 = n + 4
      BY <1>4
    <2>3. Two(y) \in Clean /\ Two(Plus(y, o[n])) = Plus(Two(y), o[n + 2])
      BY <2>1, <2>2
    <2>4. Two(Two(y)) \in Clean /\ Two(Plus(Two(y), o[n + 2])) = Plus(Two(Two(y)), o[(n + 2) + 2])
      BY <1>4, <2>1, <2>2, <2>3
    <2> QED
      BY <2>2, <2>3, <2>4
  <1>5. CrcByte(r, b) = Four(Four(A)) /\ CrcByte(s, c) = Four(Four(Absorb(s, c)))
    BY DEF CrcByte, Absorb
  <1> HIDE DEF A, Four
  <1>6. m + 4 <= N /\ m + 4 \in Nat /\ (m + 4) + 4 = m + 8
    OBVIOUS
  <1>7. Four(A) \in Clean /\ Four(Plus(A, o[m])) = Plus(Four(A), o[m + 4])
    BY <1>1, <1>4, <1>6 DEF A
  <1>8. Four(Plus(Four(A), o[m + 4])) = Plus(Four(Four(A)), o[(m + 4) + 4])
    BY <1>4, <1>6, <1>7
  <1> QED
    BY <1>5, <1>6, <1>7, <1>8 DEF A

(* A byte that differs where e has a 1 changes the register there.         *)
LEMMA AbsorbDifference ==
    ASSUME NEW r \in Clean, NEW b \in Octet, NEW c \in Octet, NEW e \in Clean,
           \A i \in 1..8 : c[i] = Xor(b[i], e[i])
    PROVE  Absorb(r, c) = Plus(Absorb(r, b), e)
  <1>1. Absorb(r, b) \in Clean /\ \A i \in 1..8 : Absorb(r, b)[i] = Xor(r[i], b[i])
    BY AbsorbClean
  <1>2. Absorb(r, c) \in Clean /\ \A i \in 1..8 : Absorb(r, c)[i] = Xor(r[i], c[i])
    BY AbsorbClean
  <1>3. /\ Plus(Absorb(r, b), e) \in Clean
        /\ \A i \in 1..8 : Plus(Absorb(r, b), e)[i] = Xor(Absorb(r, b)[i], e[i])
    BY <1>1, PlusClean
  <1>4. \A i \in 1..8 : r[i] \in Bit /\ b[i] \in Bit /\ e[i] \in Bit
    BY DEF Clean, Register, Octet
  <1>5. \A i \in 1..8 : Xor(r[i], Xor(b[i], e[i])) = Xor(Xor(r[i], b[i]), e[i])
    BY <1>4 DEF Xor, Bit
  <1>6. \A i \in 1..8 : Absorb(r, c)[i] = Plus(Absorb(r, b), e)[i]
    BY <1>1, <1>2, <1>3, <1>5
  <1> QED
    BY <1>2, <1>3, <1>6, CleanEqual

(* A difference that the next byte does not take away stays.               *)
LEMMA DifferenceStays ==
    ASSUME NEW r \in Clean, NEW b \in Octet, NEW c \in Octet, NEW x \in Clean, NEW e \in Clean,
           \A i \in 1..8 : c[i] = Xor(b[i], e[i]),
           CrcByte(Plus(r, x), c) = CrcByte(r, b)
    PROVE  x = e
  <1>1. Plus(r, x) \in Clean /\ \A i \in 1..8 : Plus(r, x)[i] = Xor(r[i], x[i])
    BY PlusClean
  <1>2. Absorb(Plus(r, x), c) = Absorb(r, b)
    BY <1>1, ByteInjective
  <1>3. \A i \in 1..8 : Xor(Xor(r[i], x[i]), Xor(b[i], e[i])) = Xor(r[i], b[i])
    BY <1>1, <1>2, AbsorbClean
  <1>4. \A i \in 1..8 : r[i] \in Bit /\ b[i] \in Bit /\ e[i] \in Bit /\ x[i] \in Bit
    BY DEF Clean, Register, Octet
  <1>5. \A i \in 1..8 : x[i] = e[i]
    BY <1>3, <1>4 DEF Xor, Bit
  <1> QED
    BY <1>5, CleanEqual

(* What a burst puts into its first byte, eight rounds later, is not what  *)
(* it puts into the second one: shifted back, their bits are in different  *)
(* places.                                                                 *)
LEMMA BurstLeavesTrace ==
    ASSUME NEW s \in 1..8, NEW bits \in Octet, bits[1] = 1, NEW E1 \in Clean, NEW E2 \in Clean,
           \A i \in 1..8 : E1[i] = IF i >= s THEN bits[i - s + 1] ELSE 0,
           \A i \in 1..8 : E2[i] = IF i < s THEN bits[i + 9 - s] ELSE 0,
           NEW o, IsOrbit(o, E1, 8)
    PROVE  o[8] # E2
  <1> SUFFICES ASSUME o[8] = E2
               PROVE  FALSE
    OBVIOUS
  <1> DEFINE hi == [i \in 1..16 |-> IF i \in 10 - s..8 THEN bits[i] ELSE 0]
             t == 9 - s
  <1>1. \A i \in 1..8 : bits[i] \in Bit
    BY DEF Octet
  <1>2. hi \in Clean
    BY <1>1 DEF Clean, Register, Bit
  <1>3. t \in Nat /\ t \in 0..8 /\ t >= 1 /\ 8 \in Nat
    OBVIOUS
  <1>4. PICK b : IsOrbit(b, hi, t)
    BY <1>2, <1>3, OrbitExists
  <1>5. b[t] = E2
    <2>1. \A i \in 1..t : hi[i] = 0
      OBVIOUS
    <2>2. \A i \in 1..8 : b[t][i] = IF i + t <= 8 THEN hi[i + t] ELSE 0
      <3> HIDE DEF hi, t
      <3>1. t <= t
        BY <1>3
      <3> QED
        BY <1>2, <1>3, <1>4, <2>1, <3>1, OrbitShifts DEF Shifted
    <2>3. \A i \in 1..8 : b[t][i] = E2[i]
      <3> TAKE i \in 1..8
      <3>1. CASE i < s
        <4>1. i + t <= 8 /\ i + t \in 10 - s..8 /\ i + t \in 1..16 /\ i + t = i + 9 - s
          BY <3>1
        <4>2. hi[i + t] = bits[i + t]
          BY <4>1
        <4> QED
          BY <2>2, <3>1, <4>1, <4>2
      <3>2. CASE i >= s
        <4>1. ~ (i + t <= 8)
          BY <3>2
        <4> QED
          BY <2>2, <3>2, <4>1
      <3> QED
        BY <3>1, <3>2
    <2>4. b[t] \in Clean
      BY <1>3, <1>4 DEF IsOrbit
    <2> QED
      BY <2>3, <2>4, CleanEqual
  <1>6. o[s - 1] = hi
    <2> DEFINE p == s - 1
    <2>1. p \in Nat /\ p + t = 8 /\ p + t <= 8 /\ t <= t
      OBVIOUS
    <2>2. o[p + t] = b[t]
      BY <1>5, <2>1
    <2> HIDE DEF p, t, hi
    <2>3. o[p] = hi
      BY <1>3, <1>4, <2>1, <2>2, OrbitsMeet
    <2> QED
      BY <2>3 DEF p
  <1>7. o[s - 1][1] = 1
    <2>1. PICK m \in 0..8 : m = s - 1
      OBVIOUS
    <2>2. \A i \in 1..m : E1[i] = 0
      BY <2>1
    <2>3. \A i \in 1..8 : o[m][i] = IF i + m <= 8 THEN E1[i + m] ELSE 0
      <3>1. PICK N \in Nat : N = 8 /\ m <= N
        OBVIOUS
      <3>2. IsOrbit(o, E1, N)
        BY <3>1
      <3>3. Shifted(o[m], E1, m)
        BY <2>2, <3>1, <3>2, OrbitShifts
      <3> QED
        BY <3>3 DEF Shifted
    <2>4. o[m][1] = E1[1 + m]
      BY <2>1, <2>3
    <2>5. 1 + m = s /\ s - s + 1 = 1
      BY <2>1
    <2>6. E1[s] = bits[1]
      BY <2>5
    <2> QED
      BY <2>1, <2>4, <2>5, <2>6
  <1>8. hi[1] = 0
    BY <1>3
  <1> HIDE DEF hi
  <1> QED
    BY <1>6, <1>7, <1>8

(* Every byte is the upper half of a register.                             *)
LEMMA Widen ==
    ASSUME NEW u \in Octet
    PROVE  \E x \in Clean : \A i \in 1..8 : x[i] = u[i]
  <1> DEFINE x == [i \in 1..16 |-> IF i <= 8 THEN u[i] ELSE 0]
  <1>1. \A i \in 1..8 : u[i] \in Bit
    BY DEF Octet
  <1>2. x \in Clean
    BY <1>1 DEF Clean, Register, Bit
  <1>3. \A i \in 1..8 : x[i] = u[i]
    OBVIOUS
  <1> HIDE DEF x
  <1> QED
    BY <1>2, <1>3

(* Only an empty register can be added unnoticed.                          *)
LEMMA PlusNothing ==
    ASSUME NEW r \in Clean, NEW x \in Clean, Plus(r, x) = r
    PROVE  x = Nil
  <1>1. \A i \in 1..8 : r[i] = Xor(r[i], x[i])
    BY PlusClean
  <1>2. \A i \in 1..8 : r[i] \in Bit /\ x[i] \in Bit
    BY DEF Clean, Register
  <1>3. \A i \in 1..8 : x[i] = Nil[i]
    BY <1>1, <1>2 DEF Xor, Bit, Nil
  <1> QED
    BY <1>3, RoundNil, CleanEqual

(* What is in the register stays in it.                                    *)
LEMMA OrbitNotNil ==
    ASSUME NEW o, NEW x, NEW N \in Nat, IsOrbit(o, x, N), o[N] = Nil
    PROVE  x = Nil
  <1> DEFINE b == [n \in 0..N |-> Nil]
  <1>1. IsOrbit(b, Nil, N)
    BY RoundNil DEF IsOrbit
  <1>2. b[N] = Nil
    OBVIOUS
  <1> HIDE DEF b
  <1>3. PICK z \in Nat : z = 0 /\ z + N = N /\ z + N <= N /\ N <= N
    OBVIOUS
  <1>4. o[z + N] = b[N]
    BY <1>2, <1>3
  <1>5. o[z] = Nil
    BY <1>1, <1>3, <1>4, OrbitsMeet
  <1> QED
    BY <1>3, <1>5 DEF IsOrbit

(* After n bytes, the registers of f and g differ by x.                    *)
Apart(f, g, n, x) == f[n] \in Clean /\ g[n] = Plus(f[n], x)

(* The first byte that differs brings its difference into the register.    *)
LEMMA FirstDifference ==
    ASSUME NEW d \in Seq(Octet), NEW e \in Seq(Octet), NEW N \in Nat, Len(d) = N, Len(e) = N,
           NEW p \in Nat, p + 1 <= N,
           NEW x, NEW o, NEW L \in Nat, IsOrbit(o, x, L), NEW m \in Nat, m + 8 <= L,
           \A i \in 1..8 : e[p + 1][i] = Xor(d[p + 1][i], o[m][i]),
           NEW f, NEW g, IsRun(f, d), IsRun(g, e), f[p] = g[p]
    PROVE  Apart(f, g, p + 1, o[m + 8])
  <1>1. p + 1 \in 1..N /\ p \in 0..N /\ p + 1 \in 0..N /\ (p + 1) - 1 = p /\ m \in 0..L
    OBVIOUS
  <1>2. d[p + 1] \in Octet /\ e[p + 1] \in Octet
    BY <1>1, ElementOfSeq
  <1>3. f[p] \in Clean /\ f[p + 1] \in Clean
    BY <1>1 DEF IsRun
  <1>4. f[p + 1] = CrcByte(f[p], d[p + 1]) /\ g[p + 1] = CrcByte(f[p], e[p + 1])
    BY <1>1 DEF IsRun
  <1>5. o[m] \in Clean
    BY <1>1 DEF IsOrbit
  <1>6. Absorb(f[p], e[p + 1]) = Plus(Absorb(f[p], d[p + 1]), o[m])
    <2> DEFINE b == d[p + 1]
               c == e[p + 1]
               y == o[m]
    <2>1. b \in Octet /\ c \in Octet /\ y \in Clean /\ \A i \in 1..8 : c[i] = Xor(b[i], y[i])
      BY <1>2, <1>5
    <2> HIDE DEF b, c, y
    <2>2. Absorb(f[p], c) = Plus(Absorb(f[p], b), y)
      BY <1>3, <2>1, AbsorbDifference
    <2> QED
      BY <2>2 DEF b, c, y
  <1>7. CrcByte(f[p], e[p + 1]) = Plus(CrcByte(f[p], d[p + 1]), o[m + 8])
    BY <1>2, <1>3, <1>6, ByteLinear
  <1> QED
    BY <1>3, <1>4, <1>7 DEF Apart

(* In e, a burst that begins with bit s of byte k has changed d.           *)
IsBurst(d, e, k, s, bits) ==
    /\ \A n \in 1..Len(d) : n # k /\ n # k + 1 => e[n] = d[n]
    /\ \A b \in 1..8 : e[k][b] = IF b >= s THEN Xor(d[k][b], bits[b - s + 1]) ELSE d[k][b]
    /\ k < Len(d) => \A b \in 1..8 :
           e[k + 1][b] = IF b < s THEN Xor(d[k + 1][b], bits[b + 9 - s]) ELSE d[k + 1][b]

(* The changes of a burst, as registers to add.                            *)
LEMMA BurstBits ==
    ASSUME NEW s \in 1..8, NEW bits \in Octet
    PROVE  \E E1, E2 \in Clean :
               /\ \A i \in 1..8 : E1[i] = IF i >= s THEN bits[i - s + 1] ELSE 0
               /\ \A i \in 1..8 : E2[i] = IF i < s THEN bits[i + 9 - s] ELSE 0
  <1> DEFINE u == [i \in 1..8 |-> IF i >= s THEN bits[i - s + 1] ELSE 0]
             v == [i \in 1..8 |-> IF i < s THEN bits[i + 9 - s] ELSE 0]
  <1>1. u \in Octet /\ v \in Octet
    <2>1. \A i \in 1..8 : bits[i] \in Bit
      BY DEF Octet
    <2>2. \A i \in 1..8 : i >= s => i - s + 1 \in 1..8
      OBVIOUS
    <2>3. \A i \in 1..8 : i < s => i + 9 - s \in 1..8
      OBVIOUS
    <2>4. \A i \in 1..8 : u[i] \in Bit
      BY <2>1, <2>2 DEF Bit
    <2>5. \A i \in 1..8 : v[i] \in Bit
      BY <2>1, <2>3 DEF Bit
    <2> QED
      BY <2>4, <2>5 DEF Octet
  <1>2. /\ \A i \in 1..8 : u[i] = IF i >= s THEN bits[i - s + 1] ELSE 0
        /\ \A i \in 1..8 : v[i] = IF i < s THEN bits[i + 9 - s] ELSE 0
    OBVIOUS
  <1> HIDE DEF u, v
  <1>3. PICK E1 \in Clean : \A i \in 1..8 : E1[i] = u[i]
    BY <1>1, Widen
  <1>4. PICK E2 \in Clean : \A i \in 1..8 : E2[i] = v[i]
    BY <1>1, Widen
  <1> QED
    BY <1>2, <1>3, <1>4

(* A burst makes a difference to the register that is there after the two  *)
(* bytes, or after the first one when it is the last of all.               *)
LEMMA BurstSeen ==
    ASSUME NEW d \in Seq(Octet), NEW e \in Seq(Octet), NEW N \in Nat, Len(d) = N, Len(e) = N,
           crc8(d) = Zero,
           NEW k \in 1..N, NEW s \in 1..8, NEW bits \in Octet, bits[1] = 1,
           IsBurst(d, e, k, s, bits)
    PROVE  crc8(e) # Zero
  <1>1. PICK E1 \in Clean, E2 \in Clean :
            /\ \A i \in 1..8 : E1[i] = IF i >= s THEN bits[i - s + 1] ELSE 0
            /\ \A i \in 1..8 : E2[i] = IF i < s THEN bits[i + 9 - s] ELSE 0
    BY BurstBits, Zenon
  <1>2. PICK h \in Nat, z \in Nat : h = 8 /\ z = 0 /\ z + 8 <= h /\ z + 8 = h
    OBVIOUS
  <1>3. PICK o : IsOrbit(o, E1, h)
    BY OrbitExists
  <1>4. o[z] = E1 /\ o[h] \in Clean
    BY <1>2, <1>3 DEF IsOrbit
  <1>5. \A n \in 1..N : d[n] \in Octet /\ e[n] \in Octet
    BY ElementOfSeq
  <1>6. \A x \in Bit : Xor(x, 0) = x
    BY DEF Xor, Bit
  <1>7. \A i \in 1..8 : e[k][i] = Xor(d[k][i], E1[i])
    <2>1. \A i \in 1..8 : d[k][i] \in Bit
      BY <1>5 DEF Octet
    <2>2. \A b \in 1..8 : e[k][b] = IF b >= s THEN Xor(d[k][b], bits[b - s + 1]) ELSE d[k][b]
      BY DEF IsBurst
    <2> TAKE i \in 1..8
    <2>3. CASE i >= s
      BY <1>1, <2>2, <2>3
    <2>4. CASE ~ (i >= s)
      <3>1. E1[i] = 0 /\ e[k][i] = d[k][i]
        BY <1>1, <2>2, <2>4
      <3> QED
        BY <1>6, <2>1, <3>1
    <2> QED
      BY <2>3, <2>4
  <1>8. PICK p \in Nat : p + 1 = k
    <2>1. k - 1 \in Nat /\ (k - 1) + 1 = k
      OBVIOUS
    <2> QED
      BY <2>1
  <1>9. p + 1 <= N
    BY <1>8
  <1>10. \A n \in 1..p : d[n] = e[n]
    <2>1. \A n \in 1..p : n \in 1..Len(d) /\ n # k /\ n # k + 1
      BY <1>8, <1>9
    <2> QED
      BY <2>1 DEF IsBurst
  <1>11. \A i \in 1..8 : e[p + 1][i] = Xor(d[p + 1][i], o[z][i])
    BY <1>4, <1>7, <1>8
  <1>12. ASSUME NEW f, NEW g, IsRun(f, d), IsRun(g, e)
         PROVE  Apart(f, g, k, o[h])
    <2>0. f[p] = g[p]
      BY <1>9, <1>10, <1>12, SameSoFar
    <2>1. Apart(f, g, p + 1, o[z + 8])
      BY <1>2, <1>3, <1>9, <1>11, <1>12, <2>0, FirstDifference
    <2> QED
      BY <1>2, <1>8, <2>1
  <1>13. CASE k = N
    <2>1. E1 # Nil
      <3>1. s - s + 1 = 1 /\ s >= s
        OBVIOUS
      <3>2. E1[s] = 1
        BY <1>1, <3>1
      <3>3. Nil[s] = 0
        BY DEF Nil
      <3> QED
        BY <3>2, <3>3
    <2>2. o[h] # Nil
      BY <1>3, <2>1, OrbitNotNil
    <2>3. ASSUME NEW f, NEW g, IsRun(f, d), IsRun(g, e)
          PROVE  f[k] # g[k]
      <3>1. Apart(f, g, k, o[h])
        BY <1>12, <2>3
      <3> QED
        BY <1>4, <2>2, <3>1, PlusNothing DEF Apart
    <2>4. \A f, g : IsRun(f, d) /\ IsRun(g, e) => f[k] # g[k]
      BY <2>3
    <2>5. k \in 0..Len(d) /\ \A n \in k + 1..Len(d) : d[n] = e[n]
      BY <1>13
    <2> QED
      BY <2>4, <2>5, DamageSeen
  <1>14. CASE k < N
    <2>1. PICK m \in 1..N : m = k + 1 /\ m - 1 = k
      BY <1>14
    <2>2. \A i \in 1..8 : e[m][i] = Xor(d[m][i], E2[i])
      <3>1. \A i \in 1..8 : d[m][i] \in Bit
        BY <1>5 DEF Octet
      <3>2. \A b \in 1..8 : e[m][b] = IF b < s THEN Xor(d[m][b], bits[b + 9 - s]) ELSE d[m][b]
        BY <1>14, <2>1 DEF IsBurst
      <3> TAKE i \in 1..8
      <3>3. CASE i < s
        BY <1>1, <3>2, <3>3
      <3>4. CASE ~ (i < s)
        <4>1. E2[i] = 0 /\ e[m][i] = d[m][i]
          BY <1>1, <3>2, <3>4
        <4> QED
          BY <1>6, <3>1, <4>1
      <3> QED
        BY <3>3, <3>4
    <2>3. o[h] # E2
      <3>1. IsOrbit(o, E1, 8)
        BY <1>2, <1>3
      <3>2. o[8] # E2
        BY <1>1, <3>1, BurstLeavesTrace
      <3> QED
        BY <1>2, <3>2
    <2>4. ASSUME NEW f, NEW g, IsRun(f, d), IsRun(g, e), f[m] = g[m]
          PROVE  FALSE
      <3>1. f[k] \in Clean /\ g[k] = Plus(f[k], o[h])
        BY <1>12, <2>4 DEF Apart
      <3>2. f[m] = CrcByte(f[k], d[m]) /\ g[m] = CrcByte(g[k], e[m])
        BY <2>1, <2>4 DEF IsRun
      <3>3. CrcByte(Plus(f[k], o[h]), e[m]) = CrcByte(f[k], d[m])
        BY <2>4, <3>1, <3>2
      <3>4. d[m] \in Octet /\ e[m] \in Octet
        BY <1>5
      <3>5. o[h] = E2
        BY <1>4, <2>2, <3>1, <3>3, <3>4, DifferenceStays
      <3> QED
        BY <2>3, <3>5
    <2>5. \A f, g : IsRun(f, d) /\ IsRun(g, e) => f[m] # g[m]
      BY <2>4
    <2>6. m \in 0..Len(d) /\ \A n \in m + 1..Len(d) : d[n] = e[n]
      <3>1. \A n \in m + 1..N : n \in 1..N /\ n # k /\ n # k + 1
        BY <2>1
      <3>2. \A n \in 1..N : n # k /\ n # k + 1 => e[n] = d[n]
        BY DEF IsBurst
      <3>3. m \in 0..N
        OBVIOUS
      <3>4. \A n \in m + 1..N : d[n] = e[n]
        BY <3>1, <3>2
      <3> QED
        BY <3>3, <3>4
    <2> QED
      BY <2>5, <2>6, DamageSeen
  <1> QED
    BY <1>13, <1>14

-----------------------------------------------------------------------------
(* Two bits                                                                *)

(* The upper half of r, bit by bit.                                        *)
Reads(r, a1, a2, a3, a4, a5, a6, a7, a8) ==
    /\ r \in Clean
    /\ r[1] = a1 /\ r[2] = a2 /\ r[3] = a3 /\ r[4] = a4
    /\ r[5] = a5 /\ r[6] = a6 /\ r[7] = a7 /\ r[8] = a8

(* A round, bit by bit.                                                    *)
LEMMA RoundReads ==
    ASSUME NEW r, NEW a1, NEW a2, NEW a3, NEW a4, NEW a5, NEW a6, NEW a7, NEW a8,
           Reads(r, a1, a2, a3, a4, a5, a6, a7, a8)
    PROVE  Reads(CrcBit(r), a2, a3, a4, a5, a6, Xor(a7, a1), Xor(a8, a1), a1)
  <1>1. r \in Clean
    BY DEF Reads
  <1>2. /\ CrcBit(r) \in Clean
        /\ \A i \in 1..5 : CrcBit(r)[i] = r[i + 1]
        /\ CrcBit(r)[6] = Xor(r[7], r[1])
        /\ CrcBit(r)[7] = Xor(r[8], r[1])
        /\ CrcBit(r)[8] = r[1]
    BY <1>1, CleanRound
  <1>3. /\ CrcBit(r)[1] = r[2] /\ CrcBit(r)[2] = r[3] /\ CrcBit(r)[3] = r[4]
        /\ CrcBit(r)[4] = r[5] /\ CrcBit(r)[5] = r[6]
    BY <1>2
  <1> QED
    BY <1>2, <1>3 DEF Reads

(* Eight rounds, bit by bit.                                               *)
LEMMA EightRounds ==
    ASSUME NEW o, NEW x, NEW N \in Nat, IsOrbit(o, x, N), NEW n \in Nat, n + 8 <= N,
           NEW a1 \in Bit, NEW a2 \in Bit, NEW a3 \in Bit, NEW a4 \in Bit,
           NEW a5 \in Bit, NEW a6 \in Bit, NEW a7 \in Bit, NEW a8 \in Bit,
           Reads(o[n], a1, a2, a3, a4, a5, a6, a7, a8)
    PROVE  Reads(o[n + 8], Xor(a1, Xor(a2, a3)), Xor(a2, Xor(a3, a4)), Xor(a3, Xor(a4, a5)),
                 Xor(a4, Xor(a5, a6)), Xor(Xor(a1, a5), Xor(a6, a7)), Xor(Xor(a2, a6), Xor(a7, a8)),
                 Xor(a2, Xor(a7, a8)), Xor(a1, Xor(a2, a8)))
  <1>0. \A k \in 0..7 : n + k \in Nat /\ (n + k) + 1 <= N /\ (n + k) + 1 = n + (k + 1)
    OBVIOUS
  <1>r. ASSUME NEW k \in 0..7, NEW b1, NEW b2, NEW b3, NEW b4, NEW b5, NEW b6, NEW b7, NEW b8,
               Reads(o[n + k], b1, b2, b3, b4, b5, b6, b7, b8)
        PROVE  Reads(o[n + (k + 1)], b2, b3, b4, b5, b6, Xor(b7, b1), Xor(b8, b1), b1)
    <2>1. o[(n + k) + 1] = CrcBit(o[n + k])
      BY <1>0, OrbitStep
    <2>2. Reads(CrcBit(o[n + k]), b2, b3, b4, b5, b6, Xor(b7, b1), Xor(b8, b1), b1)
      BY <1>r, RoundReads
    <2> QED
      BY <1>0, <2>1, <2>2
  <1> DEFINE p1 == Xor(a7, a1)
             q1 == Xor(a8, a1)
             p2 == Xor(q1, a2)
             q2 == Xor(a1, a2)
             p3 == Xor(q2, a3)
             q3 == Xor(a2, a3)
             p4 == Xor(q3, a4)
             q4 == Xor(a3, a4)
             p5 == Xor(q4, a5)
             q5 == Xor(a4, a5)
             p6 == Xor(q5, a6)
             q6 == Xor(a5, a6)
             p7 == Xor(q6, p1)
             q7 == Xor(a6, p1)
             p8 == Xor(q7, p2)
             q8 == Xor(p1, p2)
  <1> HIDE DEF p1, q1, p2, q2, p3, q3, p4, q4, p5, q5, p6, q6, p7, q7, p8, q8
  <1>1. Reads(o[n + 1], a2, a3, a4, a5, a6, p1, q1, a1)
    <2>1. Reads(o[n + (0 + 1)], a2, a3, a4, a5, a6, p1, q1, a1)
      <3>1. Reads(o[n + 0], a1, a2, a3, a4, a5, a6, a7, a8)
        OBVIOUS
      <3> QED
        BY <1>r, <3>1 DEF p1, q1
    <2> QED
      BY <2>1
  <1>2. Reads(o[n + 2], a3, a4, a5, a6, p1, p2, q2, a2)
    <2>1. Reads(o[n + (1 + 1)], a3, a4, a5, a6, p1, p2, q2, a2)
      BY <1>r, <1>1 DEF p2, q2
    <2> QED
      BY <2>1
  <1>3. Reads(o[n + 3], a4, a5, a6, p1, p2, p3, q3, a3)
    <2>1. Reads(o[n + (2 + 1)], a4, a5, a6, p1, p2, p3, q3, a3)
      BY <1>r, <1>2 DEF p3, q3
    <2> QED
      BY <2>1
  <1>4. Reads(o[n + 4], a5, a6, p1, p2, p3, p4, q4, a4)
    <2>1. Reads(o[n + (3 + 1)], a5, a6, p1, p2, p3, p4, q4, a4)
      BY <1>r, <1>3 DEF p4, q4
    <2> QED
      BY <2>1
  <1>5. Reads(o[n + 5], a6, p1, p2, p3, p4, p5, q5, a5)
    <2>1. Reads(o[n + (4 + 1)], a6, p1, p2, p3, p4, p5, q5, a5)
      BY <1>r, <1>4 DEF p5, q5
    <2> QED
      BY <2>1
  <1>6. Reads(o[n + 6], p1, p2, p3, p4, p5, p6, q6, a6)
    <2>1. Reads(o[n + (5 + 1)], p1, p2, p3, p4, p5, p6, q6, a6)
      BY <1>r, <1>5 DEF p6, q6
    <2> QED
      BY <2>1
  <1>7. Reads(o[n + 7], p2, p3, p4, p5, p6, p7, q7, p1)
    <2>1. Reads(o[n + (6 + 1)], p2, p3, p4, p5, p6, p7, q7, p1)
      BY <1>r, <1>6 DEF p7, q7
    <2> QED
      BY <2>1
  <1>8. Reads(o[n + 8], p3, p4, p5, p6, p7, p8, q8, p2)
    <2>1. Reads(o[n + (7 + 1)], p3, p4, p5, p6, p7, p8, q8, p2)
      BY <1>r, <1>7 DEF p8, q8
    <2> QED
      BY <2>1
  <1>9. /\ p3 = Xor(a1, Xor(a2, a3))
        /\ p4 = Xor(a2, Xor(a3, a4))
        /\ p5 = Xor(a3, Xor(a4, a5))
        /\ p6 = Xor(a4, Xor(a5, a6))
        /\ p7 = Xor(Xor(a1, a5), Xor(a6, a7))
        /\ p8 = Xor(Xor(a2, a6), Xor(a7, a8))
        /\ q8 = Xor(a2, Xor(a7, a8))
        /\ p2 = Xor(a1, Xor(a2, a8))
    BY DEF Xor, Bit, p1, q1, p2, q2, p3, q3, p4, q4, p5, q5, p6, q6, p7, q7, p8, q8
  <1> QED
    BY <1>8, <1>9

(* The register whose only bit is i of the upper half.                     *)
Unit(i) == [j \in 1..16 |-> IF j = i THEN 1 ELSE 0]

(* A single bit, as it goes through the bytes that follow: only after      *)
(* sixteen of them is it a single bit again.                               *)
LEMMA UnitRounds ==
    ASSUME NEW w, NEW N \in Nat, N >= 128, IsOrbit(w, Unit(8), N)
    PROVE  /\ Reads(w[8], 0, 0, 0, 0, 0, 1, 1, 1)
           /\ Reads(w[16], 0, 0, 0, 1, 0, 1, 0, 1)
           /\ Reads(w[24], 0, 1, 1, 0, 1, 0, 1, 1)
           /\ Reads(w[32], 0, 0, 0, 1, 0, 1, 1, 0)
           /\ Reads(w[40], 0, 1, 1, 0, 0, 0, 1, 0)
           /\ Reads(w[48], 0, 0, 1, 0, 1, 0, 0, 1)
           /\ Reads(w[56], 1, 1, 0, 1, 1, 1, 1, 1)
           /\ Reads(w[64], 0, 0, 0, 1, 0, 0, 1, 1)
           /\ Reads(w[72], 0, 1, 1, 1, 1, 0, 0, 1)
           /\ Reads(w[80], 0, 1, 1, 0, 1, 0, 0, 0)
           /\ Reads(w[88], 0, 0, 0, 1, 1, 1, 1, 1)
           /\ Reads(w[96], 0, 1, 0, 1, 1, 1, 0, 1)
           /\ Reads(w[104], 1, 0, 0, 1, 0, 1, 0, 0)
           /\ Reads(w[112], 1, 1, 1, 0, 0, 1, 0, 1)
           /\ Reads(w[120], 1, 0, 1, 1, 0, 1, 0, 1)
           /\ Reads(w[128], 0, 0, 0, 0, 0, 0, 1, 0)
  <1>1. 0 \in Bit /\ 1 \in Bit
    BY DEF Bit
  <1>2. Xor(0, 0) = 0 /\ Xor(0, 1) = 1 /\ Xor(1, 0) = 1 /\ Xor(1, 1) = 0
    BY DEF Xor
  <1>3. ASSUME NEW n \in Nat, NEW m \in Nat, m = n + 8, m <= N,
               NEW a1 \in Bit, NEW a2 \in Bit, NEW a3 \in Bit, NEW a4 \in Bit,
               NEW a5 \in Bit, NEW a6 \in Bit, NEW a7 \in Bit, NEW a8 \in Bit,
               Reads(w[n], a1, a2, a3, a4, a5, a6, a7, a8)
        PROVE  Reads(w[m], Xor(a1, Xor(a2, a3)), Xor(a2, Xor(a3, a4)), Xor(a3, Xor(a4, a5)),
                     Xor(a4, Xor(a5, a6)), Xor(Xor(a1, a5), Xor(a6, a7)), Xor(Xor(a2, a6), Xor(a7, a8)),
                     Xor(a2, Xor(a7, a8)), Xor(a1, Xor(a2, a8)))
    BY <1>3, EightRounds
  <1>10. Reads(w[0], 0, 0, 0, 0, 0, 0, 0, 1)
    <2>1. w[0] = Unit(8)
      BY DEF IsOrbit
    <2>2. Unit(8) \in Clean
      BY DEF Unit, Clean, Register, Bit
    <2> QED
      BY <2>1, <2>2 DEF Reads, Unit
  <1>11. Reads(w[8], 0, 0, 0, 0, 0, 1, 1, 1)
    BY <1>1, <1>2, <1>3, <1>10
  <1>12. Reads(w[16], 0, 0, 0, 1, 0, 1, 0, 1)
    BY <1>1, <1>2, <1>3, <1>11
  <1>13. Reads(w[24], 0, 1, 1, 0, 1, 0, 1, 1)
    BY <1>1, <1>2, <1>3, <1>12
  <1>14. Reads(w[32], 0, 0, 0, 1, 0, 1, 1, 0)
    BY <1>1, <1>2, <1>3, <1>13
  <1>15. Reads(w[40], 0, 1, 1, 0, 0, 0, 1, 0)
    BY <1>1, <1>2, <1>3, <1>14
  <1>16. Reads(w[48], 0, 0, 1, 0, 1, 0, 0, 1)
    BY <1>1, <1>2, <1>3, <1>15
  <1>17. Reads(w[56], 1, 1, 0, 1, 1, 1, 1, 1)
    BY <1>1, <1>2, <1>3, <1>16
  <1>18. Reads(w[64], 0, 0, 0, 1, 0, 0, 1, 1)
    BY <1>1, <1>2, <1>3, <1>17
  <1>19. Reads(w[72], 0, 1, 1, 1, 1, 0, 0, 1)
    BY <1>1, <1>2, <1>3, <1>18
  <1>20. Reads(w[80], 0, 1, 1, 0, 1, 0, 0, 0)
    BY <1>1, <1>2, <1>3, <1>19
  <1>21. Reads(w[88], 0, 0, 0, 1, 1, 1, 1, 1)
    BY <1>1, <1>2, <1>3, <1>20
  <1>22. Reads(w[96], 0, 1, 0, 1, 1, 1, 0, 1)
    BY <1>1, <1>2, <1>3, <1>21
  <1>23. Reads(w[104], 1, 0, 0, 1, 0, 1, 0, 0)
    BY <1>1, <1>2, <1>3, <1>22
  <1>24. Reads(w[112], 1, 1, 1, 0, 0, 1, 0, 1)
    BY <1>1, <1>2, <1>3, <1>23
  <1>25. Reads(w[120], 1, 0, 1, 1, 0, 1, 0, 1)
    BY <1>1, <1>2, <1>3, <1>24
  <1>26. Reads(w[128], 0, 0, 0, 0, 0, 0, 1, 0)
    BY <1>1, <1>2, <1>3, <1>25
  <1> QED
    BY <1>11, <1>12, <1>13, <1>14, <1>15, <1>16, <1>17, <1>18, <1>19, <1>20, <1>21, <1>22, <1>23, <1>24, <1>25, <1>26

(* The single bits.                                                        *)
LEMMA UnitType ==
    ASSUME NEW i \in 1..8
    PROVE  Unit(i) \in Clean /\ \A j \in 1..8 : Unit(i)[j] = IF j = i THEN 1 ELSE 0
  BY DEF Unit, Clean, Register, Bit

(* The first rounds shift the lowest bit upwards.                          *)
LEMMA UnitShift ==
    ASSUME NEW w, NEW N \in Nat, N >= 8, IsOrbit(w, Unit(8), N), NEW t \in 0..7, NEW i \in 1..8, i = 8 - t
    PROVE  w[t] = Unit(i)
  <1>1. Unit(8) \in Clean /\ \A j \in 1..8 : Unit(8)[j] = IF j = 8 THEN 1 ELSE 0
    <2>1. 8 \in 1..8
      OBVIOUS
    <2> QED
      BY <2>1, UnitType
  <1> DEFINE u == Unit(8)
  <1>2. \A j \in 1..t : u[j] = 0
    BY <1>1
  <1>3. t \in 0..8 /\ t <= N /\ t \in 0..N
    OBVIOUS
  <1>4. Shifted(w[t], u, t)
    <2>1. u \in Clean /\ IsOrbit(w, u, N)
      BY <1>1
    <2> HIDE DEF u
    <2> QED
      BY <1>2, <1>3, <2>1, OrbitShifts
  <1>5. \A j \in 1..8 : w[t][j] = Unit(i)[j]
    <2>1. \A j \in 1..8 : w[t][j] = IF j + t <= 8 THEN u[j + t] ELSE 0
      BY <1>4 DEF Shifted
    <2> HIDE DEF u
    <2>2. \A j \in 1..8 : Unit(i)[j] = IF j = i THEN 1 ELSE 0
      BY UnitType
    <2>3. \A j \in 1..8 : j + t <= 8 => u[j + t] = IF j + t = 8 THEN 1 ELSE 0
      BY <1>1 DEF u
    <2> TAKE j \in 1..8
    <2>4. (j = i) <=> (j + t = 8)
      OBVIOUS
    <2> QED
      BY <2>1, <2>2, <2>3, <2>4
  <1>6. w[t] \in Clean
    BY <1>3 DEF IsOrbit
  <1> QED
    BY <1>5, <1>6, UnitType, CleanEqual

(* Two orbits that begin together stay together.                           *)
LEMMA OrbitsTogether ==
    ASSUME NEW a, NEW x, NEW N \in Nat, IsOrbit(a, x, N), NEW p \in Nat, NEW t \in Nat, p + t <= N,
           a[p] = x
    PROVE  a[p + t] = a[t]
  <1> DEFINE S == {n \in Nat : p + n <= N => a[p + n] = a[n]}
  <1>1. 0 \in S
    BY DEF IsOrbit
  <1>2. ASSUME NEW n \in Nat, n \in S
        PROVE  n + 1 \in S
    <2> SUFFICES ASSUME p + (n + 1) <= N
                 PROVE  a[p + (n + 1)] = a[n + 1]
      OBVIOUS
    <2> DEFINE q == p + n
    <2>1. q \in Nat /\ q + 1 <= N /\ q + 1 = p + (n + 1) /\ q <= N /\ n + 1 <= N
      OBVIOUS
    <2>2. a[q] = a[n]
      BY <1>2, <2>1
    <2> HIDE DEF q
    <2>3. a[q + 1] = CrcBit(a[q])
      BY <2>1, OrbitStep
    <2>4. a[n + 1] = CrcBit(a[n])
      BY <2>1, OrbitStep
    <2> QED
      BY <2>1, <2>2, <2>3, <2>4
  <1> HIDE DEF S
  <1>3. t \in S
    BY <1>1, <1>2, SetInduction
  <1> QED
    BY <1>3 DEF S

(* A bit does not come back to its place in less than 127 rounds.          *)
LEMMA Order127 ==
    ASSUME NEW w, NEW N \in Nat, N >= 128, IsOrbit(w, Unit(8), N), NEW D \in 1..126
    PROVE  w[D] # Unit(8)
  <1> SUFFICES ASSUME w[D] = Unit(8)
               PROVE  FALSE
    OBVIOUS
  <1>1. PICK t \in 0..7, q \in 1..16 : D + t = 8 * q
    <2>1. PICK q \in 1..16 : 8 * q >= D /\ 8 * q < D + 8
      <3>1. (D + 7) \div 8 \in 1..16 /\ 8 * ((D + 7) \div 8) >= D /\ 8 * ((D + 7) \div 8) < D + 8
        OBVIOUS
      <3> QED
        BY <3>1
    <2>2. 8 * q - D \in 0..7 /\ D + (8 * q - D) = 8 * q
      BY <2>1
    <2> QED
      BY <2>2
  <1>2. D \in Nat /\ t \in Nat /\ D + t <= N /\ N >= 8 /\ 8 - t \in 1..8
    BY <1>1
  <1>3. w[D + t] = w[t]
    BY <1>2, OrbitsTogether
  <1>4. w[t] = Unit(8 - t)
    BY <1>2, UnitShift
  <1>5. \A j \in 1..8 : w[8 * q][j] = IF j = 8 - t THEN 1 ELSE 0
    BY <1>1, <1>2, <1>3, <1>4, UnitType
  <1>6. \A i, j \in 1..8 : w[8 * q][i] = 1 /\ w[8 * q][j] = 1 => i = j
    BY <1>5
  <1>7. \A j \in 1..8 : w[8 * q][j] = 1 => j = 8 - t
    BY <1>5
  <1>8. /\ w[8][6] = 1 /\ w[8][7] = 1
        /\ w[16][4] = 1 /\ w[16][6] = 1
        /\ w[24][2] = 1 /\ w[24][3] = 1
        /\ w[32][4] = 1 /\ w[32][6] = 1
        /\ w[40][2] = 1 /\ w[40][3] = 1
        /\ w[48][3] = 1 /\ w[48][5] = 1
        /\ w[56][1] = 1 /\ w[56][2] = 1
        /\ w[64][4] = 1 /\ w[64][7] = 1
        /\ w[72][2] = 1 /\ w[72][3] = 1
        /\ w[80][2] = 1 /\ w[80][3] = 1
        /\ w[88][4] = 1 /\ w[88][5] = 1
        /\ w[96][2] = 1 /\ w[96][4] = 1
        /\ w[104][1] = 1 /\ w[104][4] = 1
        /\ w[112][1] = 1 /\ w[112][2] = 1
        /\ w[120][1] = 1 /\ w[120][3] = 1
        /\ w[128][7] = 1
    BY UnitRounds DEF Reads
  <1>9. q # 1
    BY <1>6, <1>8
  <1>10. q # 2
    BY <1>6, <1>8
  <1>11. q # 3
    BY <1>6, <1>8
  <1>12. q # 4
    BY <1>6, <1>8
  <1>13. q # 5
    BY <1>6, <1>8
  <1>14. q # 6
    BY <1>6, <1>8
  <1>15. q # 7
    BY <1>6, <1>8
  <1>16. q # 8
    BY <1>6, <1>8
  <1>17. q # 9
    BY <1>6, <1>8
  <1>18. q # 10
    BY <1>6, <1>8
  <1>19. q # 11
    BY <1>6, <1>8
  <1>20. q # 12
    BY <1>6, <1>8
  <1>21. q # 13
    BY <1>6, <1>8
  <1>22. q # 14
    BY <1>6, <1>8
  <1>23. q # 15
    BY <1>6, <1>8
  <1>24. q # 16
    BY <1>1, <1>7, <1>8
  <1> QED
    BY <1>9, <1>10, <1>11, <1>12, <1>13, <1>14, <1>15, <1>16, <1>17, <1>18, <1>19, <1>20, <1>21, <1>22, <1>23, <1>24

(* Bit a of v is not that of u.                                            *)
Flipped(u, v, a) == \A i \in 1..8 : v[i] = IF i = a THEN 1 - u[i] ELSE u[i]

(* v is u with the bits of y added.                                        *)
Added(u, v, y) == \A i \in 1..8 : v[i] = Xor(u[i], y[i])

(* In e, bit a of byte k and bit b of byte l are not those of d.           *)
IsTwoBits(d, e, k, l, a, b) ==
    /\ \A n \in 1..Len(d) : n # k /\ n # l => e[n] = d[n]
    /\ Flipped(d[k], e[k], a)
    /\ Flipped(d[l], e[l], b)

(* A changed bit is a single bit added.                                    *)
LEMMA ChangedBit ==
    ASSUME NEW u \in Octet, NEW v, NEW a \in 1..8, Flipped(u, v, a)
    PROVE  Added(u, v, Unit(a))
  <1> SUFFICES ASSUME NEW i \in 1..8
               PROVE  v[i] = Xor(u[i], Unit(a)[i])
    BY DEF Added
  <1>0. v[i] = IF i = a THEN 1 - u[i] ELSE u[i]
    BY DEF Flipped
  <1>1. u[i] \in Bit
    BY DEF Octet
  <1>2. Unit(a)[i] = IF i = a THEN 1 ELSE 0
    BY UnitType
  <1>3. CASE i = a
    <2>1. v[i] = 1 - u[i] /\ Unit(a)[i] = 1
      BY <1>0, <1>2, <1>3
    <2> QED
      BY <1>1, <2>1 DEF Xor, Bit
  <1>4. CASE i # a
    <2>1. v[i] = u[i] /\ Unit(a)[i] = 0
      BY <1>0, <1>2, <1>4
    <2> QED
      BY <1>1, <2>1 DEF Xor, Bit
  <1> QED
    BY <1>3, <1>4

(* Adding before a byte is adding after it.                                *)
LEMMA AbsorbPlus ==
    ASSUME NEW r \in Clean, NEW b \in Octet, NEW y \in Clean
    PROVE  Absorb(Plus(r, y), b) = Plus(Absorb(r, b), y)
  <1> DEFINE s == Plus(r, y)
  <1>1. Absorb(r, b) \in Clean /\ \A i \in 1..8 : Absorb(r, b)[i] = Xor(r[i], b[i])
    BY AbsorbClean
  <1>2. s \in Clean /\ \A i \in 1..8 : s[i] = Xor(r[i], y[i])
    BY PlusClean
  <1> HIDE DEF s
  <1>3. Absorb(s, b) \in Clean /\ \A i \in 1..8 : Absorb(s, b)[i] = Xor(s[i], b[i])
    BY <1>2, AbsorbClean
  <1>4. /\ Plus(Absorb(r, b), y) \in Clean
        /\ \A i \in 1..8 : Plus(Absorb(r, b), y)[i] = Xor(Absorb(r, b)[i], y[i])
    BY <1>1, PlusClean
  <1>5. \A i \in 1..8 : r[i] \in Bit /\ b[i] \in Bit /\ y[i] \in Bit
    BY DEF Clean, Register, Octet
  <1>6. \A i \in 1..8 : Xor(Xor(r[i], y[i]), b[i]) = Xor(Xor(r[i], b[i]), y[i])
    BY <1>5 DEF Xor, Bit
  <1>7. \A i \in 1..8 : Absorb(s, b)[i] = Plus(Absorb(r, b), y)[i]
    BY <1>1, <1>2, <1>3, <1>4, <1>6
  <1>8. Absorb(s, b) = Plus(Absorb(r, b), y)
    BY <1>3, <1>4, <1>7, CleanEqual
  <1> QED
    BY <1>8 DEF s

(* A difference goes on through a byte that is the same.                   *)
LEMMA DifferenceGoesOn ==
    ASSUME NEW d \in Seq(Octet), NEW e \in Seq(Octet), NEW N \in Nat, Len(d) = N, Len(e) = N,
           NEW f, NEW g, IsRun(f, d), IsRun(g, e),
           NEW x, NEW o, NEW L \in Nat, IsOrbit(o, x, L), NEW m \in Nat, m + 8 <= L,
           NEW n \in Nat, n + 1 <= N, e[n + 1] = d[n + 1], Apart(f, g, n, o[m])
    PROVE  Apart(f, g, n + 1, o[m + 8])
  <1>1. n \in 0..N /\ n + 1 \in 0..N /\ n + 1 \in 1..N /\ (n + 1) - 1 = n /\ m \in 0..L
    OBVIOUS
  <1>2. d[n + 1] \in Octet
    BY <1>1, ElementOfSeq
  <1>3. f[n] \in Clean /\ g[n] \in Clean /\ f[n + 1] \in Clean /\ o[m] \in Clean
    BY <1>1 DEF IsRun, IsOrbit
  <1>4. f[n + 1] = CrcByte(f[n], d[n + 1]) /\ g[n + 1] = CrcByte(g[n], d[n + 1])
    BY <1>1 DEF IsRun
  <1> DEFINE r == f[n]
             s == g[n]
             b == d[n + 1]
             y == o[m]
  <1>5. r \in Clean /\ s \in Clean /\ b \in Octet /\ y \in Clean /\ s = Plus(r, y)
    BY <1>2, <1>3 DEF Apart
  <1> HIDE DEF r, s, b, y
  <1>6. Absorb(s, b) = Plus(Absorb(r, b), y)
    BY <1>5, AbsorbPlus
  <1>7. CrcByte(s, b) = Plus(CrcByte(r, b), o[m + 8])
    <2>1. Absorb(s, b) = Plus(Absorb(r, b), o[m])
      BY <1>6 DEF y
    <2> QED
      BY <1>5, <2>1, ByteLinear
  <1> QED
    BY <1>3, <1>4, <1>7 DEF Apart, r, s, b

(* Two bits less than 127 apart make a difference to the register that is  *)
(* there after the second one.                                             *)
LEMMA TwoBitsSeen ==
    ASSUME NEW d \in Seq(Octet), NEW e \in Seq(Octet), NEW N \in Nat, Len(d) = N, Len(e) = N,
           crc8(d) = Zero,
           NEW k \in 1..N, NEW l \in 1..N, k < l, NEW a \in 1..8, NEW b \in 1..8,
           8 * (l - k) + b - a < 127, IsTwoBits(d, e, k, l, a, b)
    PROVE  crc8(e) # Zero
  <1>1. PICK L \in Nat : L = 136 /\ L >= 128 /\ L >= 8
    OBVIOUS
  <1>2. PICK w : IsOrbit(w, Unit(8), L)
    <2>1. 8 \in 1..8
      OBVIOUS
    <2>2. Unit(8) \in Clean
      BY <2>1, UnitType
    <2> QED
      BY <2>2, OrbitExists
  <1>3. PICK A \in 0..7, B \in 0..7 : a = 8 - A /\ b = 8 - B
    <2>1. 8 - a \in 0..7 /\ 8 - b \in 0..7 /\ a = 8 - (8 - a) /\ b = 8 - (8 - b)
      OBVIOUS
    <2> QED
      BY <2>1
  <1>4. w[A] = Unit(a) /\ w[B] = Unit(b)
    BY <1>1, <1>2, <1>3, UnitShift
  <1>5. \A n \in 1..N : d[n] \in Octet /\ e[n] \in Octet
    BY ElementOfSeq
  <1>6. \A i \in 1..8 : e[k][i] = Xor(d[k][i], w[A][i])
    <2>1. d[k] \in Octet /\ Flipped(d[k], e[k], a)
      BY <1>5 DEF IsTwoBits
    <2>2. Added(d[k], e[k], Unit(a))
      BY <2>1, ChangedBit
    <2> QED
      BY <1>4, <2>2 DEF Added
  <1>7. \A i \in 1..8 : e[l][i] = Xor(d[l][i], w[B][i])
    <2>1. d[l] \in Octet /\ Flipped(d[l], e[l], b)
      BY <1>5 DEF IsTwoBits
    <2>2. Added(d[l], e[l], Unit(b))
      BY <2>1, ChangedBit
    <2> QED
      BY <1>4, <2>2 DEF Added
  <1>8. \A n \in 1..N : n # k /\ n # l => e[n] = d[n]
    BY DEF IsTwoBits
  <1>9. ASSUME NEW f, NEW g, IsRun(f, d), IsRun(g, e), NEW j \in Nat, k + j < l
        PROVE  Apart(f, g, k + j, w[A + 8 * (j + 1)])
    <2> DEFINE S == {n \in Nat : k + n < l => Apart(f, g, k + n, w[A + 8 * (n + 1)])}
    <2>1. 0 \in S
      <3>1. PICK p \in Nat : p + 1 = k
        <4>1. k - 1 \in Nat /\ (k - 1) + 1 = k
          OBVIOUS
        <4> QED
          BY <4>1
      <3>2. \A n \in 1..p : n \in 1..N /\ n # k /\ n # l
        BY <3>1
      <3>3. \A n \in 1..p : d[n] = e[n]
        BY <1>8, <3>2
      <3>4. p + 1 <= N /\ p <= N
        BY <3>1
      <3>5. f[p] = g[p]
        BY <1>9, <3>3, <3>4, SameSoFar
      <3>6. \A i \in 1..8 : e[p + 1][i] = Xor(d[p + 1][i], w[A][i])
        BY <1>6, <3>1
      <3>7. A \in Nat /\ A + 8 <= L
        BY <1>1
      <3>8. Apart(f, g, p + 1, w[A + 8])
        BY <1>2, <1>9, <3>4, <3>5, <3>6, <3>7, FirstDifference
      <3>9. A + 8 * (0 + 1) = A + 8 /\ k + 0 = p + 1
        BY <3>1
      <3> QED
        BY <3>8, <3>9
    <2>2. ASSUME NEW n \in Nat, n \in S
          PROVE  n + 1 \in S
      <3> SUFFICES ASSUME k + (n + 1) < l
                   PROVE  Apart(f, g, k + (n + 1), w[A + 8 * ((n + 1) + 1)])
        OBVIOUS
      <3> DEFINE q == k + n
                 m == A + 8 * (n + 1)
      <3>1. /\ q \in Nat /\ q + 1 <= N /\ q + 1 \in 1..N /\ q + 1 # k /\ q + 1 # l /\ q + 1 = k + (n + 1)
            /\ q < l
        OBVIOUS
      <3>2. m \in Nat /\ m + 8 <= L /\ m + 8 = A + 8 * ((n + 1) + 1)
        BY <1>1, <1>3
      <3>3. Apart(f, g, q, w[m])
        BY <2>2, <3>1
      <3>4. e[q + 1] = d[q + 1]
        BY <1>8, <3>1
      <3> HIDE DEF q, m
      <3>5. Apart(f, g, q + 1, w[m + 8])
        BY <1>2, <1>9, <3>1, <3>2, <3>3, <3>4, DifferenceGoesOn
      <3> QED
        BY <3>1, <3>2, <3>5
    <2> HIDE DEF S
    <2>3. j \in S
      BY <2>1, <2>2, SetInduction
    <2> QED
      BY <1>9, <2>3 DEF S
  <1>10. ASSUME NEW f, NEW g, IsRun(f, d), IsRun(g, e), f[l] = g[l]
         PROVE  FALSE
    <2>1. PICK j \in Nat : k + j = l - 1
      <3>1. l - 1 - k \in Nat /\ k + (l - 1 - k) = l - 1
        OBVIOUS
      <3> QED
        BY <3>1
    <2>2. PICK q \in Nat : q = l - 1 /\ q \in 0..N /\ k + j = q /\ k + j < l
      BY <2>1
    <2>3. PICK m \in Nat : m = A + 8 * (j + 1) /\ m = A + 8 * (l - k)
      BY <2>1
    <2>4. Apart(f, g, q, w[m])
      BY <1>9, <1>10, <2>2, <2>3
    <2>5. f[l] = CrcByte(f[q], d[l]) /\ g[l] = CrcByte(g[q], e[l])
      BY <1>10, <2>2 DEF IsRun
    <2>6. m \in 0..L /\ B \in 0..L
      BY <1>1, <1>3, <2>3
    <2>7. w[m] \in Clean /\ w[B] \in Clean
      BY <1>2, <2>6 DEF IsOrbit
    <2>8. w[m] = w[B]
      <3>1. f[q] \in Clean /\ CrcByte(Plus(f[q], w[m]), e[l]) = CrcByte(f[q], d[l])
        BY <1>10, <2>4, <2>5 DEF Apart
      <3>2. d[l] \in Octet /\ e[l] \in Octet
        BY <1>5
      <3> DEFINE u == d[l]
                 v == e[l]
                 y == w[B]
                 r == f[q]
                 x == w[m]
      <3>3. /\ u \in Octet /\ v \in Octet /\ y \in Clean /\ r \in Clean /\ x \in Clean
            /\ \A i \in 1..8 : v[i] = Xor(u[i], y[i])
            /\ CrcByte(Plus(r, x), v) = CrcByte(r, u)
        BY <1>7, <2>7, <3>1, <3>2
      <3> HIDE DEF u, v, y, r, x
      <3>4. x = y
        BY <3>3, DifferenceStays
      <3> QED
        BY <3>4 DEF x, y
    <2>9. PICK D \in 1..126 : D = 8 * (l - k) + b - a /\ D + B = m /\ D + B <= L /\ B <= L
      BY <1>1, <1>3, <2>3
    <2>10. w[D + B] = w[B]
      BY <2>8, <2>9
    <2>11. D \in Nat /\ B \in Nat
      OBVIOUS
    <2>12. w[D] = Unit(8)
      BY <1>2, <2>9, <2>10, <2>11, OrbitsMeet
    <2> QED
      BY <1>1, <1>2, <2>12, Order127
  <1>11. \A f, g : IsRun(f, d) /\ IsRun(g, e) => f[l] # g[l]
    BY <1>10
  <1>12. l \in 0..Len(d) /\ \A n \in l + 1..Len(d) : d[n] = e[n]
    <2>1. \A n \in l + 1..Len(d) : n \in 1..N /\ n # k /\ n # l
      OBVIOUS
    <2> QED
      BY <1>8, <2>1
  <1> QED
    BY <1>11, <1>12, DamageSeen

-----------------------------------------------------------------------------
(* The remainder                                                           *)

(* One step of the division.                                               *)
Divide(v) == Tail([i \in 1..Len(v) |-> IF v[1] = 1 /\ i <= 9 THEN Xor(v[i], Divisor[i]) ELSE v[i]])

(* What a step leaves.                                                     *)
LEMMA DivideStep ==
    ASSUME NEW v \in Seq(Bit), NEW m \in Nat, Len(v) = m + 1
    PROVE  /\ Divide(v) \in Seq(Bit) /\ Len(Divide(v)) = m
           /\ \A i \in 1..m : Divide(v)[i] = IF v[1] = 1 /\ i \in {6, 7, 8} THEN Xor(v[i + 1], 1) ELSE v[i + 1]
  <1> DEFINE M == m + 1
             u == [i \in 1..M |-> IF v[1] = 1 /\ i <= 9 THEN Xor(v[i], Divisor[i]) ELSE v[i]]
  <1>1. M \in Nat /\ \A i \in 1..M : v[i] \in Bit
    OBVIOUS
  <1>2. /\ Divisor[2] = 0 /\ Divisor[3] = 0 /\ Divisor[4] = 0 /\ Divisor[5] = 0 /\ Divisor[6] = 0
        /\ Divisor[1] = 1 /\ Divisor[7] = 1 /\ Divisor[8] = 1 /\ Divisor[9] = 1
    BY DEF Divisor
  <1>3. \A i \in 1..9 : Divisor[i] = IF i \in {1, 7, 8, 9} THEN 1 ELSE 0
    BY <1>2
  <1>4. \A x \in Bit : Xor(x, 0) = x /\ Xor(x, 1) \in Bit
    BY DEF Xor, Bit
  <1>5. \A i \in 1..M : u[i] = IF v[1] = 1 /\ i \in {1, 7, 8, 9} THEN Xor(v[i], 1) ELSE v[i]
    <2> TAKE i \in 1..M
    <2>1. u[i] = IF v[1] = 1 /\ i <= 9 THEN Xor(v[i], Divisor[i]) ELSE v[i]
      OBVIOUS
    <2> HIDE DEF u
    <2>2. CASE v[1] = 1 /\ i <= 9
      <3>1. i \in 1..9 /\ u[i] = Xor(v[i], Divisor[i])
        BY <2>1, <2>2
      <3>2. CASE i \in {1, 7, 8, 9}
        BY <1>3, <2>2, <3>1, <3>2
      <3>3. CASE i \notin {1, 7, 8, 9}
        BY <1>1, <1>3, <1>4, <3>1, <3>3
      <3> QED
        BY <3>2, <3>3
    <2>3. CASE ~ (v[1] = 1 /\ i <= 9)
      BY <2>1, <2>3
    <2> QED
      BY <2>2, <2>3
  <1>6. \A i \in 1..M : u[i] \in Bit
    <2> HIDE DEF u
    <2> QED
      BY <1>1, <1>4, <1>5
  <1>7. u \in [1..M -> Bit]
    BY <1>6
  <1>8. Divide(v) = Tail(u)
    BY DEF Divide
  <1> HIDE DEF u
  <1>9. u \in Seq(Bit) /\ Len(u) = m + 1
    BY <1>1, <1>7, FunctionIsSeq
  <1>10. Tail(u) \in Seq(Bit) /\ Len(Tail(u)) = m /\ \A i \in 1..m : Tail(u)[i] = u[i + 1]
    BY <1>9, TailFacts
  <1>11. \A i \in 1..m : u[i + 1] = IF v[1] = 1 /\ i \in {6, 7, 8} THEN Xor(v[i + 1], 1) ELSE v[i + 1]
    <2> TAKE i \in 1..m
    <2>1. i + 1 \in 1..M /\ (i + 1 \in {1, 7, 8, 9} <=> i \in {6, 7, 8})
      OBVIOUS
    <2> QED
      BY <1>5, <2>1
  <1> QED
    BY <1>8, <1>10, <1>11

(* After n steps of the division of raw, which has L bits: what is left    *)
(* begins with the register, and the bits behind A have still to be added. *)
Left(v, n, A, r, raw, L) ==
    /\ v \in Seq(Bit) /\ Len(v) = L - n
    /\ \A j \in 1..L - n : v[j] = Xor(IF j <= 8 THEN r[j] ELSE 0, IF n + j > A THEN raw[n + j] ELSE 0)

(* A step of the division is a round.                                      *)
LEMMA DivideRound ==
    ASSUME NEW L \in Nat, NEW raw \in [1..L -> Bit], NEW v, NEW n \in Nat, NEW A \in Nat, NEW r \in Clean,
           n + 9 <= L, n + 1 <= A, Left(v, n, A, r, raw, L)
    PROVE  Left(Divide(v), n + 1, A, CrcBit(r), raw, L)
  <1>1. PICK m \in Nat : m + 1 = L - n /\ m >= 8
    <2>1. L - n - 1 \in Nat /\ (L - n - 1) + 1 = L - n /\ L - n - 1 >= 8
      OBVIOUS
    <2> QED
      BY <2>1
  <1>2. v \in Seq(Bit) /\ Len(v) = m + 1
    BY <1>1 DEF Left
  <1>3. \A j \in 1..m + 1 : v[j] = Xor(IF j <= 8 THEN r[j] ELSE 0, IF n + j > A THEN raw[n + j] ELSE 0)
    BY <1>1 DEF Left
  <1> DEFINE d == Divide(v)
             c == CrcBit(r)
  <1>4. /\ d \in Seq(Bit) /\ Len(d) = m
        /\ \A i \in 1..m : d[i] = IF v[1] = 1 /\ i \in {6, 7, 8} THEN Xor(v[i + 1], 1) ELSE v[i + 1]
    BY <1>2, DivideStep
  <1>5. \A i \in 1..8 : r[i] \in Bit
    BY DEF Clean, Register
  <1>6. v[1] = r[1]
    <2>1. 1 \in 1..m + 1 /\ ~ (n + 1 > A)
      OBVIOUS
    <2>2. v[1] = Xor(r[1], 0)
      BY <1>3, <2>1
    <2> QED
      BY <1>5, <2>2 DEF Xor, Bit
  <1>7. /\ \A i \in 1..5 : c[i] = r[i + 1]
        /\ c[6] = Xor(r[7], r[1]) /\ c[7] = Xor(r[8], r[1]) /\ c[8] = r[1]
    BY CleanRound
  <1> HIDE DEF d, c
  <1>8. ASSUME NEW j \in 1..m
        PROVE  d[j] = Xor(IF j <= 8 THEN c[j] ELSE 0, IF (n + 1) + j > A THEN raw[(n + 1) + j] ELSE 0)
    <2>1. PICK x : x = IF (n + 1) + j > A THEN raw[(n + 1) + j] ELSE 0
      OBVIOUS
    <2>2. x \in Bit
      <3>1. (n + 1) + j \in 1..L
        BY <1>1
      <3> QED
        BY <2>1, <3>1 DEF Bit
    <2>3. v[j + 1] = Xor(IF j + 1 <= 8 THEN r[j + 1] ELSE 0, x)
      <3>1. j + 1 \in 1..m + 1 /\ n + (j + 1) = (n + 1) + j
        OBVIOUS
      <3> QED
        BY <1>3, <2>1, <3>1
    <2>4. d[j] = IF r[1] = 1 /\ j \in {6, 7, 8} THEN Xor(v[j + 1], 1) ELSE v[j + 1]
      BY <1>4, <1>6
    <2>5. r[1] \in Bit /\ r[7] \in Bit /\ r[8] \in Bit
      BY <1>5
    <2>6. d[j] = Xor(IF j <= 8 THEN c[j] ELSE 0, x)
      <3>1. CASE j \in 1..5
        <4>1. j + 1 <= 8 /\ j <= 8 /\ j \notin {6, 7, 8}
          BY <3>1
        <4> QED
          BY <1>7, <2>3, <2>4, <3>1, <4>1
      <3>2. CASE j = 6
        <4>1. v[j + 1] = Xor(r[7], x) /\ c[j] = Xor(r[7], r[1])
          BY <1>7, <2>3, <3>2
        <4>2. d[j] = IF r[1] = 1 THEN Xor(v[j + 1], 1) ELSE v[j + 1]
          BY <2>4, <3>2
        <4>3. d[j] = Xor(c[j], x)
          BY <2>2, <2>5, <4>1, <4>2 DEF Xor, Bit
        <4> QED
          BY <3>2, <4>3
      <3>3. CASE j = 7
        <4>1. v[j + 1] = Xor(r[8], x) /\ c[j] = Xor(r[8], r[1])
          BY <1>7, <2>3, <3>3
        <4>2. d[j] = IF r[1] = 1 THEN Xor(v[j + 1], 1) ELSE v[j + 1]
          BY <2>4, <3>3
        <4>3. d[j] = Xor(c[j], x)
          BY <2>2, <2>5, <4>1, <4>2 DEF Xor, Bit
        <4> QED
          BY <3>3, <4>3
      <3>4. CASE j = 8
        <4>1. v[j + 1] = Xor(0, x) /\ c[j] = r[1]
          BY <1>7, <2>3, <3>4
        <4>2. d[j] = IF r[1] = 1 THEN Xor(v[j + 1], 1) ELSE v[j + 1]
          BY <2>4, <3>4
        <4>3. d[j] = Xor(c[j], x)
          BY <2>2, <2>5, <4>1, <4>2 DEF Xor, Bit
        <4> QED
          BY <3>4, <4>3
      <3>5. CASE j > 8
        <4>1. ~ (j + 1 <= 8) /\ ~ (j <= 8) /\ j \notin {6, 7, 8}
          BY <3>5
        <4> QED
          BY <2>3, <2>4, <4>1
      <3> QED
        BY <3>1, <3>2, <3>3, <3>4, <3>5
    <2> QED
      BY <2>1, <2>6
  <1>9. L - (n + 1) = m
    BY <1>1
  <1> QED
    BY <1>4, <1>8, <1>9 DEF Left, d, c

(* The bits of a register and of a byte.                                   *)
LEMMA TheirBits ==
    ASSUME NEW r \in Clean, NEW b \in Octet
    PROVE  \A j \in 1..8 : r[j] \in Bit /\ b[j] \in Bit
  BY DEF Clean, Register, Octet

(* The eight bits of raw behind n are those of b.                          *)
Holds(raw, n, b) == \A j \in 1..8 : raw[n + j] = b[j]

(* The next byte is added to the register.                                 *)
LEMMA DivideAbsorb ==
    ASSUME NEW L \in Nat, NEW raw, NEW v, NEW n \in Nat, NEW r \in Clean, NEW b \in Octet,
           Holds(raw, n, b), Left(v, n, n, r, raw, L)
    PROVE  Left(v, n, n + 8, Absorb(r, b), raw, L)
  <1>1. v \in Seq(Bit) /\ Len(v) = L - n
    BY DEF Left
  <1>2. \A j \in 1..8 : r[j] \in Bit /\ b[j] \in Bit
    BY TheirBits
  <1>3. \A j \in 1..8 : Absorb(r, b)[j] = Xor(r[j], b[j])
    BY AbsorbClean
  <1>4. ASSUME NEW j \in 1..L - n
        PROVE  v[j] = Xor(IF j <= 8 THEN Absorb(r, b)[j] ELSE 0, IF n + j > n + 8 THEN raw[n + j] ELSE 0)
    <2>1. v[j] = Xor(IF j <= 8 THEN r[j] ELSE 0, raw[n + j])
      <3>1. v[j] = Xor(IF j <= 8 THEN r[j] ELSE 0, IF n + j > n THEN raw[n + j] ELSE 0)
        BY DEF Left
      <3>2. n + j > n
        OBVIOUS
      <3> QED
        BY <3>1, <3>2
    <2>3. CASE j <= 8
      <3>1. j \in 1..8 /\ ~ (n + j > n + 8)
        BY <2>3
      <3>2. raw[n + j] = b[j]
        BY <3>1 DEF Holds
      <3>3. v[j] = Xor(r[j], b[j])
        BY <2>1, <2>3, <3>2
      <3>4. Xor(Xor(r[j], b[j]), 0) = Xor(r[j], b[j])
        BY <1>2, <3>1 DEF Xor, Bit
      <3>5. v[j] = Xor(Absorb(r, b)[j], 0)
        BY <1>3, <3>1, <3>3, <3>4
      <3> QED
        BY <2>3, <3>1, <3>5
    <2>4. CASE ~ (j <= 8)
      <3>1. n + j > n + 8
        BY <2>4
      <3> QED
        BY <2>1, <2>4, <3>1
    <2> QED
      BY <2>3, <2>4
  <1> QED
    BY <1>1, <1>4 DEF Left

(* What is left of raw after each of M steps.                              *)
IsDivision(c, raw, M) == c[0] = raw /\ \A n \in 1..M : c[n] = Divide(c[n - 1])

(* Remainder takes such steps, as many as leave eight bits.                *)
LEMMA RemainderSteps ==
    ASSUME NEW M \in Nat, NEW raw \in Seq(Bit), Len(raw) = M + 8
    PROVE  \E c : IsDivision(c, raw, M) /\ Remainder(raw) = c[M]
  <1> DEFINE F(f) == [n \in 0..M |-> IF n = 0 THEN raw ELSE Divide(f[n - 1])]
             S == Seq(Bit)
             step == [n \in Nat |-> [v \in S |-> IF Divide(v) \in S THEN Divide(v) ELSE v]]
  <1>1. step \in [Nat -> [S -> S]]
    <2> HIDE DEF S
    <2> QED
      OBVIOUS
  <1>2. raw \in S
    OBVIOUS
  <1>3. PICK g : Follows(g, S, raw, step, M)
    <2> HIDE DEF step, S
    <2> QED
      BY <1>1, <1>2, Recursion
  <1>4. g \in [0..M -> S] /\ g[0] = raw /\ \A n \in 1..M : g[n] = step[n][g[n - 1]]
    BY <1>3 DEF Follows
  <1>5. ASSUME NEW n \in 1..M
        PROVE  g[n] = IF Divide(g[n - 1]) \in S THEN Divide(g[n - 1]) ELSE g[n - 1]
    <2>1. n \in Nat /\ n - 1 \in 0..M
      OBVIOUS
    <2>2. g[n - 1] \in S
      BY <1>4, <2>1
    <2> DEFINE x == g[n - 1]
    <2>3. g[n] = step[n][x] /\ x \in S
      BY <1>4, <2>2
    <2> HIDE DEF x, S
    <2>4. step[n][x] = IF Divide(x) \in S THEN Divide(x) ELSE x
      BY <2>1, <2>3
    <2> QED
      BY <2>3, <2>4 DEF x
  <1> HIDE DEF step
  <1> DEFINE P == {n \in Nat : n <= M => Len(g[n]) = (M + 8) - n}
  <1>6. 0 \in P
    BY <1>4
  <1>7. ASSUME NEW n \in Nat, n <= M, Len(g[n]) = (M + 8) - n
        PROVE  Divide(g[n]) \in S /\ Len(Divide(g[n])) = (M + 8) - (n + 1)
    <2>1. n \in 0..M
      BY <1>7
    <2>2. g[n] \in Seq(Bit)
      BY <1>4, <2>1
    <2>3. PICK m \in Nat : m = (M + 8) - (n + 1)
      BY <1>7
    <2> DEFINE x == g[n]
    <2>4. x \in Seq(Bit) /\ Len(x) = m + 1
      BY <1>7, <2>2, <2>3
    <2> HIDE DEF x
    <2>5. Divide(x) \in Seq(Bit) /\ Len(Divide(x)) = m
      BY <2>4, DivideStep
    <2> QED
      BY <2>3, <2>5 DEF x
  <1>8. ASSUME NEW n \in Nat, n \in P
        PROVE  n + 1 \in P
    <2> SUFFICES ASSUME n + 1 <= M
                 PROVE  Len(g[n + 1]) = (M + 8) - (n + 1)
      OBVIOUS
    <2>1. n + 1 \in 1..M /\ (n + 1) - 1 = n /\ n <= M
      OBVIOUS
    <2>2. Len(g[n]) = (M + 8) - n
      BY <1>8, <2>1
    <2>3. Divide(g[n]) \in S /\ Len(Divide(g[n])) = (M + 8) - (n + 1)
      BY <1>7, <2>1, <2>2
    <2> HIDE DEF S, P
    <2>4. g[n + 1] = Divide(g[n])
      BY <1>5, <2>1, <2>3
    <2> QED
      BY <2>3, <2>4
  <1>9. \A n \in Nat : n \in P
    <2> HIDE DEF P
    <2> QED
      BY <1>6, <1>8, SetInduction
  <1>10. ASSUME NEW n \in 1..M
         PROVE  g[n] = Divide(g[n - 1])
    <2>1. n - 1 \in Nat /\ n - 1 <= M
      OBVIOUS
    <2>2. Len(g[n - 1]) = (M + 8) - (n - 1)
      BY <1>9, <2>1
    <2>3. Divide(g[n - 1]) \in S
      BY <1>7, <2>1, <2>2
    <2> HIDE DEF S, P
    <2> QED
      BY <1>5, <2>3
  <1> HIDE DEF P, S
  <1>11. g = F(g)
    <2>1. \A n \in 0..M : n # 0 => n \in 1..M
      OBVIOUS
    <2>2. \A n \in 0..M : g[n] = IF n = 0 THEN raw ELSE Divide(g[n - 1])
      BY <1>4, <1>10, <2>1
    <2> QED
      BY <1>4, <2>2
  <1> DEFINE c == CHOOSE f : f = F(f)
  <1>12. c = F(c)
    <2> HIDE DEF F
    <2> QED
      BY <1>11
  <1>13. Remainder(raw) = c[M]
    <2>1. Len(raw) - 8 = M
      OBVIOUS
    <2> QED
      BY <2>1 DEF Remainder, Divide
  <1> HIDE DEF c
  <1>14. IsDivision(c, raw, M)
    <2>1. 0 \in 0..M /\ \A n \in 1..M : n \in 0..M /\ n # 0
      OBVIOUS
    <2>2. \A n \in 0..M : c[n] = IF n = 0 THEN raw ELSE Divide(c[n - 1])
      BY <1>12
    <2> QED
      BY <2>1, <2>2 DEF IsDivision
  <1> QED
    BY <1>13, <1>14

(* Eight steps of the division are the rounds for a byte.                  *)
LEMMA DivideByte ==
    ASSUME NEW M \in Nat, NEW raw, NEW c, raw \in [1..M + 8 -> Bit], IsDivision(c, raw, M),
           NEW n \in Nat, n + 8 <= M, NEW r \in Clean, NEW b \in Octet, Holds(raw, n, b),
           Left(c[n], n, n, r, raw, M + 8)
    PROVE  Left(c[n + 8], n + 8, n + 8, CrcByte(r, b), raw, M + 8)
  <1>1. PICK L \in Nat : L = M + 8
    OBVIOUS
  <1>2. PICK A \in Nat : A = n + 8
    OBVIOUS
  <1>3. ASSUME NEW i \in 0..7, NEW x \in Clean, Left(c[n + i], n + i, A, x, raw, L)
        PROVE  CrcBit(x) \in Clean /\ Left(c[n + (i + 1)], n + (i + 1), A, CrcBit(x), raw, L)
    <2>1. PICK m \in Nat : m = n + i
      OBVIOUS
    <2>2. m + 9 <= L /\ m + 1 <= A /\ m + 1 \in 1..M /\ (m + 1) - 1 = m /\ n + (i + 1) = m + 1
      BY <1>1, <1>2, <2>1
    <2>3. c[m + 1] = Divide(c[m])
      BY <2>2 DEF IsDivision
    <2> DEFINE v == c[m]
    <2>4. Left(v, m, A, x, raw, L) /\ raw \in [1..L -> Bit]
      BY <1>1, <1>3, <2>1
    <2> HIDE DEF v
    <2>5. Left(Divide(v), m + 1, A, CrcBit(x), raw, L)
      BY <2>2, <2>4, DivideRound
    <2> QED
      BY <2>2, <2>3, <2>5, CleanRound DEF v
  <1> DEFINE At(i, x) == x \in Clean /\ Left(c[n + i], n + i, A, x, raw, L)
             z == Absorb(r, b)
  <1>4. At(0, z)
    <2> DEFINE v == c[n]
    <2>1. Left(v, n, n, r, raw, L)
      BY <1>1
    <2> HIDE DEF v
    <2>2. Left(v, n, n + 8, Absorb(r, b), raw, L)
      BY <2>1, DivideAbsorb
    <2>3. n + 0 = n
      OBVIOUS
    <2> QED
      BY <1>2, <2>2, <2>3, AbsorbClean DEF v
  <1>5. \A i \in 0..7 : \A x : At(i, x) => At(i + 1, CrcBit(x))
    BY <1>3
  <1> HIDE DEF At
  <1>6. At(1, CrcBit(z))
    BY <1>4, <1>5
  <1>7. At(2, CrcBit(CrcBit(z)))
    BY <1>6, <1>5
  <1>8. At(3, CrcBit(CrcBit(CrcBit(z))))
    BY <1>7, <1>5
  <1>9. At(4, CrcBit(CrcBit(CrcBit(CrcBit(z)))))
    BY <1>8, <1>5
  <1>10. At(5, CrcBit(CrcBit(CrcBit(CrcBit(CrcBit(z))))))
    BY <1>9, <1>5
  <1>11. At(6, CrcBit(CrcBit(CrcBit(CrcBit(CrcBit(CrcBit(z)))))))
    BY <1>10, <1>5
  <1>12. At(7, CrcBit(CrcBit(CrcBit(CrcBit(CrcBit(CrcBit(CrcBit(z))))))))
    BY <1>11, <1>5
  <1>13. At(8, CrcBit(CrcBit(CrcBit(CrcBit(CrcBit(CrcBit(CrcBit(CrcBit(z)))))))))
    BY <1>12, <1>5
  <1>14. At(8, CrcByte(r, b))
    BY <1>13 DEF CrcByte, Absorb
  <1> QED
    BY <1>1, <1>2, <1>14 DEF At

(* The bits of the bytes, one byte after the other.                        *)
LEMMA BitsFacts ==
    ASSUME NEW N \in Nat, NEW data \in Seq(Octet), Len(data) = N
    PROVE  /\ Bits(data) \in [1..8 * N -> Bit]
           /\ \A k \in 0..N - 1 : Holds(Bits(data), 8 * k, data[k + 1])
  <1>1. \A n \in 1..N : data[n] \in [1..8 -> Bit]
    BY DEF Octet
  <1>2. Bits(data) = [i \in 1..8 * N |-> data[(i + 7) \div 8][((i - 1) % 8) + 1]]
    BY DEF Bits
  <1>3. ASSUME NEW i \in 1..8 * N
        PROVE  (i + 7) \div 8 \in 1..N /\ ((i - 1) % 8) + 1 \in 1..8
    OBVIOUS
  <1>4. ASSUME NEW i \in 1..8 * N
        PROVE  data[(i + 7) \div 8][((i - 1) % 8) + 1] \in Bit
    <2> DEFINE n == (i + 7) \div 8
               j == ((i - 1) % 8) + 1
    <2>1. n \in 1..N /\ j \in 1..8
      BY <1>3
    <2> HIDE DEF n, j
    <2>2. data[n] \in [1..8 -> Bit]
      BY <1>1, <2>1
    <2>3. data[n][j] \in Bit
      BY <2>1, <2>2
    <2> QED
      BY <2>3 DEF n, j
  <1>5. Bits(data) \in [1..8 * N -> Bit]
    BY <1>2, <1>4
  <1>6. ASSUME NEW k \in 0..N - 1, NEW j \in 1..8
        PROVE  Bits(data)[8 * k + j] = data[k + 1][j]
    <2>1. 8 * k + j \in 1..8 * N
      OBVIOUS
    <2>2. (8 * k + j + 7) \div 8 = k + 1
      OBVIOUS
    <2>3. ((8 * k + j - 1) % 8) + 1 = j
      OBVIOUS
    <2>4. PICK i \in 1..8 * N : i = 8 * k + j
      BY <2>1
    <2>5. Bits(data)[i] = data[(i + 7) \div 8][((i - 1) % 8) + 1]
      BY <1>2
    <2>6. (i + 7) \div 8 = k + 1 /\ ((i - 1) % 8) + 1 = j
      BY <2>2, <2>3, <2>4
    <2>7. Bits(data)[i] = data[k + 1][j]
      BY <2>5, <2>6, Zenon
    <2> QED
      BY <2>4, <2>7
  <1> QED
    BY <1>5, <1>6 DEF Holds

(* crc8 is the remainder of the text with a byte of zeroes behind it.      *)
LEMMA RemainderIsCrc ==
    ASSUME NEW text \in Seq(Octet)
    PROVE  crc8(text) = Remainder(Bits(Append(text, Zero)))
  <1>1. PICK N \in Nat : N = Len(text)
    OBVIOUS
  <1> DEFINE all == Append(text, Zero)
             raw == Bits(all)
  <1>2. Zero \in Octet
    BY DEF Zero, Octet, Bit
  <1>3. /\ all \in Seq(Octet) /\ Len(all) = N + 1 /\ all[N + 1] = Zero
        /\ \A n \in 1..N : all[n] = text[n]
    BY <1>1, <1>2, AppendFacts
  <1>4. PICK M \in Nat : M = 8 * N
    OBVIOUS
  <1> HIDE DEF all
  <1>5. raw \in [1..M + 8 -> Bit] /\ \A k \in 0..N : Holds(raw, 8 * k, all[k + 1])
    <2>1. PICK K \in Nat : K = N + 1
      OBVIOUS
    <2>2. /\ raw \in [1..8 * K -> Bit]
          /\ \A k \in 0..K - 1 : Holds(raw, 8 * k, all[k + 1])
      BY <1>3, <2>1, BitsFacts
    <2>3. 8 * K = M + 8 /\ K - 1 = N
      BY <1>4, <2>1
    <2> QED
      BY <2>2, <2>3
  <1> HIDE DEF raw
  <1>6. raw \in Seq(Bit) /\ Len(raw) = M + 8
    <2>1. PICK L \in Nat : L = M + 8
      OBVIOUS
    <2>2. raw \in [1..L -> Bit]
      BY <1>5, <2>1
    <2> QED
      BY <2>1, <2>2, FunctionIsSeq
  <1>7. PICK c : IsDivision(c, raw, M) /\ Remainder(raw) = c[M]
    BY <1>6, RemainderSteps
  <1>8. PICK f : IsRun(f, text) /\ CrcOf(text) = f[Len(text)]
    BY CrcRun
  <1>9. /\ f[0] = Nil
        /\ \A k \in 0..N : f[k] \in Clean
        /\ \A k \in 1..N : f[k] = CrcByte(f[k - 1], text[k])
    BY <1>1, <1>8 DEF IsRun
  <1> DEFINE P == {k \in Nat : k <= N => Left(c[8 * k], 8 * k, 8 * k, f[k], raw, M + 8)}
  <1>10. 0 \in P
    <2>1. c[0] = raw
      BY <1>7 DEF IsDivision
    <2>2. ASSUME NEW j \in 1..M + 8
          PROVE  raw[j] = Xor(IF j <= 8 THEN Nil[j] ELSE 0, IF 0 + j > 0 THEN raw[0 + j] ELSE 0)
      <3>1. raw[j] \in Bit /\ 0 + j > 0 /\ 0 + j = j
        BY <1>5
      <3>2. (IF j <= 8 THEN Nil[j] ELSE 0) = 0
        BY DEF Nil
      <3>3. raw[j] = Xor(0, raw[j])
        BY <3>1 DEF Xor, Bit
      <3> QED
        BY <3>1, <3>2, <3>3
    <2>3. Left(raw, 0, 0, Nil, raw, M + 8)
      BY <1>6, <2>2 DEF Left
    <2>4. 8 * 0 = 0
      OBVIOUS
    <2> QED
      BY <1>9, <2>1, <2>3, <2>4
  <1>11. ASSUME NEW k \in Nat, k \in P
         PROVE  k + 1 \in P
    <2> SUFFICES ASSUME k + 1 <= N
                 PROVE  Left(c[8 * (k + 1)], 8 * (k + 1), 8 * (k + 1), f[k + 1], raw, M + 8)
      OBVIOUS
    <2>1. Left(c[8 * k], 8 * k, 8 * k, f[k], raw, M + 8)
      BY <1>11
    <2>2. PICK n \in Nat : n = 8 * k
      OBVIOUS
    <2>3. n + 8 <= M /\ 8 * (k + 1) = n + 8 /\ k \in 0..N /\ k + 1 \in 1..N /\ (k + 1) - 1 = k
      BY <1>4, <2>2
    <2> DEFINE r == f[k]
               b == all[k + 1]
    <2>4. r \in Clean /\ b \in Octet
      BY <1>1, <1>3, <1>9, <2>3
    <2>5. f[k + 1] = CrcByte(r, b)
      BY <1>3, <1>9, <2>3
    <2>6. Holds(raw, n, b) /\ Left(c[n], n, n, r, raw, M + 8)
      BY <1>5, <2>1, <2>2, <2>3
    <2> HIDE DEF r, b, P
    <2>7. Left(c[n + 8], n + 8, n + 8, CrcByte(r, b), raw, M + 8)
      BY <1>5, <1>7, <2>3, <2>4, <2>6, DivideByte
    <2> QED
      BY <2>3, <2>5, <2>7
  <1>12. N \in P
    <2> HIDE DEF P
    <2> QED
      BY <1>10, <1>11, SetInduction
  <1>13. Left(c[M], M, M, f[N], raw, M + 8)
    BY <1>4, <1>12
  <1> HIDE DEF P
  <1> DEFINE v == c[M]
             r == f[N]
  <1>14. r \in Clean
    BY <1>9
  <1>15. v \in Seq(Bit) /\ Len(v) = 8
    <2>1. (M + 8) - M = 8
      OBVIOUS
    <2> QED
      BY <1>13, <2>1 DEF Left
  <1>16. ASSUME NEW j \in 1..8
         PROVE  v[j] = r[j]
    <2>1. j \in 1..(M + 8) - M /\ M + j > M /\ j <= 8
      OBVIOUS
    <2>2. v[j] = Xor(r[j], raw[M + j])
      BY <1>13, <2>1 DEF Left
    <2>3. Holds(raw, M, Zero)
      BY <1>3, <1>4, <1>5
    <2>4. raw[M + j] = 0
      BY <2>3 DEF Holds, Zero
    <2> HIDE DEF r, v
    <2>5. r[j] \in Bit
      BY <1>2, <1>14, TheirBits
    <2> QED
      BY <2>2, <2>4, <2>5 DEF Xor, Bit
  <1> HIDE DEF r, v
  <1>17. v \in [1..8 -> Bit]
    <2>1. v \in [1..Len(v) -> Bit]
      BY <1>15, ElementOfSeq, LenProperties
    <2> QED
      BY <1>15, <2>1
  <1>18. SubSeq(r, 1, 8) \in [1..8 -> Bit] /\ \A i \in 1..8 : SubSeq(r, 1, 8)[i] = r[i]
    BY <1>14, UpperHalf DEF Octet
  <1>19. SubSeq(r, 1, 8) = v
    BY <1>16, <1>17, <1>18
  <1>20. crc8(text) = SubSeq(r, 1, 8)
    BY <1>1, <1>8 DEF crc8, r
  <1> QED
    BY <1>7, <1>19, <1>20 DEF raw, all, v

-----------------------------------------------------------------------------
(* One message                                                             *)

(* The two bytes of a longer value lose nothing of it.                     *)
LEMMA DivMod256 ==
    ASSUME NEW value \in Nat
    PROVE  ((value \div 256) * 256) + (value % 256) = value
  OBVIOUS

(* Every length that fits two bytes is read back by convert_hex_to_int as  *)
(* convert_int_to_hex wrote it, on both sides of the limit 0xff at which   *)
(* its branches change and up to the limit 0xffff.                         *)
THEOREM HeaderRoundTrip ==
    \A value \in Nat :
        value <= 65535 => convert_hex_to_int(convert_int_to_hex(value)) = value
  <1> TAKE value \in Nat
  <1> HAVE value <= 65535
  <1>1. CASE value <= 255
    <2>1. convert_int_to_hex(value) = <<0, value>>
      BY <1>1 DEF convert_int_to_hex
    <2> QED
      BY <2>1 DEF convert_hex_to_int
  <1>2. CASE value > 255
    <2>1. convert_int_to_hex(value) = <<value \div 256, value % 256>>
      BY <1>2 DEF convert_int_to_hex
    <2> QED
      BY <2>1, DivMod256 DEF convert_hex_to_int
  <1> QED
    BY <1>1, <1>2

(* The bytes behind the header, as many as it says.                        *)
Received == SubSeq(frame, HEADSIZE + 1, HEADSIZE + convert_hex_to_int(frame))

(* The frame as it was sent.                                               *)
Sent == convert_int_to_hex(Len(crc_data(msg))) \o crc_data(msg)

(* What arrives is what was sent, or is not divisible by the polynomial.   *)
WireInv ==
    /\ pc \in {"send", "way", "receive", "done", "dropped", "undefined"}
    /\ msg \in Messages
    /\ damaged \in BOOLEAN
    /\ pc \in {"send", "way"} => ~damaged
    /\ pc = "way" => frame = Sent /\ Fits
    /\ pc = "receive" => IF damaged THEN crc8(Received) # Zero ELSE Received = crc_data(msg)
    /\ RoundTrip
    /\ DamageRefused

(* A message and what crc_data makes of it.                                *)
LEMMA MessageFacts ==
    ASSUME NEW m \in Messages
    PROVE  /\ m \in Seq(Octet) /\ 1 <= Len(m)
           /\ crc_data(m) \in Seq(Octet) /\ Len(crc_data(m)) = Len(m) + 1
           /\ crc8(crc_data(m)) = Zero
           /\ Front(crc_data(m)) = m
  <1>1. m \in Seq(Octet) /\ 1 <= Len(m)
    BY WireAssumption
  <1>2. PICK N \in Nat : N = Len(m)
    BY <1>1
  <1>3. crc8(m) \in Octet
    BY <1>1, CrcType
  <1> DEFINE d == crc_data(m)
  <1>4. /\ d \in Seq(Octet) /\ Len(d) = N + 1
        /\ \A i \in 1..N : d[i] = m[i]
    BY <1>1, <1>2, <1>3, AppendFacts DEF crc_data
  <1>5. crc8(d) = Zero
    BY <1>1, CrcCancels
  <1> HIDE DEF d
  <1>6. Front(d) = m
    <2>1. Front(d) = SubSeq(d, 1, N)
      BY <1>4 DEF Front
    <2>2. \A i \in 1..N : d[i] \in Octet
      BY <1>4
    <2>3. /\ SubSeq(d, 1, N) \in Seq(Octet)
          /\ Len(SubSeq(d, 1, N)) = N
          /\ \A i \in 1..N : SubSeq(d, 1, N)[i] = d[i]
      <3>1. /\ SubSeq(d, 1, N) \in Seq(Octet)
            /\ Len(SubSeq(d, 1, N)) = IF 1 <= N THEN (N - 1) + 1 ELSE 0
            /\ \A i \in 1..(N - 1) + 1 : SubSeq(d, 1, N)[i] = d[(1 + i) - 1]
        BY <2>2, SubSeqProperties
      <3>2. (N - 1) + 1 = N /\ 1 <= N /\ \A i \in 1..N : (1 + i) - 1 = i
        BY <1>1, <1>2
      <3> QED
        BY <3>1, <3>2
    <2> DEFINE u == SubSeq(d, 1, N)
    <2> HIDE DEF u
    <2>4. u \in Seq(Octet) /\ Len(u) = N /\ \A i \in 1..N : u[i] = m[i]
      BY <1>4, <2>3 DEF u
    <2>5. u = m
      BY <1>1, <1>2, <2>4, SeqEqual
    <2> QED
      BY <2>1, <2>5 DEF u
  <1> QED
    BY <1>1, <1>2, <1>4, <1>5, <1>6 DEF d

(* A header and what is behind it.                                         *)
Carries(fr, d, N) ==
    /\ convert_hex_to_int(fr) = N
    /\ \A n \in 1..N : fr[n + 2] = d[n]

(* A sequence of n elements is a function on the first n numbers.          *)
LEMMA SeqIsFunction ==
    ASSUME NEW S, NEW s \in Seq(S), NEW n \in Nat, Len(s) = n
    PROVE  s \in [1..n -> S]
  BY LenProperties

(* u is s, of m elements, and t, of n elements, behind it.                 *)
Joined(u, s, m, t, n) ==
    /\ Len(u) = m + n
    /\ \A i \in 1..m : u[i] = s[i]
    /\ \A i \in 1..n : u[m + i] = t[i]

(* What two sequences make together.                                       *)
LEMMA ConcatFacts ==
    ASSUME NEW S, NEW s \in Seq(S), NEW m \in Nat, Len(s) = m, NEW t \in Seq(S), NEW n \in Nat, Len(t) = n
    PROVE  s \o t \in Seq(S) /\ Joined(s \o t, s, m, t, n)
  <1> DEFINE u == s \o t
  <1>1. /\ u \in Seq(S) /\ Len(u) = m + n
        /\ \A i \in 1..m + n : u[i] = IF i <= m THEN s[i] ELSE t[i - m]
    BY ConcatProperties
  <1> HIDE DEF u
  <1>2. ASSUME NEW i \in 1..m
        PROVE  u[i] = s[i]
    <2>1. i \in 1..m + n /\ i <= m
      OBVIOUS
    <2> QED
      BY <1>1, <2>1
  <1>3. ASSUME NEW i \in 1..n
        PROVE  u[m + i] = t[i]
    <2>1. m + i \in 1..m + n /\ ~ (m + i <= m) /\ (m + i) - m = i
      OBVIOUS
    <2> QED
      BY <1>1, <2>1
  <1> QED
    BY <1>1, <1>2, <1>3 DEF Joined, u

(* The header is two numbers.                                              *)
LEMMA HeaderFacts ==
    ASSUME NEW N \in Nat
    PROVE  convert_int_to_hex(N) \in [1..2 -> Int]
  BY DEF convert_int_to_hex

(* The frame write_sock_func sends.                                        *)
LEMMA SentFacts ==
    ASSUME NEW d \in Seq(Octet), NEW N \in Nat, Len(d) = N, N <= 65535
    PROVE  LET fr == convert_int_to_hex(N) \o d
           IN  fr \in [1..N + 2 -> Int \cup Octet] /\ Len(fr) = N + 2 /\ Carries(fr, d, N)
  <1> DEFINE A == Int \cup Octet
             h == convert_int_to_hex(N)
             fr == h \o d
  <1>1. PICK two \in Nat : two = 2
    OBVIOUS
  <1>2. convert_hex_to_int(h) = N
    BY HeaderRoundTrip
  <1>3. h \in [1..two -> A]
    <2>1. h \in [1..2 -> Int]
      BY HeaderFacts
    <2> QED
      BY <1>1, <2>1
  <1>4. d \in [1..N -> A]
    <2>1. d \in [1..N -> Octet]
      BY SeqIsFunction
    <2> QED
      BY <2>1
  <1> HIDE DEF A, h
  <1>5. h \in Seq(A) /\ Len(h) = two /\ d \in Seq(A)
    BY <1>3, <1>4, FunctionIsSeq
  <1>6. /\ fr \in Seq(A) /\ Len(fr) = two + N
        /\ \A i \in 1..two : fr[i] = h[i]
        /\ \A i \in 1..N : fr[two + i] = d[i]
    <2>1. fr \in Seq(A) /\ Joined(fr, h, two, d, N)
      BY <1>5, ConcatFacts
    <2> HIDE DEF fr
    <2> QED
      BY <2>1 DEF Joined
  <1> HIDE DEF fr
  <1>7. PICK M \in Nat : M = N + 2 /\ M = two + N
    BY <1>1
  <1>8. fr \in [1..M -> A]
    BY <1>6, <1>7, SeqIsFunction
  <1>9. fr[1] = h[1] /\ fr[2] = h[2]
    BY <1>1, <1>6
  <1>10. convert_hex_to_int(fr) = N
    BY <1>2, <1>9 DEF convert_hex_to_int
  <1>11. ASSUME NEW n \in 1..N
         PROVE  fr[n + 2] = d[n]
    <2>1. n + 2 = two + n
      BY <1>1
    <2> QED
      BY <1>6, <2>1
  <1> QED
    BY <1>6, <1>7, <1>8, <1>10, <1>11 DEF Carries, A, fr, h

(* What is cut out is what is behind the header.                           *)
LEMMA CutFacts ==
    ASSUME NEW d \in Seq(Octet), NEW N \in Nat, Len(d) = N, NEW fr, Carries(fr, d, N)
    PROVE  SubSeq(fr, HEADSIZE + 1, HEADSIZE + convert_hex_to_int(fr)) = d
  <1>1. PICK a \in Int : a = HEADSIZE + 1 /\ a = 3
    BY DEF HEADSIZE
  <1>2. PICK b \in Int : b = HEADSIZE + convert_hex_to_int(fr) /\ b = 2 + N
    BY DEF HEADSIZE, Carries
  <1>3. \A i \in a..b : fr[i] \in Octet
    <2> TAKE i \in a..b
    <2>1. i - 2 \in 1..N /\ (i - 2) + 2 = i
      BY <1>1, <1>2
    <2>2. fr[i] = d[i - 2]
      BY <2>1 DEF Carries
    <2> QED
      BY <2>1, <2>2
  <1> DEFINE u == SubSeq(fr, a, b)
  <1>4. /\ u \in Seq(Octet)
        /\ Len(u) = IF a <= b THEN (b - a) + 1 ELSE 0
        /\ \A i \in 1..(b - a) + 1 : u[i] = fr[(a + i) - 1]
    BY <1>3, SubSeqProperties
  <1> HIDE DEF u
  <1>5. (b - a) + 1 = N /\ (a <= b \/ N = 0)
    BY <1>1, <1>2
  <1>6. Len(u) = N
    BY <1>4, <1>5
  <1>7. ASSUME NEW i \in 1..N
        PROVE  u[i] = d[i]
    <2>1. (a + i) - 1 = i + 2
      BY <1>1
    <2> QED
      BY <1>4, <1>5, <2>1 DEF Carries
  <1>8. u = d
    BY <1>4, <1>6, <1>7, SeqEqual
  <1> QED
    BY <1>1, <1>2, <1>8 DEF u

(* The state after write_sock_func.                                        *)
LEMMA OnTheWay ==
    ASSUME msg \in Messages, frame = Sent, Fits
    PROVE  \E d \in Seq(Octet), N \in Nat :
               /\ d = crc_data(msg) /\ Len(d) = N /\ N = Len(msg) + 1 /\ crc8(d) = Zero
               /\ frame \in [1..N + 2 -> Int \cup Octet] /\ Len(frame) = N + 2 /\ Carries(frame, d, N)
  <1> DEFINE d == crc_data(msg)
             N == Len(msg) + 1
  <1>0. d \in Seq(Octet) /\ Len(d) = N /\ crc8(d) = Zero /\ Len(msg) \in Nat
    BY MessageFacts
  <1>1. d \in Seq(Octet) /\ Len(d) = N /\ crc8(d) = Zero /\ N \in Nat /\ N <= 65535
    BY <1>0, WireAssumption DEF Fits, HEADSIZE
  <1>2. frame = convert_int_to_hex(N) \o d
    BY <1>1 DEF Sent
  <1> HIDE DEF d, N
  <1> DEFINE fr == convert_int_to_hex(N) \o d
  <1>3. fr \in [1..N + 2 -> Int \cup Octet] /\ Len(fr) = N + 2 /\ Carries(fr, d, N)
    BY <1>1, SentFacts
  <1> QED
    BY <1>1, <1>2, <1>3 DEF d, N

(* The changes of a byte by a burst leave a byte.                          *)
LEMMA FlippedByte ==
    ASSUME NEW u \in Octet, NEW s \in 1..8, NEW bits \in Octet
    PROVE  /\ [b \in 1..8 |-> IF b >= s THEN Xor(u[b], bits[b - s + 1]) ELSE u[b]] \in Octet
           /\ [b \in 1..8 |-> IF b < s THEN Xor(u[b], bits[b + 9 - s]) ELSE u[b]] \in Octet
  <1>1. \A i \in 1..8 : u[i] \in Bit /\ bits[i] \in Bit
    BY DEF Octet
  <1>2. ASSUME NEW b \in 1..8, b >= s
        PROVE  Xor(u[b], bits[b - s + 1]) \in Bit
    <2>1. b - s + 1 \in 1..8
      BY <1>2
    <2> QED
      BY <1>1, <2>1, XorType
  <1>3. ASSUME NEW b \in 1..8, b < s
        PROVE  Xor(u[b], bits[b + 9 - s]) \in Bit
    <2>1. b + 9 - s \in 1..8
      BY <1>3
    <2> QED
      BY <1>1, <2>1, XorType
  <1> QED
    BY <1>1, <1>2, <1>3 DEF Octet

(* What a burst leaves behind the header is a burst away from the text.    *)
LEMMA BurstBehind ==
    ASSUME msg \in Messages, frame = Sent, Fits, NEW k \in 1..Len(msg) + 1, NEW s \in 1..8, NEW bits \in Octet,
           bits[1] = 1, NEW fr, fr = Flip(k, s, bits)
    PROVE  crc8(SubSeq(fr, HEADSIZE + 1, HEADSIZE + convert_hex_to_int(fr))) # Zero
  <1>1. PICK d \in Seq(Octet), N \in Nat :
            /\ d = crc_data(msg) /\ Len(d) = N /\ N = Len(msg) + 1 /\ crc8(d) = Zero
            /\ frame \in [1..N + 2 -> Int \cup Octet] /\ Len(frame) = N + 2 /\ Carries(frame, d, N)
    BY OnTheWay
  <1>2. k \in 1..N
    BY <1>1
  <1> DEFINE One(u) == [b \in 1..8 |-> IF b >= s THEN Xor(u[b], bits[b - s + 1]) ELSE u[b]]
             Two(u) == [b \in 1..8 |-> IF b < s THEN Xor(u[b], bits[b + 9 - s]) ELSE u[b]]
             e == [n \in 1..N |-> fr[n + 2]]
  <1>3. \A u \in Octet : One(u) \in Octet /\ Two(u) \in Octet
    BY FlippedByte
  <1>4. \A u : \A b \in 1..8 : One(u)[b] = IF b >= s THEN Xor(u[b], bits[b - s + 1]) ELSE u[b]
    OBVIOUS
  <1>5. \A u : \A b \in 1..8 : Two(u)[b] = IF b < s THEN Xor(u[b], bits[b + 9 - s]) ELSE u[b]
    OBVIOUS
  <1>6. fr = [i \in 1..N + 2 |-> IF i = 2 + k THEN One(frame[i])
                               ELSE IF i = 2 + k + 1 THEN Two(frame[i]) ELSE frame[i]]
    BY <1>1 DEF Flip, HEADSIZE
  <1> HIDE DEF One, Two
  <1>7. fr[1] = frame[1] /\ fr[2] = frame[2]
    <2>1. 1 \in 1..N + 2 /\ 2 \in 1..N + 2 /\ 1 # 2 + k /\ 1 # 2 + k + 1 /\ 2 # 2 + k /\ 2 # 2 + k + 1
      BY <1>2
    <2> QED
      BY <1>6, <2>1
  <1>8. ASSUME NEW n \in 1..N
        PROVE  e[n] = IF n = k THEN One(d[n]) ELSE IF n = k + 1 THEN Two(d[n]) ELSE d[n]
    <2>1. n + 2 \in 1..N + 2 /\ (n + 2 = 2 + k <=> n = k) /\ (n + 2 = 2 + k + 1 <=> n = k + 1)
      BY <1>2
    <2>2. frame[n + 2] = d[n]
      BY <1>1 DEF Carries
    <2>3. e[n] = fr[n + 2]
      OBVIOUS
    <2> HIDE DEF e
    <2>4. e[n] = IF n + 2 = 2 + k THEN One(frame[n + 2])
                 ELSE IF n + 2 = 2 + k + 1 THEN Two(frame[n + 2]) ELSE frame[n + 2]
      BY <1>6, <2>1, <2>3
    <2> QED
      BY <2>1, <2>2, <2>4
  <1>9. \A n \in 1..N : d[n] \in Octet
    BY <1>1
  <1>10. e \in [1..N -> Octet]
    <2>1. \A n \in 1..N : e[n] \in Octet
      <3> HIDE DEF e
      <3> QED
        BY <1>3, <1>8, <1>9
    <2> QED
      BY <2>1
  <1>11. Carries(fr, e, N)
    <2>1. convert_hex_to_int(fr) = N
      BY <1>1, <1>7 DEF Carries, convert_hex_to_int
    <2> QED
      BY <2>1 DEF Carries
  <1> HIDE DEF e
  <1>12. e \in Seq(Octet) /\ Len(e) = N
    BY <1>10, FunctionIsSeq
  <1>13. IsBurst(d, e, k, s, bits)
    <2>1. \A n \in 1..Len(d) : n # k /\ n # k + 1 => e[n] = d[n]
      BY <1>1, <1>8
    <2>2. e[k] = One(d[k])
      BY <1>2, <1>8
    <2>3. k < Len(d) => e[k + 1] = Two(d[k + 1])
      <3>1. ASSUME k < Len(d)
            PROVE  k + 1 \in 1..N /\ k + 1 # k
        BY <1>1, <1>2, <3>1
      <3> QED
        BY <1>8, <3>1
    <2>4. \A b \in 1..8 : e[k][b] = IF b >= s THEN Xor(d[k][b], bits[b - s + 1]) ELSE d[k][b]
      BY <1>4, <2>2
    <2>5. k < Len(d) => \A b \in 1..8 :
              e[k + 1][b] = IF b < s THEN Xor(d[k + 1][b], bits[b + 9 - s]) ELSE d[k + 1][b]
      BY <1>5, <2>3
    <2> QED
      BY <2>1, <2>4, <2>5 DEF IsBurst
  <1>14. crc8(e) # Zero
    BY <1>1, <1>2, <1>12, <1>13, BurstSeen
  <1>15. SubSeq(fr, HEADSIZE + 1, HEADSIZE + convert_hex_to_int(fr)) = e
    BY <1>11, <1>12, CutFacts
  <1> QED
    BY <1>14, <1>15

(* A byte with one bit changed.                                            *)
OneFlipped(u, x) == [u EXCEPT ![x] = 1 - @]

(* It is a byte still.                                                     *)
LEMMA OneFlippedByte ==
    ASSUME NEW u \in Octet, NEW x \in 1..8
    PROVE  OneFlipped(u, x) \in Octet /\ Flipped(u, OneFlipped(u, x), x)
  <1> DEFINE v == OneFlipped(u, x)
  <1>1. \A i \in 1..8 : u[i] \in Bit
    BY DEF Octet
  <1>2. v \in [1..8 -> Int] /\ \A i \in 1..8 : v[i] = IF i = x THEN 1 - u[i] ELSE u[i]
    BY <1>1 DEF OneFlipped, Octet, Bit
  <1> HIDE DEF v
  <1>3. ASSUME NEW i \in 1..8
        PROVE  v[i] \in Bit
    <2>1. v[i] = 1 - u[i] \/ v[i] = u[i]
      BY <1>2
    <2> QED
      BY <1>1, <2>1 DEF Bit
  <1>4. v \in Octet
    BY <1>2, <1>3 DEF Octet
  <1>5. Flipped(u, v, x)
    BY <1>2 DEF Flipped
  <1> QED
    BY <1>4, <1>5 DEF v

(* A sequence of bytes with a bit changed in each of two bytes.            *)
TwoChanged(f, p, q, a, b) == [f EXCEPT ![p][a] = 1 - @, ![q][b] = 1 - @]

(* Bits of two different elements changed.                                 *)
LEMMA TwoExcept ==
    ASSUME NEW f, NEW p \in DOMAIN f, NEW q \in DOMAIN f, p # q, NEW a, NEW b, NEW r \in DOMAIN f
    PROVE  TwoChanged(f, p, q, a, b)[r] =
               IF r = p THEN OneFlipped(f[r], a) ELSE IF r = q THEN OneFlipped(f[r], b) ELSE f[r]
  <1> USE DEF TwoChanged
  <1>1. CASE r = p
    BY <1>1 DEF OneFlipped
  <1>2. CASE r = q
    BY <1>2 DEF OneFlipped
  <1>3. CASE r # p /\ r # q
    BY <1>3
  <1> QED
    BY <1>1, <1>2, <1>3

(* What two changed bits leave behind the header is two bits away from the *)
(* text.                                                                   *)
LEMMA TwoBitsBehind ==
    ASSUME msg \in Messages, frame = Sent, Fits, NEW k \in 1..Len(msg) + 1, NEW l \in 1..Len(msg) + 1,
           NEW a \in 1..8, NEW b \in 1..8, k < l, 8 * (l - k) + b - a < 127, NEW fr,
           fr = TwoChanged(frame, HEADSIZE + k, HEADSIZE + l, a, b)
    PROVE  crc8(SubSeq(fr, HEADSIZE + 1, HEADSIZE + convert_hex_to_int(fr))) # Zero
  <1>1. PICK d \in Seq(Octet), N \in Nat :
            /\ d = crc_data(msg) /\ Len(d) = N /\ N = Len(msg) + 1 /\ crc8(d) = Zero
            /\ frame \in [1..N + 2 -> Int \cup Octet] /\ Len(frame) = N + 2 /\ Carries(frame, d, N)
    BY OnTheWay
  <1>2. k \in 1..N /\ l \in 1..N
    BY <1>1
  <1> DEFINE e == [n \in 1..N |-> fr[n + 2]]
  <1>3. \A u \in Octet, x \in 1..8 : OneFlipped(u, x) \in Octet /\ Flipped(u, OneFlipped(u, x), x)
    BY OneFlippedByte
  <1>4. PICK p \in 1..N + 2, q \in 1..N + 2 :
            p = HEADSIZE + k /\ p = k + 2 /\ q = HEADSIZE + l /\ q = l + 2 /\ p # q
    BY <1>2 DEF HEADSIZE
  <1>5. fr = TwoChanged(frame, p, q, a, b)
    BY <1>4
  <1>6. \A i \in 1..N + 2 :
            fr[i] = IF i = p THEN OneFlipped(frame[i], a) ELSE IF i = q THEN OneFlipped(frame[i], b) ELSE frame[i]
    <2>1. DOMAIN frame = 1..N + 2
      BY <1>1
    <2> TAKE i \in 1..N + 2
    <2>2. i \in DOMAIN frame /\ p \in DOMAIN frame /\ q \in DOMAIN frame /\ p # q
      BY <1>4, <2>1
    <2>3. TwoChanged(frame, p, q, a, b)[i] =
              IF i = p THEN OneFlipped(frame[i], a) ELSE IF i = q THEN OneFlipped(frame[i], b) ELSE frame[i]
      BY <2>2, TwoExcept
    <2> QED
      BY <1>5, <2>3
  <1>7. fr[1] = frame[1] /\ fr[2] = frame[2]
    <2>1. 1 \in 1..N + 2 /\ 2 \in 1..N + 2 /\ 1 # p /\ 1 # q /\ 2 # p /\ 2 # q
      BY <1>2, <1>4
    <2> QED
      BY <1>6, <2>1
  <1>8. ASSUME NEW n \in 1..N
        PROVE  e[n] = IF n = k THEN OneFlipped(d[n], a) ELSE IF n = l THEN OneFlipped(d[n], b) ELSE d[n]
    <2>1. n + 2 \in 1..N + 2 /\ (n + 2 = p <=> n = k) /\ (n + 2 = q <=> n = l)
      BY <1>2, <1>4
    <2>2. frame[n + 2] = d[n]
      BY <1>1 DEF Carries
    <2>3. e[n] = fr[n + 2]
      OBVIOUS
    <2> HIDE DEF e
    <2>4. e[n] = IF n + 2 = p THEN OneFlipped(frame[n + 2], a)
                 ELSE IF n + 2 = q THEN OneFlipped(frame[n + 2], b) ELSE frame[n + 2]
      BY <1>6, <2>1, <2>3
    <2> QED
      BY <2>1, <2>2, <2>4
  <1>9. \A n \in 1..N : d[n] \in Octet
    BY <1>1
  <1>10. e \in [1..N -> Octet]
    <2>1. \A n \in 1..N : e[n] \in Octet
      <3> HIDE DEF e
      <3> QED
        BY <1>3, <1>8, <1>9
    <2> QED
      BY <2>1
  <1>11. Carries(fr, e, N)
    <2>1. convert_hex_to_int(fr) = N
      BY <1>1, <1>7 DEF Carries, convert_hex_to_int
    <2> QED
      BY <2>1 DEF Carries
  <1> HIDE DEF e
  <1>12. e \in Seq(Octet) /\ Len(e) = N
    BY <1>10, FunctionIsSeq
  <1>13. IsTwoBits(d, e, k, l, a, b)
    <2>1. \A n \in 1..Len(d) : n # k /\ n # l => e[n] = d[n]
      BY <1>1, <1>8
    <2>2. e[k] = OneFlipped(d[k], a) /\ e[l] = OneFlipped(d[l], b)
      BY <1>2, <1>8
    <2>3. d[k] \in Octet /\ d[l] \in Octet
      BY <1>2, <1>9
    <2>4. Flipped(d[k], OneFlipped(d[k], a), a) /\ Flipped(d[l], OneFlipped(d[l], b), b)
      BY <1>3, <2>3
    <2> QED
      BY <2>1, <2>2, <2>4 DEF IsTwoBits
  <1>14. crc8(e) # Zero
    BY <1>1, <1>2, <1>12, <1>13, TwoBitsSeen
  <1>15. SubSeq(fr, HEADSIZE + 1, HEADSIZE + convert_hex_to_int(fr)) = e
    BY <1>11, <1>12, CutFacts
  <1> QED
    BY <1>14, <1>15

(* Every step keeps the invariant.                                         *)
LEMMA WireInvStep == WireInv /\ [Next]_vars => WireInv'
  <1> SUFFICES ASSUME WireInv, [Next]_vars
               PROVE  WireInv'
    OBVIOUS
  <1>0. msg \in Messages
    BY DEF WireInv
  <1>1. CASE write_sock_func
    <2>1. /\ msg' = msg /\ ~damaged' /\ damaged' \in BOOLEAN
          /\ \/ pc' \in {"dropped", "undefined"} /\ ~Fits
             \/ pc' = "way" /\ frame' = Sent /\ Fits
      <3>1. \A n \in Nat : n > BufSize => ~(HEADSIZE + n + 1 <= BufSize)
        BY WireAssumption DEF HEADSIZE
      <3>2. Len(msg) \in Nat
        BY <1>0, MessageFacts
      <3>3. Len(msg) > BufSize => ~Fits
        BY <3>1, <3>2 DEF Fits
      <3> QED
        BY <1>1, <3>3 DEF write_sock_func, WireInv, Sent
    <2>2. Sent' = Sent /\ Fits' = Fits
      BY <2>1 DEF Sent, Fits
    <2> QED
      BY <1>0, <2>1, <2>2 DEF WireInv, RoundTrip, DamageRefused
  <1>2. CASE \E k \in 1..Len(msg) + 1, s \in 1..8, bits \in Octet : Burst(k, s, bits)
    <2>1. PICK k \in 1..Len(msg) + 1, s \in 1..8, bits \in Octet : Burst(k, s, bits)
      BY <1>2
    <2>2. /\ pc' = "receive" /\ msg' = msg /\ damaged' = TRUE /\ frame' = Flip(k, s, bits)
          /\ pc = "way" /\ bits[1] = 1
      BY <2>1 DEF Burst
    <2>3. frame = Sent /\ Fits
      BY <2>2 DEF WireInv
    <2> DEFINE fr == frame'
    <2>4. fr = Flip(k, s, bits)
      BY <2>2
    <2> HIDE DEF fr
    <2>5. crc8(SubSeq(fr, HEADSIZE + 1, HEADSIZE + convert_hex_to_int(fr))) # Zero
      BY <1>0, <2>2, <2>3, <2>4, BurstBehind
    <2>6. crc8(Received') # Zero
      BY <2>5 DEF Received, fr
    <2> QED
      BY <1>0, <2>2, <2>6 DEF WireInv, RoundTrip, DamageRefused
  <1>3. CASE \E k, l \in 1..Len(msg) + 1, a, b \in 1..8 : TwoBits(k, l, a, b)
    <2>1. PICK k \in 1..Len(msg) + 1, l \in 1..Len(msg) + 1, a \in 1..8, b \in 1..8 : TwoBits(k, l, a, b)
      BY <1>3
    <2>2. /\ pc' = "receive" /\ msg' = msg /\ damaged' = TRUE
          /\ frame' = TwoChanged(frame, HEADSIZE + k, HEADSIZE + l, a, b)
          /\ pc = "way" /\ k < l /\ 8 * (l - k) + b - a < 127
      BY <2>1 DEF TwoBits, TwoChanged
    <2>3. frame = Sent /\ Fits
      BY <2>2 DEF WireInv
    <2> DEFINE fr == frame'
    <2>4. fr = TwoChanged(frame, HEADSIZE + k, HEADSIZE + l, a, b)
      BY <2>2
    <2> HIDE DEF fr
    <2>5. crc8(SubSeq(fr, HEADSIZE + 1, HEADSIZE + convert_hex_to_int(fr))) # Zero
      BY <1>0, <2>2, <2>3, <2>4, TwoBitsBehind
    <2>6. crc8(Received') # Zero
      BY <2>5 DEF Received, fr
    <2> QED
      BY <1>0, <2>2, <2>6 DEF WireInv, RoundTrip, DamageRefused
  <1>4. CASE Unharmed
    <2>1. pc = "way" /\ pc' = "receive" /\ msg' = msg /\ frame' = frame /\ damaged' = damaged
      BY <1>4 DEF Unharmed
    <2>2. frame = Sent /\ Fits /\ ~damaged
      BY <2>1 DEF WireInv
    <2>3. PICK d \in Seq(Octet), N \in Nat :
            /\ d = crc_data(msg) /\ Len(d) = N /\ N = Len(msg) + 1 /\ crc8(d) = Zero
            /\ frame \in [1..N + 2 -> Int \cup Octet] /\ Len(frame) = N + 2 /\ Carries(frame, d, N)
      BY <1>0, <2>2, OnTheWay
    <2>4. Received = crc_data(msg)
      BY <2>3, CutFacts DEF Received
    <2>5. Received' = Received /\ crc_data(msg)' = crc_data(msg)
      BY <2>1 DEF Received
    <2> QED
      BY <1>0, <2>1, <2>2, <2>4, <2>5 DEF WireInv, RoundTrip, DamageRefused
  <1>5. CASE analysis_message
    <2>1. /\ pc = "receive" /\ pc' = "done" /\ msg' = msg /\ damaged' = damaged
          /\ got' = reverse_crc_data(Received).buf
      BY <1>5 DEF analysis_message, Received
    <2>2. CASE damaged
      <3>1. crc8(Received) # Zero
        BY <2>1, <2>2 DEF WireInv
      <3>2. got' = <<>>
        BY <2>1, <3>1 DEF reverse_crc_data, is_data_integrity
      <3> QED
        BY <1>0, <2>1, <2>2, <3>2 DEF WireInv, RoundTrip, DamageRefused
    <2>3. CASE ~damaged
      <3>1. Received = crc_data(msg)
        BY <2>1, <2>3 DEF WireInv
      <3>2. crc8(crc_data(msg)) = Zero /\ Front(crc_data(msg)) = msg
        BY <1>0, MessageFacts
      <3>3. got' = msg
        BY <2>1, <3>1, <3>2 DEF reverse_crc_data, is_data_integrity
      <3> QED
        BY <1>0, <2>1, <2>3, <3>3 DEF WireInv, RoundTrip, DamageRefused
    <2> QED
      BY <2>2, <2>3
  <1>6. CASE UNCHANGED vars
    BY <1>6 DEF vars, WireInv, RoundTrip, DamageRefused, Sent, Received, Fits
  <1> QED
    BY <1>1, <1>2, <1>3, <1>4, <1>5, <1>6 DEF Next

(* The invariant holds from the start on.                                  *)
LEMMA WireInvHolds == Spec => []WireInv
  <1>1. Init => WireInv
    BY DEF Init, WireInv, RoundTrip, DamageRefused
  <1> QED
    BY <1>1, WireInvStep, PTL DEF Spec

(* Every message that has room in the buffer of write_sock_func with its   *)
(* header and checksum is sent, and got by analysis_message as the sender  *)
(* had it unless it is damaged.                                            *)
THEOREM RoundTripHolds == Spec => []RoundTrip
  <1>1. WireInv => RoundTrip
    BY DEF WireInv
  <1> QED
    BY <1>1, WireInvHolds, PTL

(* reverse_crc_data refuses every message, of any length, in which a burst *)
(* of up to eight bits changed, or two bits less than 127 apart.           *)
THEOREM DamageRefusedHolds == Spec => []DamageRefused
  <1>1. WireInv => DamageRefused
    BY DEF WireInv
  <1> QED
    BY <1>1, WireInvHolds, PTL

(* For every message crc8, with its register, its shifts and its constant  *)
(* 0x1070 << 3, is the remainder of a division by x^8 + x^2 + x + 1.       *)
THEOREM CrcIsRemainderHolds == Spec => []CrcIsRemainder
  <1>1. WireInv => CrcIsRemainder
    <2> SUFFICES ASSUME WireInv
                 PROVE  crc8(msg) = Remainder(Bits(Append(msg, Zero)))
      BY DEF CrcIsRemainder
    <2>1. msg \in Seq(Octet)
      BY MessageFacts DEF WireInv
    <2> QED
      BY <2>1, RemainderIsCrc
  <1> QED
    BY <1>1, WireInvHolds, PTL
=============================================================================
