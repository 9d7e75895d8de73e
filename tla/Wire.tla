-------------------------------- MODULE Wire --------------------------------
(***************************************************************************)
(* One message on its way: framed by the sender (write_sock_func, and the  *)
(* clients do the same), damaged or not by the way, and tested by          *)
(* reverse_crc_data before analysis_message uses it.  The checksum and the *)
(* header are computed here as the code does, on bytes; FrameReader has    *)
(* how a stream is cut into messages.                                      *)
(***************************************************************************)
EXTENDS Header, Sequences, SequencesExt

CONSTANTS Messages,  \* sequences of bytes
          Exposed,   \* those that may be damaged
          BufSize    \* the buffer write_sock_func frames in, MAX_BUF_SIZE * 4

Bit == {0, 1}

(* A byte of the text or the checksum, and the register of crc8, by their  *)
(* bits, the highest first.  The bytes of the header are numbers.          *)
Octet == [1..8 -> Bit]
Register == [1..16 -> Bit]

(* What fits the buffer is no longer than the header can count.            *)
ASSUME WireAssumption ==
    /\ Messages \subseteq Seq(Octet)
    /\ \A m \in Messages : 1 <= Len(m)
    /\ Exposed \subseteq Messages
    /\ BufSize \in Nat /\ BufSize <= 65535

VARIABLES pc,      \* "send", "way", "receive", "done"; "dropped", "undefined"
          msg,     \* the text the sender has
          frame,   \* header, text and checksum
          damaged, \* history: bits were changed
          got      \* what reverse_crc_data copied out, <<>> when it refused

vars == <<pc, msg, frame, damaged, got>>

HEADSIZE == 2

-----------------------------------------------------------------------------
(* crc8                                                                    *)

Xor(a, b) == IF a = b THEN 0 ELSE 1

Zero == [i \in 1..8 |-> 0]

(* The register with 0x1070 << 3, whose bits are 1, 7, 8 and 9 of the 16.  *)
Subtract(crc) == [i \in 1..16 |-> IF i \in {1, 7, 8, 9} THEN 1 - crc[i] ELSE crc[i]]

(* Slip: the register is shifted before its top bit is tested.             *)
CrcBitShiftFirst(crc) ==
    LET c == Append(Tail(crc), 0) IN IF c[1] = 1 THEN Subtract(c) ELSE c

(* One round of the inner loop.  The top one of the 16 bits is gone before  *)
(* the shift, so that the register never outgrows them.                    *)
CrcBit(crc) == Append(Tail(IF crc[1] = 1 THEN Subtract(crc) ELSE crc), 0)

(* The eight rounds for a byte, which goes to the upper half first.        *)
CrcByte(crc, byte) ==
    LET c == [i \in 1..16 |-> IF i <= 8 THEN Xor(crc[i], byte[i]) ELSE crc[i]]
    IN  CrcBit(CrcBit(CrcBit(CrcBit(CrcBit(CrcBit(CrcBit(CrcBit(c))))))))

(* The register after all bytes.                                           *)
CrcOf(data) ==
    LET crc[n \in 0..Len(data)] ==
            IF n = 0 THEN [i \in 1..16 |-> 0] ELSE CrcByte(crc[n - 1], data[n])
    IN  crc[Len(data)]

(* Slip: the last byte is left out.                                        *)
CrcAllButLast(data) == SubSeq(CrcOf(Front(data)), 1, 8)

crc8(data) == SubSeq(CrcOf(data), 1, 8)

is_data_integrity(data) == crc8(data)

crc_data(data) == Append(data, crc8(data))

(* Slip: the outcome of the test is not looked at.                         *)
CopyAlways(data) == [ret |-> 0, buf |-> Front(data)]

reverse_crc_data(data) ==
    IF is_data_integrity(data) = Zero THEN [ret |-> 0, buf |-> Front(data)]
                                   ELSE [ret |-> -1, buf |-> <<>>]

-----------------------------------------------------------------------------

Init ==
    /\ pc = "send"
    /\ msg \in Messages
    /\ frame = <<>>
    /\ damaged = FALSE
    /\ got = <<>>

(* Header, text and checksum have room in the buffer.                      *)
Fits == HEADSIZE + Len(msg) + 1 <= BufSize

(* The end of write_sock_func.  Its check looks at the text alone: a text  *)
(* that is too long is dropped without a word, and one that leaves no room *)
(* for header and checksum is written past the end of the buffer.          *)
write_sock_func ==
    /\ pc = "send"
    /\ \/ /\ Len(msg) > BufSize
          /\ pc' = "dropped"
          /\ UNCHANGED frame
       \/ /\ Len(msg) <= BufSize /\ ~Fits
          /\ pc' = "undefined"
          /\ UNCHANGED frame
       \/ /\ Fits
          /\ frame' = convert_int_to_hex(Len(crc_data(msg))) \o crc_data(msg)
          /\ pc' = "way"
    /\ UNCHANGED <<msg, damaged, got>>

(* Some of eight bits in a row change, the first one being bit s of byte  *)
(* k: bits tells which.                                                    *)
Flip(k, s, bits) ==
    [i \in 1..Len(frame) |->
        IF i = HEADSIZE + k
            THEN [b \in 1..8 |-> IF b >= s THEN Xor(frame[i][b], bits[b - s + 1]) ELSE frame[i][b]]
        ELSE IF i = HEADSIZE + k + 1
            THEN [b \in 1..8 |-> IF b < s THEN Xor(frame[i][b], bits[b + 9 - s]) ELSE frame[i][b]]
        ELSE frame[i]]

(* A burst, which begins with a bit that changes.                          *)
Burst(k, s, bits) ==
    /\ pc = "way"
    /\ msg \in Exposed
    /\ bits[1] = 1
    /\ frame' = Flip(k, s, bits)
    /\ damaged' = TRUE
    /\ pc' = "receive"
    /\ UNCHANGED <<msg, got>>

(* Two single bits of different bytes, less than 127 bits apart: at that   *)
(* distance the checksum stays the same.                                   *)
TwoBits(k, l, a, b) ==
    /\ pc = "way"
    /\ msg \in Exposed
    /\ k < l
    /\ 8 * (l - k) + b - a < 127
    /\ frame' = [frame EXCEPT ![HEADSIZE + k][a] = 1 - @, ![HEADSIZE + l][b] = 1 - @]
    /\ damaged' = TRUE
    /\ pc' = "receive"
    /\ UNCHANGED <<msg, got>>

Unharmed ==
    /\ pc = "way"
    /\ pc' = "receive"
    /\ UNCHANGED <<msg, frame, damaged, got>>

(* read_normal_sock takes as many bytes as the header says, and            *)
(* analysis_message has them tested.                                       *)
analysis_message ==
    /\ pc = "receive"
    /\ got' = reverse_crc_data(SubSeq(frame, HEADSIZE + 1, HEADSIZE + convert_hex_to_int(frame))).buf
    /\ pc' = "done"
    /\ UNCHANGED <<msg, frame, damaged>>

Next ==
    \/ write_sock_func
    \/ \E k \in 1..Len(msg) + 1, s \in 1..8, bits \in Octet : Burst(k, s, bits)
    \/ \E k, l \in 1..Len(msg) + 1, a, b \in 1..8 : TwoBits(k, l, a, b)
    \/ Unharmed
    \/ analysis_message

Spec == Init /\ [][Next]_vars

-----------------------------------------------------------------------------
(* Correctness                                                             *)

(* x^8 + x^2 + x + 1 by its coefficients, the highest first.               *)
Divisor == <<1, 0, 0, 0, 0, 0, 1, 1, 1>>

(* The remainder of a polynomial over GF(2) on division by Divisor.        *)
Remainder(bits) ==
    LET left[n \in 0..Len(bits) - 8] ==
            IF n = 0 THEN bits
            ELSE LET v == left[n - 1]
                 IN  Tail([i \in 1..Len(v) |-> IF v[1] = 1 /\ i <= 9 THEN Xor(v[i], Divisor[i]) ELSE v[i]])
    IN  left[Len(bits) - 8]

Bits(data) == [i \in 1..8 * Len(data) |-> data[(i + 7) \div 8][((i - 1) % 8) + 1]]

(* crc8 is the remainder of the message times x^8, as its comment says.    *)
CrcIsRemainder == pc = "send" => crc8(msg) = Remainder(Bits(Append(msg, Zero)))

(* What is sent and not damaged is got as it was; what is not sent, or not *)
(* framed as it should be, had no room in the buffer of write_sock_func.   *)
RoundTrip ==
    /\ pc = "done" /\ ~damaged => got = msg
    /\ pc \in {"dropped", "undefined"} => ~Fits

(* A burst of up to eight bits, or two bits less than 127 apart, in text   *)
(* and checksum, is always noticed: nothing of the message is used.        *)
DamageRefused == pc = "done" /\ damaged => got = <<>>
=============================================================================
