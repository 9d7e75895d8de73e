------------------------------- MODULE MCWire -------------------------------
(* The messages of the run of Wire.                                        *)
EXTENDS Wire

(* A byte by its value.                                                    *)
Of(byte) == [i \in 1..8 |-> (byte \div 2^(8 - i)) % 2]

Text(bytes) == [k \in 1..Len(bytes) |-> Of(bytes[k])]

(* The last of them just fits.                                             *)
Longer == {Text(<<0, 0>>), Text(<<255, 255>>), Text(<<1, 128, 77>>),
           Text(<<91, 34, 97, 34, 93>>)}

(* Around the size of the buffer: the first and the last that is written   *)
(* past its end, and the first that is dropped.                            *)
TooLong == {Text([k \in 1..n |-> 46]) : n \in {BufSize - HEADSIZE, BufSize, BufSize + 1}}

AllMessages == {Text(<<b>>) : b \in Byte} \cup Longer \cup TooLong

SomeMessages == {Text(<<0>>), Text(<<123>>), Text(<<255, 255>>), Text(<<1, 128, 77>>)}
=============================================================================
