------------------------------- MODULE Header -------------------------------
(***************************************************************************)
(* The two bytes before every message, in both directions: the length of   *)
(* what follows, most significant byte first.                              *)
(***************************************************************************)
EXTENDS Integers

Byte == 0..255

(* The bytes stay zero when the value does not fit.                        *)
convert_int_to_hex(value) ==
    IF value > 65535 THEN <<0, 0>>
    ELSE IF value <= 255 THEN <<0, value>>
    ELSE <<value \div 256, value % 256>>

convert_hex_to_int(buf) == (buf[1] * 256) + buf[2]
=============================================================================
