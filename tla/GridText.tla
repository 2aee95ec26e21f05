----------------------------- MODULE GridText -----------------------------
(***************************************************************************)
(* GridConnect text: a CAN frame written as ":S" or ":X", the identifier   *)
(* in hexadecimal, "N" or "R", the data bytes in hexadecimal and ";".      *)
(* A hexadecimal digit (upper case only) is its value 0 .. 15; the other   *)
(* characters are the numbers below, Other standing for any the format     *)
(* does not use (a line feed, a lower case letter).                        *)
(***************************************************************************)
EXTENDS Integers, Sequences

CONSTANT GC_MAX_MSG   \* 28: the longest message, of 8 data bytes

MaxData == (GC_MAX_MSG - 12) \div 2

Start == 16     \* ':'
End   == 17     \* ';'
Std   == 18     \* 'S'
Ext   == 19     \* 'X'
Norm  == 20     \* 'N'
Rtr   == 21     \* 'R'
Other == 22

Hex  == 0 .. 15
Char == 0 .. Other

(* CANFrame *)
CANFrame == [ext : BOOLEAN, rtr : BOOLEAN, id : Nat, data : Seq(0 .. 255)]

(* uint8ToHex: the two digits of a byte *)
Digits(u8) == <<u8 \div 16, u8 % 16>>

(* hexToUint8, of the characters at i and i + 1 *)
Byte(c, i) == 16 * c[i] + c[i + 1]

(* checkHexChars: n characters from i on.  A character beyond the message  *)
(* is never a digit: every message handed to decodeGC ends in ';'.         *)
AllHex(c, i, n) == \A k \in i .. i + n - 1 : k \in DOMAIN c /\ c[k] \in Hex

(* the 29-bit identifier: bits 21-28, 18-20, 16-17, 8-15, 0-7 *)
ExtDigits(id) ==
    Digits(id \div 2^21) \o <<2 * ((id \div 2^18) % 8), (id \div 2^16) % 4>>
        \o Digits((id \div 256) % 256) \o Digits(id % 256)

ExtId(c) ==
    (Byte(c, 3) * 2^21) + ((Byte(c, 5) \div 32) * 2^18) + ((Byte(c, 5) % 4) * 2^16)
        + (Byte(c, 7) * 256) + Byte(c, 9)

(* the 11-bit identifier, in the highest bits of four digits *)
StdDigits(id) == Digits((id * 32) \div 256) \o Digits((id * 32) % 256)
StdId(c) == (Byte(c, 3) * 256 + Byte(c, 5)) \div 32

Encodable(f) ==
    /\ f \in CANFrame
    /\ Len(f.data) <= MaxData
    /\ f.id < (IF f.ext THEN 2^29 ELSE 2^11)

(* the digits of all data bytes *)
DataDigits(data) == [j \in 1 .. 2 * Len(data) |-> Digits(data[(j + 1) \div 2])[2 - (j % 2)]]

EncodeGC(f) ==
    <<Start>> \o (IF f.ext THEN <<Ext>> \o ExtDigits(f.id) ELSE <<Std>> \o StdDigits(f.id))
        \o <<IF f.rtr THEN Rtr ELSE Norm>> \o DataDigits(f.data)
        \o <<End>>

(* index of the character after the identifier *)
AfterId(c) == IF c[2] = Ext THEN 11 ELSE 7
DataChars(c) == Len(c) - AfterId(c) - 1

Decodable(c) ==
    /\ Len(c) <= GC_MAX_MSG
    /\ c[1] = Start /\ c[Len(c)] = End
    /\ c[2] \in {Std, Ext}
    /\ AllHex(c, 3, IF c[2] = Ext THEN 8 ELSE 4)
    /\ c[AfterId(c)] \in {Norm, Rtr}
    /\ DataChars(c) % 2 = 0 /\ DataChars(c) <= 2 * MaxData
    /\ AllHex(c, AfterId(c) + 1, DataChars(c))

(* decodeGC of a message it accepts *)
DecodeGC(c) ==
    [ext  |-> c[2] = Ext,
     id   |-> IF c[2] = Ext THEN ExtId(c) ELSE StdId(c),
     rtr  |-> c[AfterId(c)] = Rtr,
     data |-> [i \in 1 .. DataChars(c) \div 2 |-> Byte(c, AfterId(c) + (2 * i) - 1)]]
=============================================================================
