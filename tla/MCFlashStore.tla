---------------------------- MODULE MCFlashStore ---------------------------
(* Values for TLC: bytes of two bits, identity on the first page, a byte      *)
(* nobody owns, the variables and the events on the second.                   *)
EXTENDS FlashStore

Numbers == {{}, {2}}
Ids == {{1}, {2}}
Bytes == {{}, {1}, {2}}
Mark == {1}
=============================================================================
