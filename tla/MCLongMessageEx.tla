--------------------------- MODULE MCLongMessageEx -------------------------
(* Values for TLC: messages of one fragment, of one with a zero as the first  *)
(* byte, of two fragments, one larger than the buffer and one of no bytes. The*)
(* CRC of the first is 0.                                                     *)
EXTENDS LongMessageEx, TLC

Shapes == {[len |-> 2, nul |-> 0, crc |-> 0], [len |-> 3, nul |-> 0, crc |-> 1],
           [len |-> 2, nul |-> 1, crc |-> 1], [len |-> 4, nul |-> 0, crc |-> 1],
           [len |-> 0, nul |-> 0, crc |-> 0]}

\* CAN IDs and stream IDs are only compared.
Symmetric == Permutations(Nodes) \cup Permutations(Streams)
=============================================================================
