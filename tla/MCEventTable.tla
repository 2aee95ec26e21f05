---------------------------- MODULE MCEventTable ----------------------------
(* EventTable with two-byte events, two of which share a hash. *)
EXTENDS EventTable
CONSTANTS H

MCHash == [e \in [0 .. IdBytes - 1 -> Byte] |-> IF e[1] = Erased THEN H ELSE e[1] + 1]
MCTaught == {[b \in 0 .. 1 |-> IF b = 0 THEN p[1] ELSE p[2]] :
                p \in {<<0, 0>>, <<1, 0>>, <<1, 1>>, <<0, 255>>, <<255, 255>>}}
=============================================================================
