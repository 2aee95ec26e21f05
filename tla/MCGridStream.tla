--------------------------- MODULE MCGridStream ---------------------------
(***************************************************************************)
(* Frames for TLC: the shortest message and the longest, a remote request  *)
(* whose identifier has every field different, with messages of one data   *)
(* byte at most.                                                           *)
(***************************************************************************)
EXTENDS GridStream, SequencesExt, TLC

Frame(ext, rtr, id, data) == [ext |-> ext, rtr |-> rtr, id |-> id, data |-> data]

Shortest == Frame(FALSE, FALSE, 2^11 - 1, <<>>)
Longest  == Frame(TRUE, TRUE, (165 * 2^21) + (5 * 2^18) + (2 * 2^16) + (60 * 256) + 129, <<144>>)

Sent == {Shortest, Longest}

Symmetric == Permutations(Clients)

(* every bit of both identifiers, alone and cleared alone *)
OneBit == {Frame(TRUE, FALSE, 2^k, <<>>) : k \in 0 .. 28}
              \cup {Frame(TRUE, FALSE, 2^29 - 1 - 2^k, <<>>) : k \in 0 .. 28}
              \cup {Frame(FALSE, FALSE, id, <<>>) : id \in 0 .. 2^11 - 1}
              \cup {Frame(FALSE, FALSE, 1, <<b>>) : b \in 0 .. 255}

(* decodeGC after encodeGC returns the frame *)
ASSUME RoundTrip ==
    \A f \in OneBit \cup Sent : Decodable(EncodeGC(f)) /\ DecodeGC(EncodeGC(f)) = f

(* The loop of extractAndQueueGC as it is written, one message at a time.  *)
Upto(p, ch) == SelectInSeq(p, LAMBDA x : x = ch)
From(p, i) == SubSeq(p, i, Len(p))

RECURSIVE Parse(_, _)
Parse(p, buf) ==
    LET q    == From(p, Upto(p, Start))
        msg  == SubSeq(q, 1, Upto(q, End))
        rest == Parse(From(q, Len(msg) + 1), IF Len(msg) <= GC_MAX_MSG THEN <<>> ELSE buf)
    IN  CASE Upto(p, Start) = 0 -> [frames |-> <<>>, buf |-> buf]
          [] Upto(p, Start) # 0 /\ msg = <<>> ->
                 [frames |-> <<>>, buf |-> IF Len(q) <= GC_MAX_MSG THEN q ELSE buf]
          [] OTHER ->
                 [rest EXCEPT !.frames =
                     (IF Decodable(msg) THEN <<DecodeGC(msg)>> ELSE <<>>) \o @]

(* texts put together of starts, ends, a stray character, as many as make  *)
(* a message too long, and a message                                       *)
Pieces == {<<Start>>, <<End>>, <<Other>>, [i \in 1 .. GC_MAX_MSG - 1 |-> 0], EncodeGC(Shortest)}
Texts == {FlattenSeq(pieces) : pieces \in UNION {[1 .. n -> Pieces] : n \in 0 .. 5}}

(* Extract and Kept say of a whole text what the loop makes of it.         *)
ASSUME LoopExtracts ==
    \A p \in Texts, buf \in {<<>>, <<Start>>} :
        Parse(p, buf) = [frames |-> Extract(p), buf |-> Kept(p, buf)]
=============================================================================
