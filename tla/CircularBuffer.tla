--------------------------- MODULE CircularBuffer ---------------------------
(***************************************************************************)
(* CBUSCircularBuffer: the ring in which received CAN frames wait for the  *)
(* main loop.  Each action is one whole method call; RxPath.tla splits     *)
(* get() into its memory accesses and lets put() interrupt it.             *)
(***************************************************************************)
EXTENDS Naturals, Sequences

CONSTANTS Frame,       \* the CAN frames
          NoFrame,     \* a null pointer, and the content of a slot never written
          Capacity,    \* m_capacity, a uint8_t
          CounterMod   \* the range of the statistics counters, 2^32 in the code

ASSUME BufferAssumption ==
    /\ NoFrame \notin Frame
    /\ Capacity \in 1 .. 255
    /\ CounterMod \in Nat \ {0}

VARIABLES slots,              \* m_buffer[]._item
          m_head, m_tail,     \* next slot to write, next slot to read
          m_full,             \* tells a full ring from an empty one
          m_size,             \* the cached number of frames
          m_highWaterMark,
          m_puts, m_gets, m_overflows,
          dropped,            \* history: frames discarded by clear(), modulo CounterMod
          returned            \* history: result of the last get() or peek()

ringVars == <<slots, m_head, m_tail, m_full, m_size>>
statVars == <<m_highWaterMark, m_puts, m_gets, m_overflows>>
vars == <<ringVars, statVars, dropped, returned>>

Idx == 0 .. Capacity - 1

Succ(i) == (i + 1) % Capacity
Count(n) == (n + 1) % CounterMod

(* size() for a given head, tail and full flag *)
RingSize(head, tail, full) ==
    IF full THEN Capacity
    ELSE IF head >= tail THEN head - tail ELSE Capacity + head - tail

InitRing ==
    /\ slots = [i \in Idx |-> NoFrame]
    /\ m_head = 0 /\ m_tail = 0 /\ m_full = FALSE /\ m_size = 0
    /\ m_highWaterMark = 0
    /\ m_puts = 0 /\ m_gets = 0 /\ m_overflows = 0

Init == InitRing /\ dropped = 0 /\ returned = NoFrame

-----------------------------------------------------------------------------
(* mutant: a full ring does not give up its oldest frame *)
PutRingKeepsTail(f) ==
    /\ slots' = [slots EXCEPT ![m_head] = f]
    /\ m_overflows' = IF m_full THEN Count(m_overflows) ELSE m_overflows
    /\ m_head' = Succ(m_head)
    /\ m_full' = (m_head' = m_tail)
    /\ m_size' = RingSize(m_head', m_tail, m_full')
    /\ m_highWaterMark' = IF m_size' > m_highWaterMark THEN m_size' ELSE m_highWaterMark
    /\ m_puts' = Count(m_puts)
    /\ UNCHANGED <<m_tail, m_gets>>

(* mutant: an overwritten frame is not counted *)
PutRingNoOverflow(f) ==
    /\ slots' = [slots EXCEPT ![m_head] = f]
    /\ m_tail' = IF m_full THEN Succ(m_tail) ELSE m_tail
    /\ m_head' = Succ(m_head)
    /\ m_full' = (m_head' = m_tail')
    /\ m_size' = RingSize(m_head', m_tail', m_full')
    /\ m_highWaterMark' = IF m_size' > m_highWaterMark THEN m_size' ELSE m_highWaterMark
    /\ m_puts' = Count(m_puts)
    /\ UNCHANGED <<m_gets, m_overflows>>

(* put() with the moves of the tail left to the caller: the ring moves on by *)
(* one at the head, and at the tail too when it was full.                    *)
PutRing(f) ==
    /\ slots' = [slots EXCEPT ![m_head] = f]
    /\ m_tail' = IF m_full THEN Succ(m_tail) ELSE m_tail
    /\ m_overflows' = IF m_full THEN Count(m_overflows) ELSE m_overflows
    /\ m_head' = Succ(m_head)
    /\ m_full' = (m_head' = m_tail')
    /\ m_size' = RingSize(m_head', m_tail', m_full')
    /\ m_highWaterMark' = IF m_size' > m_highWaterMark THEN m_size' ELSE m_highWaterMark
    /\ m_puts' = Count(m_puts)
    /\ UNCHANGED m_gets

Put(f) == PutRing(f) /\ UNCHANGED <<dropped, returned>>

(* mutant: get() leaves the full flag set *)
GetKeepsFull ==
    /\ m_size > 0
    /\ returned' = slots[m_tail]
    /\ m_tail' = Succ(m_tail)
    /\ m_size' = RingSize(m_head, m_tail', m_full)
    /\ m_gets' = Count(m_gets)
    /\ UNCHANGED <<slots, m_head, m_full, m_highWaterMark, m_puts, m_overflows, dropped>>

Get ==
    /\ m_size > 0
    /\ returned' = slots[m_tail]
    /\ m_full' = FALSE
    /\ m_tail' = Succ(m_tail)
    /\ m_size' = RingSize(m_head, m_tail', m_full')
    /\ m_gets' = Count(m_gets)
    /\ UNCHANGED <<slots, m_head, m_highWaterMark, m_puts, m_overflows, dropped>>

Peek ==
    /\ m_size > 0
    /\ returned' = slots[m_tail]
    /\ UNCHANGED <<ringVars, statVars, dropped>>

(* get() or peek() when there is nothing to return *)
ReturnNull ==
    /\ m_size = 0
    /\ returned' = NoFrame
    /\ UNCHANGED <<ringVars, statVars, dropped>>

(* mutant: clear() resets the head only *)
ClearKeepsTail ==
    /\ m_head' = 0 /\ m_full' = FALSE /\ m_size' = 0
    /\ dropped' = (dropped + m_size) % CounterMod
    /\ UNCHANGED <<slots, m_tail, statVars, returned>>

(* clear() leaves the statistics and the frames themselves in place *)
Clear ==
    /\ m_head' = 0 /\ m_tail' = 0 /\ m_full' = FALSE /\ m_size' = 0
    /\ dropped' = (dropped + m_size) % CounterMod
    /\ UNCHANGED <<slots, statVars, returned>>

Next ==
    \/ \E f \in Frame : Put(f)
    \/ Get
    \/ Peek
    \/ ReturnNull
    \/ Clear

Spec == Init /\ [][Next]_vars

-----------------------------------------------------------------------------
(* The frames a reader would get, oldest first. *)
Stored == RingSize(m_head, m_tail, m_full)
Contents == [i \in 1 .. Stored |-> slots[(m_tail + i - 1) % Capacity]]

TypeOK ==
    /\ slots \in [Idx -> Frame \cup {NoFrame}]
    /\ m_head \in Idx /\ m_tail \in Idx /\ m_full \in BOOLEAN
    /\ m_size \in 0 .. Capacity /\ m_highWaterMark \in 0 .. Capacity
    /\ m_puts \in 0 .. CounterMod - 1 /\ m_gets \in 0 .. CounterMod - 1
    /\ m_overflows \in 0 .. CounterMod - 1 /\ dropped \in 0 .. CounterMod - 1
    /\ returned \in Frame \cup {NoFrame}

(* The head and the tail meet in two cases, an empty ring and a full one:   *)
(* m_full tells them apart and the cached m_size, which available(), get()  *)
(* and peek() trust, agrees with the indices in both.                       *)
RingInv ==
    /\ m_size = Stored
    /\ m_full => m_head = m_tail
    /\ m_size = 0 <=> (m_head = m_tail /\ ~m_full)

(* A slot between tail and head has been written since construction, so no  *)
(* reader is ever handed memory that put() has not filled.                  *)
StoredWritten == \A i \in 1 .. Stored : Contents[i] \in Frame

(* The statistics account for every frame, also across a wrap of the uint32 *)
(* counters: what was put was got, overwritten, cleared or is still there.  *)
Conservation ==
    m_puts = (m_gets + m_overflows + dropped + m_size) % CounterMod

(* The ring implements the drop-oldest queue. *)
Fifo == INSTANCE BoundedFifo WITH queue <- Contents
FifoSpec == Fifo!FifoSpec
=============================================================================
