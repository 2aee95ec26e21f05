---------------------------- MODULE BoundedFifo ----------------------------
(***************************************************************************)
(* What CBUSCircularBuffer promises: a first-in first-out queue of at most *)
(* Capacity frames in which a put never fails.  A put into a full queue    *)
(* discards the oldest frame.                                              *)
(***************************************************************************)
EXTENDS Naturals, Sequences

CONSTANTS Frame,      \* the CAN frames
          NoFrame,    \* what get() and peek() return when they return no frame
          Capacity    \* the number of frames the queue holds

VARIABLES queue,      \* the stored frames, oldest first
          returned    \* what the last get() or peek() returned

fifoVars == <<queue, returned>>

FifoInit == queue = <<>> /\ returned = NoFrame

FifoPut(f) ==
    /\ queue' = Append(IF Len(queue) = Capacity THEN Tail(queue) ELSE queue, f)
    /\ UNCHANGED returned

FifoGet ==
    /\ queue # <<>>
    /\ returned' = Head(queue)
    /\ queue' = Tail(queue)

FifoPeek ==
    /\ queue # <<>>
    /\ returned' = Head(queue)
    /\ UNCHANGED queue

FifoNone ==
    /\ queue = <<>>
    /\ returned' = NoFrame
    /\ UNCHANGED queue

FifoClear == queue' = <<>> /\ UNCHANGED returned

FifoNext ==
    \/ \E f \in Frame : FifoPut(f)
    \/ FifoGet
    \/ FifoPeek
    \/ FifoNone
    \/ FifoClear

FifoSpec == FifoInit /\ [][FifoNext]_fifoVars
=============================================================================
