------------------------ MODULE CircularBuffer_proofs ------------------------
(***************************************************************************)
(* For every capacity from 1 to 255: the ring keeps its cached size, full  *)
(* flag and indices consistent, hands out only slots that have been        *)
(* written, and behaves as the drop-oldest queue of BoundedFifo.           *)
(* Then the receive path through it, however many frames come and between  *)
(* whichever memory accesses of the main loop: get() finds a frame once    *)
(* available() has said so, and every frame is handed over once, whole and *)
(* in order, or counted lost, until an interrupt races the reader.         *)
(***************************************************************************)
EXTENDS RxPath, SequenceTheorems, TLAPS

(* Succ moves to the next slot and wraps at the end of the ring. *)
LEMMA SuccIs ==
    ASSUME NEW i \in Idx
    PROVE  /\ Succ(i) = IF i + 1 = Capacity THEN 0 ELSE i + 1
           /\ Succ(i) \in Idx
BY BufferAssumption DEF Succ, Idx

(* The slot of the d-th frame when the oldest is in slot i. *)
LEMMA WrapIs ==
    ASSUME NEW i \in Idx, NEW d \in 1 .. Capacity
    PROVE  /\ (i + d - 1) % Capacity =
                   IF i + d - 1 < Capacity THEN i + d - 1 ELSE i + d - 1 - Capacity
           /\ (i + d - 1) % Capacity \in Idx
BY BufferAssumption DEF Idx

(* Seen from the next slot, every frame is one place nearer. *)
LEMMA ShiftIs ==
    ASSUME NEW t \in Idx, NEW d \in 1 .. Capacity - 1
    PROVE  (Succ(t) + d - 1) % Capacity = (t + (d + 1) - 1) % Capacity
<1>1. d \in 1 .. Capacity /\ d + 1 \in 1 .. Capacity /\ Succ(t) \in Idx
  BY SuccIs, BufferAssumption
<1>2. (Succ(t) + d - 1) % Capacity =
          IF Succ(t) + d - 1 < Capacity THEN Succ(t) + d - 1 ELSE Succ(t) + d - 1 - Capacity
  BY <1>1, WrapIs
<1>3. (t + (d + 1) - 1) % Capacity =
          IF t + (d + 1) - 1 < Capacity THEN t + (d + 1) - 1 ELSE t + (d + 1) - 1 - Capacity
  BY <1>1, WrapIs
<1>4. Succ(t) = IF t + 1 = Capacity THEN 0 ELSE t + 1
  BY SuccIs
<1> QED
  BY <1>1, <1>2, <1>3, <1>4, BufferAssumption DEF Idx

(* Moving the head of a ring with room, and what lies behind it. *)
LEMMA HeadIs ==
    ASSUME NEW h \in Idx, NEW t \in Idx
    PROVE  LET n == RingSize(h, t, FALSE)
           IN  /\ n \in 0 .. Capacity - 1
               /\ RingSize(Succ(h), t, Succ(h) = t) = n + 1
               /\ (t + (n + 1) - 1) % Capacity = h
               /\ \A d \in 1 .. n : (t + d - 1) % Capacity # h
<1> DEFINE n == RingSize(h, t, FALSE)
<1>1. n = IF h >= t THEN h - t ELSE Capacity + h - t
  BY DEF RingSize
<1>2. n \in 0 .. Capacity - 1
  BY BufferAssumption DEF RingSize, Idx
<1>3. RingSize(Succ(h), t, Succ(h) = t) = n + 1
  <2>1. Succ(h) = IF h + 1 = Capacity THEN 0 ELSE h + 1
    BY SuccIs
  <2> QED
    BY <1>1, <2>1, BufferAssumption DEF RingSize, Idx
<1> HIDE DEF n
<1>4. (t + (n + 1) - 1) % Capacity = h
  <2>1. n + 1 \in 1 .. Capacity
    BY <1>2, BufferAssumption
  <2>2. (t + (n + 1) - 1) % Capacity =
            IF t + (n + 1) - 1 < Capacity THEN t + (n + 1) - 1 ELSE t + (n + 1) - 1 - Capacity
    BY <2>1, WrapIs
  <2> QED
    BY <1>1, <1>2, <2>2, BufferAssumption DEF Idx
<1>5. ASSUME NEW d \in 1 .. n PROVE (t + d - 1) % Capacity # h
  <2>1. d \in 1 .. Capacity
    BY <1>2, BufferAssumption
  <2>2. (t + d - 1) % Capacity =
            IF t + d - 1 < Capacity THEN t + d - 1 ELSE t + d - 1 - Capacity
    BY <2>1, WrapIs
  <2> QED
    BY <1>1, <1>2, <2>2, BufferAssumption DEF Idx
<1> QED
  BY <1>2, <1>3, <1>4, <1>5 DEF n

(* Moving the tail of a ring that holds a frame. *)
LEMMA TailIs ==
    ASSUME NEW h \in Idx, NEW t \in Idx, NEW full \in BOOLEAN,
           full => h = t, RingSize(h, t, full) > 0
    PROVE  RingSize(h, Succ(t), FALSE) = RingSize(h, t, full) - 1
<1>1. Succ(t) = IF t + 1 = Capacity THEN 0 ELSE t + 1
  BY SuccIs
<1> QED
  BY <1>1, BufferAssumption DEF RingSize, Idx

(* A counter stays within its width. *)
LEMMA CountIn ==
    ASSUME NEW n \in Nat
    PROVE  Count(n) \in 0 .. CounterMod - 1
BY BufferAssumption DEF Count

(* What the recomputed size says of the indices. *)
LEMMA RingSizeIs ==
    ASSUME NEW h \in Idx, NEW t \in Idx, NEW full \in BOOLEAN
    PROVE  /\ RingSize(h, t, full) \in 0 .. Capacity
           /\ RingSize(h, t, full) = 0 <=> (h = t /\ ~full)
BY BufferAssumption DEF RingSize, Idx

-----------------------------------------------------------------------------
(* Every variable stays in its range: the indices inside the ring, the      *)
(* sizes in a uint8_t, the counters in their width.                         *)
THEOREM TypeCorrect == Spec => []TypeOK
<1>1. Init => TypeOK
  <2>1. /\ 0 \in Idx /\ 0 \in 0 .. Capacity /\ 0 \in 0 .. CounterMod - 1
    BY BufferAssumption DEF Idx
  <2>2. [i \in Idx |-> NoFrame] \in [Idx -> Frame \cup {NoFrame}]
    OBVIOUS
  <2> QED
    BY <2>1, <2>2 DEF Init, InitRing, TypeOK
<1>2. TypeOK /\ [Next]_vars => TypeOK'
  <2> SUFFICES ASSUME TypeOK, [Next]_vars PROVE TypeOK'
    OBVIOUS
  <2> USE DEF TypeOK
  <2>t. Succ(m_tail) \in Idx
    BY SuccIs
  <2>1. ASSUME NEW f \in Frame, Put(f) PROVE TypeOK'
    <3> USE <2>1 DEF Put, PutRing
    <3>1. m_head' \in Idx /\ m_tail' \in Idx /\ m_full' \in BOOLEAN
      BY <2>t, SuccIs
    <3>2. m_size' \in 0 .. Capacity
      BY <3>1, RingSizeIs
    <3>3. m_puts' \in 0 .. CounterMod - 1 /\ m_overflows' \in 0 .. CounterMod - 1
      BY CountIn, BufferAssumption
    <3>4. m_highWaterMark' \in 0 .. Capacity
      BY <3>2
    <3>5. slots' \in [Idx -> Frame \cup {NoFrame}]
      OBVIOUS
    <3> QED
      BY <3>1, <3>2, <3>3, <3>4, <3>5
  <2>2. CASE Get
    <3> USE <2>2 DEF Get
    <3>1. m_size' \in 0 .. Capacity
      BY <2>t, RingSizeIs
    <3>2. m_gets' \in 0 .. CounterMod - 1
      BY CountIn, BufferAssumption
    <3> QED
      BY <2>t, <3>1, <3>2
  <2>3. CASE Clear
    <3>1. dropped' \in 0 .. CounterMod - 1
      BY <2>3, BufferAssumption DEF Clear
    <3>2. 0 \in Idx /\ 0 \in 0 .. Capacity
      BY BufferAssumption DEF Idx
    <3>3. UNCHANGED <<slots, m_highWaterMark, m_puts, m_gets, m_overflows, returned>>
      BY <2>3 DEF Clear, statVars
    <3> QED
      BY <2>3, <3>1, <3>2, <3>3 DEF Clear
  <2>4. CASE Peek
    BY <2>4 DEF Peek, ringVars, statVars
  <2>5. CASE ReturnNull
    BY <2>5 DEF ReturnNull, ringVars, statVars
  <2>6. CASE UNCHANGED vars
    BY <2>6 DEF vars, ringVars, statVars
  <2> QED
    BY <2>1, <2>2, <2>3, <2>4, <2>5, <2>6 DEF Next
<1> QED
  BY <1>1, <1>2, PTL DEF Spec

-----------------------------------------------------------------------------
(* RingInv is inductive beside the ranges: put() and get() both recompute   *)
(* the size from the indices they have just moved.                          *)
LEMMA RingStep ==
    ASSUME TypeOK, RingInv, [Next]_vars
    PROVE  RingInv'
<1> USE DEF TypeOK, RingInv, Stored
<1>t. Succ(m_tail) \in Idx /\ Succ(m_head) \in Idx
  BY SuccIs
<1>1. ASSUME NEW f \in Frame, Put(f) PROVE RingInv'
  <2>1. m_head' \in Idx /\ m_tail' \in Idx /\ m_full' \in BOOLEAN
    BY <1>1, <1>t DEF Put, PutRing
  <2>2. m_size' = RingSize(m_head', m_tail', m_full') /\ (m_full' => m_head' = m_tail')
    BY <1>1 DEF Put, PutRing
  <2> QED
    BY <2>1, <2>2, RingSizeIs
<1>2. CASE Get
  <2>1. m_head' \in Idx /\ m_tail' \in Idx /\ m_full' = FALSE
    BY <1>2, <1>t DEF Get
  <2>2. m_size' = RingSize(m_head', m_tail', m_full')
    BY <1>2 DEF Get
  <2> QED
    BY <2>1, <2>2, RingSizeIs
<1>3. CASE Clear
  BY <1>3, BufferAssumption DEF Clear, RingSize
<1>4. CASE Peek \/ ReturnNull \/ UNCHANGED vars
  BY <1>4 DEF Peek, ReturnNull, vars, ringVars
<1> QED
  BY <1>1, <1>2, <1>3, <1>4 DEF Next

(* The cached size that available() and get() trust is the number of frames *)
(* between tail and head, and it is zero only for an empty ring.            *)
THEOREM RingCorrect == Spec => []RingInv
<1>1. Init => RingInv
  BY DEF Init, InitRing, RingInv, Stored, RingSize
<1>2. TypeOK /\ RingInv /\ [Next]_vars => RingInv'
  BY RingStep
<1> QED
  BY <1>1, <1>2, TypeCorrect, PTL DEF Spec

-----------------------------------------------------------------------------
(* A put into a ring with room appends the frame. *)
LEMMA PutRoom ==
    ASSUME TypeOK, RingInv, NEW f \in Frame, PutRing(f), ~m_full
    PROVE  /\ Stored \in 0 .. Capacity - 1
           /\ Stored' = Stored + 1
           /\ \A i \in 1 .. Stored : Contents'[i] = Contents[i]
           /\ Contents'[Stored + 1] = f
<1>1. m_head \in Idx /\ m_tail \in Idx /\ m_full = FALSE /\ slots \in [Idx -> Frame \cup {NoFrame}]
  BY DEF TypeOK
<1>2. /\ m_tail' = m_tail /\ m_head' = Succ(m_head) /\ m_full' = (Succ(m_head) = m_tail)
      /\ slots' = [slots EXCEPT ![m_head] = f]
  BY DEF PutRing
<1>3. /\ Stored = RingSize(m_head, m_tail, FALSE)
      /\ Stored' = RingSize(Succ(m_head), m_tail, Succ(m_head) = m_tail)
  BY <1>1, <1>2 DEF Stored
<1>4. /\ Stored \in 0 .. Capacity - 1 /\ Stored' = Stored + 1
      /\ (m_tail + (Stored + 1) - 1) % Capacity = m_head
      /\ \A d \in 1 .. Stored : (m_tail + d - 1) % Capacity # m_head
  BY <1>1, <1>3, HeadIs
<1>5. ASSUME NEW i \in 1 .. Stored PROVE Contents'[i] = Contents[i]
  <2>1. i \in 1 .. Capacity /\ i \in 1 .. Stored'
    BY <1>4, BufferAssumption
  <2>2. (m_tail + i - 1) % Capacity \in Idx /\ (m_tail + i - 1) % Capacity # m_head
    BY <1>1, <1>4, <2>1, WrapIs
  <2>3. slots'[(m_tail + i - 1) % Capacity] = slots[(m_tail + i - 1) % Capacity]
    BY <1>1, <1>2, <2>2
  <2> QED
    BY <1>2, <2>1, <2>3 DEF Contents
<1>6. Contents'[Stored + 1] = f
  <2>1. Stored + 1 \in 1 .. Stored'
    BY <1>4, BufferAssumption
  <2>2. slots'[m_head] = f
    BY <1>1, <1>2
  <2> QED
    BY <1>2, <1>4, <2>1, <2>2 DEF Contents
<1> QED
  BY <1>4, <1>5, <1>6

(* A put into a full ring drops the oldest frame and appends. *)
LEMMA PutFull ==
    ASSUME TypeOK, RingInv, NEW f \in Frame, PutRing(f), m_full
    PROVE  /\ Stored = Capacity /\ Stored' = Capacity
           /\ \A i \in 1 .. Capacity - 1 : Contents'[i] = Contents[i + 1]
           /\ Contents'[Capacity] = f
<1>1. m_head = m_tail /\ m_tail \in Idx /\ slots \in [Idx -> Frame \cup {NoFrame}]
  BY DEF TypeOK, RingInv
<1>2. /\ m_tail' = Succ(m_tail) /\ m_head' = Succ(m_tail) /\ m_full' = TRUE
      /\ slots' = [slots EXCEPT ![m_tail] = f]
  BY <1>1 DEF PutRing
<1>3. Stored = Capacity /\ Stored' = Capacity
  BY <1>2 DEF Stored, RingSize
<1>4. Succ(m_tail) \in Idx
  BY <1>1, SuccIs
<1>5. ASSUME NEW d \in 1 .. Capacity
      PROVE  (Succ(m_tail) + d - 1) % Capacity =
                 IF Succ(m_tail) + d - 1 < Capacity THEN Succ(m_tail) + d - 1
                 ELSE Succ(m_tail) + d - 1 - Capacity
  BY <1>4, WrapIs
<1>6. Succ(m_tail) = IF m_tail + 1 = Capacity THEN 0 ELSE m_tail + 1
  BY <1>1, SuccIs
<1>7. Capacity \in 1 .. Capacity /\ (Succ(m_tail) + Capacity - 1) % Capacity = m_tail
  <2>1. Capacity \in 1 .. Capacity
    BY BufferAssumption
  <2> QED
    BY <1>1, <1>4, <1>5, <1>6, <2>1, BufferAssumption DEF Idx
<1>8. ASSUME NEW i \in 1 .. Capacity - 1 PROVE Contents'[i] = Contents[i + 1]
  <2>1. i \in 1 .. Capacity /\ i + 1 \in 1 .. Capacity
    BY BufferAssumption
  <2>2. (Succ(m_tail) + i - 1) % Capacity = (m_tail + (i + 1) - 1) % Capacity
    BY <1>1, ShiftIs
  <2>3. (Succ(m_tail) + i - 1) % Capacity # m_tail
    <3>1. (Succ(m_tail) + i - 1) % Capacity =
              IF Succ(m_tail) + i - 1 < Capacity THEN Succ(m_tail) + i - 1
              ELSE Succ(m_tail) + i - 1 - Capacity
      BY <1>5, <2>1
    <3> QED
      BY <1>1, <1>6, <3>1, BufferAssumption DEF Idx
  <2>4. (Succ(m_tail) + i - 1) % Capacity \in Idx
    BY <1>4, <2>1, WrapIs
  <2>5. slots'[(Succ(m_tail) + i - 1) % Capacity] = slots[(Succ(m_tail) + i - 1) % Capacity]
    BY <1>1, <1>2, <2>3, <2>4
  <2> QED
    BY <1>2, <1>3, <2>1, <2>2, <2>5 DEF Contents
<1>9. Contents'[Capacity] = f
  <2>1. slots'[m_tail] = f
    BY <1>1, <1>2
  <2> QED
    BY <1>2, <1>3, <1>7, <2>1 DEF Contents
<1> QED
  BY <1>3, <1>8, <1>9

(* get() takes the oldest frame away. *)
LEMMA GetContents ==
    ASSUME TypeOK, RingInv, Get
    PROVE  /\ Stored \in 1 .. Capacity /\ Stored' = Stored - 1
           /\ returned' = Contents[1]
           /\ \A i \in 1 .. Stored - 1 : Contents'[i] = Contents[i + 1]
<1>1. /\ m_head \in Idx /\ m_tail \in Idx /\ m_full \in BOOLEAN
      /\ m_full => m_head = m_tail
      /\ m_size = Stored /\ m_size > 0
  BY DEF TypeOK, RingInv, Get
<1>2. /\ m_tail' = Succ(m_tail) /\ m_head' = m_head /\ m_full' = FALSE /\ slots' = slots
      /\ returned' = slots[m_tail]
  BY DEF Get
<1>3. Stored \in 1 .. Capacity
  BY <1>1, RingSizeIs, BufferAssumption DEF Stored
<1>4. Stored' = Stored - 1
  BY <1>1, <1>2, TailIs DEF Stored
<1>5. returned' = Contents[1]
  <2>1. (m_tail + 1 - 1) % Capacity = m_tail
    BY <1>1, WrapIs, BufferAssumption DEF Idx
  <2>2. 1 \in 1 .. Stored
    BY <1>3, BufferAssumption
  <2> QED
    BY <1>2, <2>1, <2>2 DEF Contents
<1>6. ASSUME NEW i \in 1 .. Stored - 1 PROVE Contents'[i] = Contents[i + 1]
  <2>1. i \in 1 .. Capacity - 1 /\ i \in 1 .. Stored' /\ i + 1 \in 1 .. Stored
    BY <1>3, <1>4, BufferAssumption
  <2>2. (Succ(m_tail) + i - 1) % Capacity = (m_tail + (i + 1) - 1) % Capacity
    BY <1>1, <2>1, ShiftIs
  <2> QED
    BY <1>2, <2>1, <2>2 DEF Contents
<1> QED
  BY <1>3, <1>4, <1>5, <1>6

-----------------------------------------------------------------------------
(* StoredWritten is inductive beside TypeOK and RingInv. *)
LEMMA WrittenStep ==
    ASSUME TypeOK, RingInv, StoredWritten, [Next]_vars
    PROVE  StoredWritten'
<1>1. ASSUME NEW f \in Frame, Put(f) PROVE StoredWritten'
  <2>1. PutRing(f) /\ m_full \in BOOLEAN
    BY <1>1 DEF Put, TypeOK
  <2>2. CASE ~m_full
    <3>1. /\ Stored \in 0 .. Capacity - 1 /\ Stored' = Stored + 1
          /\ \A i \in 1 .. Stored : Contents'[i] = Contents[i]
          /\ Contents'[Stored + 1] = f
      BY <2>1, <2>2, PutRoom
    <3>2. ASSUME NEW i \in 1 .. Stored' PROVE Contents'[i] \in Frame
      <4>1. i \in 1 .. Stored \/ i = Stored + 1
        BY <3>1, BufferAssumption
      <4> QED
        BY <3>1, <4>1 DEF StoredWritten
    <3> QED
      BY <3>2 DEF StoredWritten
  <2>3. CASE m_full
    <3>1. /\ Stored = Capacity /\ Stored' = Capacity
          /\ \A i \in 1 .. Capacity - 1 : Contents'[i] = Contents[i + 1]
          /\ Contents'[Capacity] = f
      BY <2>1, <2>3, PutFull
    <3>2. ASSUME NEW i \in 1 .. Stored' PROVE Contents'[i] \in Frame
      <4>1. i = Capacity \/ (i \in 1 .. Capacity - 1 /\ i + 1 \in 1 .. Stored)
        BY <3>1, BufferAssumption
      <4> QED
        BY <3>1, <4>1 DEF StoredWritten
    <3> QED
      BY <3>2 DEF StoredWritten
  <2> QED
    BY <2>1, <2>2, <2>3
<1>2. CASE Get
  <2>1. /\ Stored \in 1 .. Capacity /\ Stored' = Stored - 1
        /\ \A i \in 1 .. Stored - 1 : Contents'[i] = Contents[i + 1]
    BY <1>2, GetContents
  <2>2. ASSUME NEW i \in 1 .. Stored' PROVE Contents'[i] \in Frame
    <3>1. i \in 1 .. Stored - 1 /\ i + 1 \in 1 .. Stored
      BY <2>1, BufferAssumption
    <3> QED
      BY <2>1, <3>1 DEF StoredWritten
  <2> QED
    BY <2>2 DEF StoredWritten
<1>3. CASE Clear
  <2>1. Stored' = 0
    BY <1>3 DEF Clear, Stored, RingSize
  <2> QED
    BY <2>1 DEF StoredWritten
<1>4. CASE Peek \/ ReturnNull \/ UNCHANGED vars
  BY <1>4 DEF Peek, ReturnNull, vars, ringVars, StoredWritten, Contents, Stored
<1> QED
  BY <1>1, <1>2, <1>3, <1>4 DEF Next

(* No reader is ever handed a slot that no put() has filled. *)
THEOREM OnlyWritten == Spec => []StoredWritten
<1>1. Init => StoredWritten
  BY DEF Init, InitRing, StoredWritten, Stored, RingSize
<1>2. TypeOK /\ RingInv /\ StoredWritten /\ [Next]_vars => StoredWritten'
  BY WrittenStep
<1> QED
  BY <1>1, <1>2, TypeCorrect, RingCorrect, PTL DEF Spec

-----------------------------------------------------------------------------
(* The contents of the ring as a sequence. *)
LEMMA ContentsSeq ==
    ASSUME TypeOK, RingInv, StoredWritten
    PROVE  /\ Contents \in Seq(Frame) /\ Len(Contents) = Stored
           /\ Stored \in 0 .. Capacity /\ m_size = Stored
<1>1. Stored \in 0 .. Capacity /\ Stored \in Nat /\ m_size = Stored
  BY BufferAssumption DEF TypeOK, RingInv
<1>2. Contents \in [1 .. Stored -> Frame]
  BY DEF Contents, StoredWritten
<1>3. Contents \in Seq(Frame)
  BY <1>1, <1>2, SeqDef
<1>4. Len(Contents) = Stored
  BY <1>1, <1>2, <1>3, LenProperties
<1> QED
  BY <1>1, <1>3, <1>4

RefInv == TypeOK /\ RingInv /\ StoredWritten

(* Every call of a method is one step of the queue. *)
LEMMA FifoStep ==
    ASSUME RefInv, RefInv', [Next]_vars
    PROVE  [Fifo!FifoNext]_(Fifo!fifoVars)
<1>1. /\ Contents \in Seq(Frame) /\ Len(Contents) = Stored
      /\ Stored \in 0 .. Capacity /\ m_size = Stored
  BY ContentsSeq DEF RefInv
<1>2. Contents' \in Seq(Frame) /\ Len(Contents') = Stored'
  <2>1. Stored' \in Nat
    BY BufferAssumption DEF RefInv, TypeOK, RingInv
  <2>2. Contents' \in [1 .. Stored' -> Frame]
    BY DEF Contents, RefInv, StoredWritten
  <2>3. Contents' \in Seq(Frame)
    BY <2>1, <2>2, SeqDef
  <2> QED
    BY <2>1, <2>2, <2>3, LenProperties
<1>3. Contents = <<>> <=> Stored = 0
  BY <1>1, EmptySeq
<1>4. ASSUME NEW f \in Frame, Put(f) PROVE Fifo!FifoPut(f)
  <2>1. PutRing(f) /\ returned' = returned /\ m_full \in BOOLEAN
    BY <1>4 DEF Put, RefInv, TypeOK
  <2>2. CASE ~m_full
    <3>1. /\ Stored \in 0 .. Capacity - 1 /\ Stored' = Stored + 1
          /\ \A i \in 1 .. Stored : Contents'[i] = Contents[i]
          /\ Contents'[Stored + 1] = f
      BY <2>1, <2>2, PutRoom DEF RefInv
    <3>2. Contents' = Append(Contents, f)
      <4>1. /\ Append(Contents, f) \in Seq(Frame)
            /\ Len(Append(Contents, f)) = Stored + 1
            /\ \A i \in 1 .. Stored : Append(Contents, f)[i] = Contents[i]
            /\ Append(Contents, f)[Stored + 1] = f
        BY <1>1, AppendProperties
      <4>2. ASSUME NEW i \in 1 .. Stored + 1 PROVE Contents'[i] = Append(Contents, f)[i]
        <5>1. i \in 1 .. Stored \/ i = Stored + 1
          BY <3>1, BufferAssumption
        <5> QED
          BY <3>1, <4>1, <5>1
      <4> QED
        BY <1>2, <3>1, <4>1, <4>2, SeqEqual
    <3>3. Len(Contents) # Capacity
      BY <1>1, <3>1, BufferAssumption
    <3> QED
      BY <2>1, <3>2, <3>3 DEF Fifo!FifoPut
  <2>3. CASE m_full
    <3>1. /\ Stored = Capacity /\ Stored' = Capacity
          /\ \A i \in 1 .. Capacity - 1 : Contents'[i] = Contents[i + 1]
          /\ Contents'[Capacity] = f
      BY <2>1, <2>3, PutFull DEF RefInv
    <3>2. /\ Tail(Contents) \in Seq(Frame) /\ Len(Tail(Contents)) = Capacity - 1
          /\ \A i \in 1 .. Capacity - 1 : Tail(Contents)[i] = Contents[i + 1]
      <4>1. Contents # <<>>
        BY <1>3, <3>1, BufferAssumption
      <4> QED
        BY <1>1, <3>1, <4>1, HeadTailProperties
    <3>3. Contents' = Append(Tail(Contents), f)
      <4>1. /\ Append(Tail(Contents), f) \in Seq(Frame)
            /\ Len(Append(Tail(Contents), f)) = Capacity
            /\ \A i \in 1 .. Capacity - 1 : Append(Tail(Contents), f)[i] = Contents[i + 1]
            /\ Append(Tail(Contents), f)[Capacity] = f
        BY <3>2, AppendProperties, BufferAssumption
      <4>2. ASSUME NEW i \in 1 .. Capacity PROVE Contents'[i] = Append(Tail(Contents), f)[i]
        <5>1. i \in 1 .. Capacity - 1 \/ i = Capacity
          BY BufferAssumption
        <5> QED
          BY <3>1, <4>1, <5>1
      <4> QED
        BY <1>2, <3>1, <4>1, <4>2, SeqEqual
    <3> QED
      BY <1>1, <2>1, <3>1, <3>3 DEF Fifo!FifoPut
  <2> QED
    BY <2>1, <2>2, <2>3
<1>5. ASSUME Get PROVE Fifo!FifoGet
  <2>1. /\ Stored \in 1 .. Capacity /\ Stored' = Stored - 1
        /\ returned' = Contents[1]
        /\ \A i \in 1 .. Stored - 1 : Contents'[i] = Contents[i + 1]
    BY <1>5, GetContents DEF RefInv
  <2>2. Contents # <<>>
    BY <1>3, <2>1, BufferAssumption
  <2>3. /\ Tail(Contents) \in Seq(Frame) /\ Len(Tail(Contents)) = Stored - 1
        /\ \A i \in 1 .. Stored - 1 : Tail(Contents)[i] = Contents[i + 1]
    BY <1>1, <2>2, HeadTailProperties
  <2>4. Contents' = Tail(Contents)
    BY <1>2, <2>1, <2>3, SeqEqual
  <2>5. returned' = Head(Contents)
    BY <2>1
  <2> QED
    BY <2>2, <2>4, <2>5 DEF Fifo!FifoGet
<1>6. ASSUME Peek PROVE Fifo!FifoPeek
  <2>1. Contents' = Contents
    BY <1>6 DEF Peek, ringVars, Contents, Stored
  <2>2. Stored \in 1 .. Capacity /\ returned' = slots[m_tail] /\ m_tail \in Idx
    BY <1>1, <1>6, BufferAssumption DEF Peek, RefInv, TypeOK
  <2>3. (m_tail + 1 - 1) % Capacity = m_tail
    BY <2>2, WrapIs, BufferAssumption DEF Idx
  <2>4. returned' = Head(Contents)
    <3>1. 1 \in 1 .. Stored
      BY <2>2, BufferAssumption
    <3> QED
      BY <2>2, <2>3, <3>1 DEF Contents
  <2>5. Contents # <<>>
    BY <1>3, <2>2, BufferAssumption
  <2> QED
    BY <2>1, <2>4, <2>5 DEF Fifo!FifoPeek
<1>7. ASSUME ReturnNull PROVE Fifo!FifoNone
  <2>1. Contents' = Contents
    BY <1>7 DEF ReturnNull, ringVars, Contents, Stored
  <2> QED
    BY <1>1, <1>3, <1>7, <2>1 DEF ReturnNull, Fifo!FifoNone
<1>8. ASSUME Clear PROVE Fifo!FifoClear
  <2>1. Stored' = 0
    BY <1>8 DEF Clear, Stored, RingSize
  <2>2. Contents' = <<>>
    BY <1>2, <2>1, EmptySeq
  <2> QED
    BY <1>8, <2>2 DEF Clear, Fifo!FifoClear
<1>9. ASSUME UNCHANGED vars PROVE UNCHANGED Fifo!fifoVars
  BY <1>9 DEF vars, ringVars, Contents, Stored, Fifo!fifoVars
<1> QED
  BY <1>4, <1>5, <1>6, <1>7, <1>8, <1>9 DEF Next, Fifo!FifoNext

(* The ring of CBUSCircularBuffer is a first-in first-out queue that drops  *)
(* the oldest frame when a put finds it full.                               *)
THEOREM RingIsFifo == Spec => FifoSpec
<1>1. Init => Fifo!FifoInit
  <2> SUFFICES ASSUME Init PROVE Fifo!FifoInit
    OBVIOUS
  <2>1. Stored = 0
    BY DEF Init, InitRing, Stored, RingSize
  <2>2. Contents = <<>>
    BY <2>1 DEF Contents
  <2> QED
    BY <2>2 DEF Init, Fifo!FifoInit
<1>2. RefInv /\ RefInv' /\ [Next]_vars => [Fifo!FifoNext]_(Fifo!fifoVars)
  BY FifoStep
<1>3. Spec => []RefInv
  BY TypeCorrect, RingCorrect, OnlyWritten, PTL DEF RefInv
<1> QED
  BY <1>1, <1>2, <1>3, PTL DEF Spec, FifoSpec, Fifo!FifoSpec

-----------------------------------------------------------------------------
(* The counters: sums of what wraps are right modulo the width.              *)

LEMMA Division ==
    ASSUME NEW m \in Nat \ {0}, NEW a \in Nat
    PROVE  /\ a \div m \in Nat /\ a % m \in 0 .. m - 1
           /\ a = m * (a \div m) + (a % m)
OBVIOUS

LEMMA Distance ==
    ASSUME NEW m \in Nat \ {0}, NEW q \in Int, NEW p \in Int, q > p
    PROVE  m * q >= m * p + m
<1>1. q - p \in Nat /\ q - p >= 1
  OBVIOUS
<1>2. m * (q - p) >= m
  BY <1>1
<1>3. m * (q - p) = m * q - m * p
  OBVIOUS
<1> QED
  BY <1>2, <1>3

LEMMA RestIs ==
    ASSUME NEW m \in Nat \ {0}, NEW a \in Nat, NEW q \in Int, NEW r \in 0 .. m - 1,
           a = m * q + r
    PROVE  a % m = r
<1> DEFINE p == a \div m
           s == a % m
<1>1. p \in Nat /\ s \in 0 .. m - 1 /\ m * q + r = m * p + s
  BY Division
<1> HIDE DEF p, s
<1>2. m * q \in Int /\ m * p \in Int
  BY <1>1
<1>3. ~(q > p)
  BY <1>1, <1>2, Distance
<1>4. ~(p > q)
  BY <1>1, <1>2, Distance
<1>5. s = r
  BY <1>1, <1>2, <1>3, <1>4
<1> QED
  BY <1>5 DEF s

LEMMA AddIs ==
    ASSUME NEW m \in Nat \ {0}, NEW c \in Nat, NEW x \in Nat
    PROVE  (c + (x % m)) % m = (c + x) % m
<1> DEFINE b == c + (x % m)
           p == x \div m
           q == b \div m
           r == b % m
<1>1. p \in Nat /\ x % m \in 0 .. m - 1 /\ x = m * p + (x % m)
  BY Division
<1>2. b \in Nat
  BY <1>1
<1>3. q \in Nat /\ r \in 0 .. m - 1 /\ b = m * q + r
  BY <1>2, Division
<1>4. c + x = m * p + b
  BY <1>1
<1> HIDE DEF b, p, q, r
<1>5. m * p \in Int /\ m * q \in Int /\ m * (p + q) = m * p + m * q
  BY <1>1, <1>3
<1>6. c + x = m * (p + q) + r /\ p + q \in Int /\ c + x \in Nat
  BY <1>1, <1>2, <1>3, <1>4, <1>5
<1>7. (c + x) % m = r
  BY <1>3, <1>6, RestIs
<1> QED
  BY <1>7 DEF b, r

LEMMA ConservationStep ==
    ASSUME TypeOK, RingInv, Conservation, [Next]_vars
    PROVE  Conservation'
<1> DEFINE sum == m_gets + m_overflows + dropped + m_size
<1>1. /\ m_puts \in Nat /\ m_gets \in Nat /\ m_overflows \in Nat /\ dropped \in Nat
      /\ m_size \in Nat /\ CounterMod \in Nat \ {0} /\ m_size = Stored
      /\ m_puts = sum % CounterMod
  BY BufferAssumption DEF TypeOK, RingInv, Conservation
<1>2. RingInv'
  BY RingStep
<1>3. \A c, x \in Nat : (c + (x % CounterMod)) % CounterMod = (c + x) % CounterMod
  BY <1>1, AddIs
<1>4. ASSUME NEW f \in Frame, Put(f) PROVE Conservation'
  <2>1. /\ PutRing(f) /\ m_puts' = Count(m_puts) /\ m_gets' = m_gets /\ dropped' = dropped
        /\ m_overflows' = IF m_full THEN Count(m_overflows) ELSE m_overflows
    BY <1>4 DEF Put, PutRing
  <2>2. m_puts' = (1 + sum) % CounterMod
    <3>1. sum \in Nat /\ m_puts' = (1 + m_puts) % CounterMod
      BY <1>1, <2>1 DEF Count
    <3> QED
      BY <3>1, <1>1, <1>3
  <2>3. CASE ~m_full
    <3>1. m_size' = m_size + 1
      BY <2>1, <2>3, <1>1, <1>2, PutRoom DEF RingInv
    <3>2. m_gets' + m_overflows' + dropped' + m_size' = 1 + sum
      BY <3>1, <2>1, <2>3, <1>1
    <3> QED
      BY <2>2, <3>2 DEF Conservation
  <2>4. CASE m_full
    <3>1. m_size' = m_size
      BY <2>1, <2>4, <1>1, <1>2, PutFull DEF RingInv
    <3> DEFINE c == m_gets + dropped + m_size
               x == 1 + m_overflows
    <3>2. c \in Nat /\ x \in Nat /\ c + x = 1 + sum /\ x % CounterMod \in Nat
      BY <1>1, Division
    <3>3. m_gets' + m_overflows' + dropped' + m_size' = c + (x % CounterMod)
      <4>1. m_overflows' = x % CounterMod
        BY <2>1, <2>4, <1>1 DEF Count
      <4> QED
        BY <4>1, <3>1, <3>2, <2>1, <1>1
    <3> HIDE DEF c, x
    <3> QED
      BY <2>2, <3>2, <3>3, <1>3 DEF Conservation
  <2> QED
    BY <2>3, <2>4
<1>5. CASE Get
  <2>1. /\ m_puts' = m_puts /\ m_overflows' = m_overflows /\ dropped' = dropped
        /\ m_gets' = Count(m_gets) /\ m_size > 0
    BY <1>5 DEF Get
  <2>2. m_size' = m_size - 1
    BY <1>5, <1>1, <1>2, GetContents DEF RingInv
  <2> DEFINE c == m_overflows + dropped + m_size - 1
             x == 1 + m_gets
  <2>3. c \in Nat /\ x \in Nat /\ c + x = sum /\ x % CounterMod \in Nat
    BY <1>1, <2>1, Division
  <2>4. m_gets' + m_overflows' + dropped' + m_size' = c + (x % CounterMod)
    <3>1. m_gets' = x % CounterMod
      BY <2>1, <1>1 DEF Count
    <3> QED
      BY <3>1, <2>1, <2>2, <2>3, <1>1
  <2> HIDE DEF c, x
  <2>5. m_puts' = (c + x) % CounterMod
    BY <1>1, <2>1, <2>3
  <2>6. (c + (x % CounterMod)) % CounterMod = (c + x) % CounterMod
    BY <1>3, <2>3
  <2> QED
    BY <2>4, <2>5, <2>6 DEF Conservation
<1>6. CASE Clear
  <2>1. /\ m_puts' = m_puts /\ m_overflows' = m_overflows /\ m_gets' = m_gets
        /\ dropped' = (dropped + m_size) % CounterMod /\ m_size' = 0
    BY <1>6 DEF Clear, statVars
  <2> DEFINE c == m_gets + m_overflows
             x == dropped + m_size
  <2>2. c \in Nat /\ x \in Nat /\ c + x = sum /\ x % CounterMod \in Nat
    BY <1>1, Division
  <2>3. m_gets' + m_overflows' + dropped' + m_size' = c + (x % CounterMod)
    BY <2>1, <2>2, <1>1
  <2> HIDE DEF c, x
  <2> QED
    BY <1>1, <1>3, <2>1, <2>2, <2>3 DEF Conservation
<1>7. CASE Peek \/ ReturnNull \/ UNCHANGED vars
  BY <1>7 DEF Peek, ReturnNull, vars, ringVars, statVars, Conservation
<1> QED
  BY <1>4, <1>5, <1>6, <1>7 DEF Next

(* What was put was got, overwritten, cleared or is still there, whatever    *)
(* the width of the counters and however often each has wrapped.             *)
THEOREM FramesConserved == Spec => []Conservation
<1>1. Init => Conservation
  <2>1. 0 % CounterMod = 0
    BY BufferAssumption
  <2> QED
    BY <2>1 DEF Init, InitRing, Conservation
<1>2. TypeOK /\ RingInv /\ Conservation /\ [Next]_vars => Conservation'
  BY ConservationStep
<1> QED
  BY <1>1, <1>2, TypeCorrect, RingCorrect, PTL DEF Spec

-----------------------------------------------------------------------------
(* The receive path (RxPath).                                              *)

Copied == Frame \cup {NoFrame, Torn}

(* get() has moved the tail, and the frame is still to be copied. *)
Claimed == {"loadFull", "compare", "subtract", "storeSize", "storeAgain", "copy", "copyRest"}

RxTypes ==
    /\ slots \in [Idx -> Frame \cup {NoFrame}]
    /\ m_head \in Idx /\ m_tail \in Idx /\ ptr \in Idx
    /\ headReg \in Idx /\ tailReg \in Idx
    /\ m_full \in BOOLEAN /\ fullReg \in BOOLEAN /\ ahead \in BOOLEAN /\ raced \in BOOLEAN
    /\ m_size \in Nat /\ sizeReg \in Nat /\ arrived \in 0 .. MaxFrames
    /\ half \in Frame \cup {NoFrame}
    /\ delivered \in Seq(Copied)
    /\ pc \in {"idle", "get", "unfull", "advance"} \cup Claimed

(* What available() said is still so when get() asks again: a put never     *)
(* leaves a size of zero.                                                   *)
StillSome == pc = "get" => m_size > 0

(* Before the tail moves, the registers point at a frame that waits; after  *)
(* it has, the slot claimed is the one before the tail.  The head may be    *)
(* known too late, but not of a ring that is about to be found empty.       *)
Held ==
    /\ m_full => m_head = m_tail /\ pc \in {"idle", "get", "unfull"}
    /\ pc \in {"unfull", "advance"} =>
           ptr = m_tail /\ tailReg = m_tail /\ Waiting > 0 /\ (Waiting = 1 => headReg = m_head)
    /\ pc \in Claimed => Succ(ptr) = m_tail /\ slots[ptr] = arrived - Waiting
    /\ pc \in {"loadFull", "compare", "subtract"} => tailReg = m_tail
    /\ pc \in {"compare", "subtract"} => ~fullReg
    /\ pc = "copyRest" => half = arrived - Waiting

(* Nothing waits, and the sizes that say otherwise are still to be made:    *)
(* whatever the reader has computed or stored by now is zero.               *)
Empty ==
    Waiting = 0 =>
        /\ pc \in {"loadFull", "compare", "subtract"} => headReg = m_head
        /\ pc = "subtract" => ahead
        /\ pc \in {"storeSize", "storeAgain"} => sizeReg = 0
        /\ pc \in {"idle", "get", "storeAgain", "copy", "copyRest"} => m_size = 0

(* The frames in order of arrival: delivered or lost, in hand, waiting.     *)
Lost == arrived - Waiting - InHand - Len(delivered)

Lined ==
    /\ \A i \in 1 .. Len(delivered) : delivered[i] \in 1 .. arrived - Waiting - InHand
    /\ \A i, j \in 1 .. Len(delivered) : i < j => delivered[i] < delivered[j]
    /\ \A i \in 1 .. Waiting : slots[(m_tail + i - 1) % Capacity] = arrived - Waiting + i
    /\ Lost >= 0 /\ m_overflows = Lost % CounterMod

Unraced == ~raced => Held /\ Empty /\ Lined

IInv == RxTypes /\ StillSome /\ Unraced

-----------------------------------------------------------------------------
LEMMA InHandIs == InHand = IF pc \in Claimed THEN 1 ELSE 0
BY DEF InHand, Claimed

LEMMA CapacityIs == Capacity \in Nat \ {0} /\ \A n \in 0 .. Capacity : n \in Nat
BY BufferAssumption

LEMMA StoredIs ==
    ASSUME RxTypes
    PROVE  /\ Stored \in 0 .. Capacity /\ Waiting \in 0 .. Capacity
           /\ Stored \in Nat /\ Waiting \in Nat
           /\ Stored = 0 <=> (m_head = m_tail /\ ~m_full)
           /\ pc # "advance" => Waiting = Stored
<1>1. /\ Stored \in 0 .. Capacity /\ (Stored = 0 <=> (m_head = m_tail /\ ~m_full))
  BY RingSizeIs DEF RxTypes, Stored
<1>2. Waiting \in 0 .. Capacity
  BY <1>1, CapacityIs DEF Waiting
<1> QED
  BY <1>1, <1>2, CapacityIs DEF Waiting

LEMMA DeliveredLen ==
    ASSUME RxTypes
    PROVE  Len(delivered) \in Nat /\ delivered \in [1 .. Len(delivered) -> Copied]
BY LenProperties DEF RxTypes

(* The promises are the invariant's last two parts.                         *)
LEMMA Promise == IInv => NeverNull /\ LossesCounted
<1> SUFFICES ASSUME IInv PROVE NeverNull /\ LossesCounted
  OBVIOUS
<1>1. NeverNull
  BY DEF IInv, RxTypes, Claimed, NeverNull
<1>2. ASSUME ~raced, pc \in {"idle", "get"}, m_size > 0 PROVE Waiting > 0
  <2>1. Waiting # 0 /\ Waiting \in Nat
    BY <1>2, StoredIs DEF IInv, RxTypes, Unraced, Empty
  <2> QED
    BY <2>1
<1> QED
  BY <1>1, <1>2 DEF LossesCounted, IInv, Unraced, Lined, Lost

-----------------------------------------------------------------------------
(* A put into a ring with a slot free: the frame is the last of one more,   *)
(* and the others are where they were.                                      *)
LEMMA PutBelow ==
    ASSUME RxTypes, ~m_full, NEW f \in Frame, PutRing(f)
    PROVE  /\ m_tail' = m_tail /\ m_head' = Succ(m_head)
           /\ Stored' = Stored + 1 /\ Stored + 1 <= Capacity /\ m_overflows' = m_overflows
           /\ \A i \in 1 .. Stored : slots'[(m_tail + i - 1) % Capacity]
                                       = slots[(m_tail + i - 1) % Capacity]
           /\ slots'[(m_tail + (Stored + 1) - 1) % Capacity] = f
           /\ \A p \in Idx : p # m_head => slots'[p] = slots[p]
<1>1. /\ m_tail' = m_tail /\ m_head' = Succ(m_head) /\ m_full' = (Succ(m_head) = m_tail)
      /\ slots' = [slots EXCEPT ![m_head] = f] /\ m_overflows' = m_overflows
  BY DEF PutRing
<1>2. /\ m_head \in Idx /\ m_tail \in Idx /\ slots \in [Idx -> Frame \cup {NoFrame}]
      /\ m_full = FALSE
  BY <1>1 DEF RxTypes
<1>3. /\ Stored = RingSize(m_head, m_tail, FALSE)
      /\ Stored' = RingSize(Succ(m_head), m_tail, Succ(m_head) = m_tail)
  BY <1>1, <1>2 DEF Stored
<1>4. /\ Stored \in 0 .. Capacity - 1 /\ Stored' = Stored + 1
      /\ (m_tail + (Stored + 1) - 1) % Capacity = m_head
      /\ \A d \in 1 .. Stored : (m_tail + d - 1) % Capacity # m_head
  BY <1>2, <1>3, HeadIs
<1>5. \A p \in Idx : p # m_head => slots'[p] = slots[p]
  BY <1>1, <1>2
<1>6. slots'[m_head] = f
  BY <1>1, <1>2
<1>7. \A i \in 1 .. Stored : slots'[(m_tail + i - 1) % Capacity]
                               = slots[(m_tail + i - 1) % Capacity]
  <2> TAKE i \in 1 .. Stored
  <2>1. i \in 1 .. Capacity
    BY <1>4, BufferAssumption
  <2>2. (m_tail + i - 1) % Capacity \in Idx
    BY <1>2, <2>1, WrapIs
  <2> QED
    BY <1>4, <1>5, <2>2
<1>8. Stored + 1 <= Capacity
  BY <1>4, CapacityIs
<1> QED
  BY <1>1, <1>4, <1>5, <1>6, <1>7, <1>8

(* A put into a full ring: every frame moves up by one place and the new    *)
(* one takes the slot of the oldest.                                        *)
LEMMA PutOver ==
    ASSUME RxTypes, m_full, m_head = m_tail, NEW f \in Frame, PutRing(f)
    PROVE  /\ Stored = Capacity /\ Stored' = Capacity
           /\ m_overflows' = Count(m_overflows)
           /\ \A i \in 1 .. Capacity - 1 : slots'[(m_tail' + i - 1) % Capacity]
                                             = slots[(m_tail + (i + 1) - 1) % Capacity]
           /\ slots'[(m_tail' + Capacity - 1) % Capacity] = f
<1>1. /\ m_tail' = Succ(m_tail) /\ m_head' = Succ(m_tail) /\ m_full' = TRUE
      /\ slots' = [slots EXCEPT ![m_tail] = f] /\ m_overflows' = Count(m_overflows)
  BY DEF PutRing
<1>2. m_tail \in Idx /\ slots \in [Idx -> Frame \cup {NoFrame}] /\ Succ(m_tail) \in Idx
  BY SuccIs DEF RxTypes
<1>3. Stored = Capacity /\ Stored' = Capacity
  BY <1>1 DEF Stored, RingSize
<1>4. ASSUME NEW i \in 1 .. Capacity - 1
      PROVE  slots'[(m_tail' + i - 1) % Capacity] = slots[(m_tail + (i + 1) - 1) % Capacity]
  <2>1. (m_tail' + i - 1) % Capacity = (m_tail + (i + 1) - 1) % Capacity
    BY <1>1, <1>2, ShiftIs
  <2>2. i + 1 \in 1 .. Capacity
    BY CapacityIs
  <2> DEFINE d == i + 1
  <2>3. /\ (m_tail + d - 1) % Capacity =
                 IF m_tail + d - 1 < Capacity THEN m_tail + d - 1 ELSE m_tail + d - 1 - Capacity
        /\ (m_tail + d - 1) % Capacity \in Idx
    BY <1>2, <2>2, WrapIs
  <2>4. (m_tail + d - 1) % Capacity # m_tail
    BY <1>2, <2>3, CapacityIs DEF Idx
  <2> QED
    BY <1>1, <1>2, <2>1, <2>3, <2>4
<1>5. slots'[(m_tail' + Capacity - 1) % Capacity] = f
  <2>1. Capacity \in 1 .. Capacity
    BY CapacityIs
  <2>2. (Succ(m_tail) + Capacity - 1) % Capacity =
            IF Succ(m_tail) + Capacity - 1 < Capacity THEN Succ(m_tail) + Capacity - 1
            ELSE Succ(m_tail) + Capacity - 1 - Capacity
    BY <1>2, <2>1, WrapIs
  <2>3. Succ(m_tail) = IF m_tail + 1 = Capacity THEN 0 ELSE m_tail + 1
    BY <1>2, SuccIs
  <2>4. (Succ(m_tail) + Capacity - 1) % Capacity = m_tail
    BY <1>2, <2>2, <2>3, CapacityIs DEF Idx
  <2> QED
    BY <1>1, <1>2, <2>4
<1> QED
  BY <1>1, <1>3, <1>4, <1>5

(* An interrupt, wherever the reader is.                                    *)
LEMMA ReceivePreserves == IInv /\ Receive => IInv'
<1> SUFFICES ASSUME IInv, Receive PROVE IInv'
  OBVIOUS
<1> DEFINE f == arrived + 1
<1>1. /\ arrived < MaxFrames /\ PutRing(f) /\ arrived' = f
      /\ raced' = (raced \/ (Busy /\ Waiting + 1 >= Capacity))
      /\ UNCHANGED <<pc, ptr, fullReg, headReg, tailReg, ahead, sizeReg, half, delivered>>
  BY DEF Receive, readerVars, loadVars
<1>2. f \in Frame /\ f \in 0 .. MaxFrames /\ arrived \in Nat
  BY <1>1, RxAssumption DEF IInv, RxTypes
<1> HIDE DEF f
<1>3. /\ m_tail' \in Idx /\ m_head' \in Idx /\ m_full' = (m_head' = m_tail')
      /\ m_size' = RingSize(m_head', m_tail', m_full')
      /\ slots' \in [Idx -> Frame \cup {NoFrame}]
  BY <1>1, <1>2, SuccIs DEF PutRing, IInv, RxTypes
<1>4. m_full' \in BOOLEAN /\ raced' \in BOOLEAN
  BY <1>1, <1>3 DEF IInv, RxTypes
<1>5. /\ Stored' \in 0 .. Capacity /\ Stored' \in Nat /\ Stored' > 0
      /\ m_size' = Stored' /\ Waiting' = Stored'
  <2>1. Stored' = m_size'
    BY <1>3 DEF Stored
  <2>2. Stored' \in 0 .. Capacity /\ (Stored' = 0 <=> (m_head' = m_tail' /\ ~m_full'))
    BY <1>3, <1>4, RingSizeIs DEF Stored
  <2>3. ~(m_head' = m_tail' /\ ~m_full')
    BY <1>3, Zenon
  <2>4. Stored' # 0
    BY <2>2, <2>3, Zenon
  <2>5. Stored' \in Nat
    BY <2>2, CapacityIs, Zenon
  <2>6. m_head' = m_tail' => Stored' = Capacity
    <3>1. m_head' = m_tail' => m_full'
      BY <1>3, Zenon
    <3> QED
      BY <3>1 DEF Stored, RingSize
  <2> QED
    BY <2>1, <2>2, <2>4, <2>5, <2>6 DEF Waiting
<1>6. RxTypes' /\ StillSome'
  BY <1>1, <1>2, <1>3, <1>4, <1>5 DEF IInv, RxTypes, StillSome
<1>7. ASSUME ~raced' PROVE Held' /\ Empty' /\ Lined'
  <2>1. ~raced /\ Held /\ Lined /\ (Busy => Waiting + 1 < Capacity)
    <3>1. ~raced /\ (Busy => ~(Waiting + 1 >= Capacity))
      BY <1>1, <1>7, Zenon
    <3>2. Waiting \in Nat
      BY StoredIs DEF IInv
    <3>3. ~(Waiting + 1 >= Capacity) => Waiting + 1 < Capacity
      BY <3>2, CapacityIs
    <3> QED
      BY <3>1, <3>3 DEF IInv, Unraced
  <2>2. Len(delivered) \in Nat /\ InHand \in {0, 1} /\ InHand' = InHand
    BY <1>1, DeliveredLen DEF IInv, InHand
  <2>3. Empty'
    BY <1>5 DEF Empty
  <2>4. Waiting \in Nat /\ Waiting \in 0 .. Capacity
    BY StoredIs DEF IInv
  <2>5. CASE ~m_full
    <3>0. Waiting = Stored /\ m_full = FALSE
      <4>1. ~(pc = "advance" /\ m_head = m_tail)
        BY <2>1, <2>4, CapacityIs DEF Busy, Waiting
      <4> QED
        BY <2>5, <4>1 DEF Waiting, IInv, RxTypes
    <3>1. /\ m_tail' = m_tail /\ m_head' = Succ(m_head)
          /\ Waiting' = Waiting + 1 /\ m_overflows' = m_overflows
          /\ \A i \in 1 .. Waiting : slots'[(m_tail + i - 1) % Capacity]
                                       = slots[(m_tail + i - 1) % Capacity]
          /\ slots'[(m_tail + (Waiting + 1) - 1) % Capacity] = f
          /\ \A p \in Idx : p # m_head => slots'[p] = slots[p]
      BY <1>1, <1>2, <1>5, <2>5, <3>0, PutBelow DEF IInv
    <3>2. arrived' - Waiting' = arrived - Waiting /\ Lost' = Lost
      BY <1>1, <1>2, <2>2, <2>4, <3>1 DEF Lost, f
    <3>3. pc \in Claimed => ~m_full' /\ slots'[ptr] = slots[ptr]
      <4>1. pc \in Claimed => Waiting + 1 < Capacity
        BY <2>1 DEF Busy, Claimed
      <4>2. m_full' => Stored' = Capacity
        BY DEF Stored, RingSize
      <4>3. pc \in Claimed => ~m_full'
        BY <1>5, <2>4, <3>1, <4>1, <4>2, CapacityIs
      <4>4. pc \in Claimed => ptr # m_head
        BY <1>3, <2>1, <3>1, <4>3 DEF Held
      <4> QED
        BY <3>1, <4>3, <4>4 DEF IInv, RxTypes
    <3>4. pc = "advance" => ~m_full'
      <4>1. pc = "advance" => Waiting + 1 < Capacity
        BY <2>1 DEF Busy
      <4>2. m_full' => Stored' = Capacity
        BY DEF Stored, RingSize
      <4> QED
        BY <1>5, <2>4, <3>1, <4>1, <4>2, CapacityIs
    <3>5. pc \in {"unfull", "advance"} => Waiting' > 1
      BY <2>1, <2>4, <3>1 DEF Held
    <3>6. Held'
      <4>1. m_full' => m_head' = m_tail' /\ pc \in {"idle", "get", "unfull"}
        BY <1>3, <3>3, <3>4 DEF IInv, RxTypes
      <4>2. pc \in {"unfull", "advance"} =>
              ptr = m_tail' /\ tailReg = m_tail' /\ Waiting' > 0 /\ Waiting' # 1
        <5>1. pc \in {"unfull", "advance"} => Waiting' > 0 /\ Waiting' # 1
          BY <2>4, <3>1, <3>5
        <5> QED
          BY <2>1, <3>1, <5>1 DEF Held
      <4>3. /\ pc \in Claimed => Succ(ptr) = m_tail' /\ slots'[ptr] = arrived' - Waiting'
            /\ pc = "copyRest" => half = arrived' - Waiting'
        BY <2>1, <3>1, <3>2, <3>3 DEF Held
      <4>4. /\ pc \in {"loadFull", "compare", "subtract"} => tailReg = m_tail'
            /\ pc \in {"compare", "subtract"} => ~fullReg
        BY <2>1, <3>1 DEF Held
      <4> QED
        BY <1>1, <4>1, <4>2, <4>3, <4>4 DEF Held
    <3>7. \A i \in 1 .. Waiting' : slots'[(m_tail' + i - 1) % Capacity] = arrived' - Waiting' + i
      <4> TAKE i \in 1 .. Waiting'
      <4>1. CASE i = Waiting + 1
        <5>1. arrived' - Waiting' + (Waiting + 1) = f
          BY <1>1, <1>2, <2>4, <3>1 DEF f
        <5> QED
          BY <3>1, <4>1, <5>1
      <4>2. CASE i # Waiting + 1
        <5>1. i \in 1 .. Waiting
          BY <2>4, <3>1, <4>2
        <5> QED
          BY <2>1, <3>1, <3>2, <5>1 DEF Lined
      <4> QED
        BY <4>1, <4>2
    <3>8. Lined'
      BY <1>1, <2>1, <2>2, <3>1, <3>2, <3>7 DEF Lined
    <3> QED
      BY <2>3, <3>6, <3>8
  <2>6. CASE m_full
    <3>1. /\ m_head = m_tail /\ Stored = Capacity
          /\ Stored' = Capacity /\ m_overflows' = Count(m_overflows)
          /\ \A i \in 1 .. Capacity - 1 : slots'[(m_tail' + i - 1) % Capacity]
                                            = slots[(m_tail + (i + 1) - 1) % Capacity]
          /\ slots'[(m_tail' + Capacity - 1) % Capacity] = f
      BY <1>1, <1>2, <2>1, <2>6, PutOver DEF IInv, Held
    <3>2. Waiting = Capacity /\ Waiting' = Capacity /\ pc \in {"idle", "get"}
      <4>1. Waiting = Capacity
        BY <3>1 DEF Waiting
      <4>2. ~Busy
        BY <2>1, <2>4, <4>1, CapacityIs
      <4> QED
        BY <1>5, <3>1, <4>1, <4>2 DEF Busy
    <3>3. Held'
      BY <1>1, <1>3, <3>2 DEF Held, Claimed
    <3>4. InHand = 0 /\ Lost' = Lost + 1 /\ Lost \in Nat
      BY <1>1, <1>2, <2>1, <2>2, <3>2, CapacityIs DEF Lost, f, InHand, Lined
    <3>5. m_overflows' = Lost' % CounterMod
      <4>1. \A c, x \in Nat : (c + (x % CounterMod)) % CounterMod = (c + x) % CounterMod
        BY BufferAssumption, AddIs
      <4>2. (1 + (Lost % CounterMod)) % CounterMod = (1 + Lost) % CounterMod
        BY <3>4, <4>1
      <4>3. m_overflows = Lost % CounterMod /\ Lost % CounterMod \in Nat
        BY <2>1, <3>4, BufferAssumption DEF Lined
      <4> HIDE DEF Lost
      <4> QED
        BY <3>1, <3>4, <4>2, <4>3 DEF Count
    <3>6. \A i \in 1 .. Waiting' : slots'[(m_tail' + i - 1) % Capacity] = arrived' - Waiting' + i
      <4> TAKE i \in 1 .. Waiting'
      <4>1. CASE i = Capacity
        BY <1>1, <1>2, <3>1, <3>2, <4>1, CapacityIs
      <4>2. CASE i # Capacity
        <5>1. i \in 1 .. Capacity - 1 /\ i + 1 \in 1 .. Capacity
          BY <3>2, <4>2, CapacityIs
        <5>2. slots[(m_tail + (i + 1) - 1) % Capacity] = arrived - Waiting + (i + 1)
          BY <2>1, <3>2, <5>1 DEF Lined
        <5>3. arrived - Waiting + (i + 1) = arrived' - Waiting' + i
          BY <1>1, <1>2, <3>2, <5>1, CapacityIs DEF f
        <5> QED
          BY <3>1, <5>1, <5>2, <5>3
      <4> QED
        BY <4>1, <4>2
    <3>7. \A i \in 1 .. Len(delivered) : delivered[i] \in 1 .. arrived' - Waiting' - InHand'
      BY <1>1, <1>2, <2>1, <2>2, <3>2, CapacityIs DEF Lined, f
    <3> QED
      <4>1. Lost' >= 0
        BY <3>4
      <4> QED
        BY <1>1, <2>1, <2>3, <3>3, <3>5, <3>6, <3>7, <4>1 DEF Lined
  <2> QED
    BY <2>5, <2>6
<1> QED
  BY <1>6, <1>7 DEF IInv, Unraced

-----------------------------------------------------------------------------
(* What a step leaves in line when it moves no frame.                       *)
LEMMA LinedKept ==
    ASSUME Lined, Waiting' = Waiting, InHand' = InHand,
           UNCHANGED <<slots, m_tail, m_overflows, arrived, delivered>>
    PROVE  Lined'
BY DEF Lined, Lost

(* Steps of the reader before the tail moves.                               *)
LEMMA ChoosingPreserves ==
    ASSUME IInv, \/ Available \/ Locate \/ ClearFull
                 \/ Reload /\ pc \in {"unfull", "advance"}
    PROVE  IInv'
<1> USE DEF vars, ringVars, statVars, loadVars, Step
<1>0. /\ Stored \in 0 .. Capacity /\ Waiting \in 0 .. Capacity /\ Waiting \in Nat
      /\ Stored = 0 <=> (m_head = m_tail /\ ~m_full)
      /\ pc # "advance" => Waiting = Stored
  BY StoredIs DEF IInv
<1>1. CASE Available \/ Locate
  <2>1. /\ m_size > 0 /\ pc \in {"idle", "get"} /\ pc' \in {"get", "unfull"}
        /\ pc' = "get" => ptr' = ptr /\ headReg' = headReg /\ tailReg' = tailReg
        /\ pc' = "unfull" => ptr' = m_tail /\ headReg' = m_head /\ tailReg' = m_tail
        /\ UNCHANGED <<slots, m_head, m_tail, m_full, m_size, m_overflows, fullReg, ahead,
                       sizeReg, half, delivered, arrived, raced>>
    BY <1>1 DEF IInv, StillSome, Available, Locate
  <2>2. Waiting' = Waiting /\ InHand' = InHand
    BY <2>1 DEF Stored, InHand, Waiting
  <2>3. RxTypes' /\ StillSome'
    BY <2>1 DEF IInv, RxTypes, StillSome, Claimed
  <2>4. ASSUME ~raced PROVE Held' /\ Empty' /\ Lined'
    <3>1. Waiting > 0
      BY <1>0, <2>1, <2>4 DEF IInv, RxTypes, Unraced, Empty
    <3>2. Held'
      BY <2>1, <2>2, <2>4, <3>1 DEF IInv, Unraced, Held, Claimed
    <3>3. Empty'
      BY <1>0, <2>2, <3>1 DEF Empty
    <3>4. Lined'
      BY <2>1, <2>2, <2>4, LinedKept DEF IInv, Unraced
    <3> QED
      BY <3>2, <3>3, <3>4
  <2> QED
    BY <2>1, <2>3, <2>4 DEF IInv, Unraced
<1>2. CASE ClearFull
  <2>1. /\ pc = "unfull" /\ pc' = "advance" /\ m_full' = FALSE
        /\ UNCHANGED <<slots, m_head, m_tail, m_size, m_overflows, ptr, fullReg, headReg,
                       tailReg, ahead, sizeReg, half, delivered, arrived, raced>>
    BY <1>2 DEF ClearFull
  <2>2. RxTypes' /\ StillSome'
    BY <2>1 DEF IInv, RxTypes, StillSome, Claimed
  <2>3. ASSUME ~raced PROVE Held' /\ Empty' /\ Lined'
    <3>0. Waiting = Stored /\ Stored > 0 /\ Held /\ Lined
      BY <1>0, <2>1, <2>3 DEF IInv, Unraced, Held
    <3>1. Waiting' = Waiting
      <4>1. CASE m_full
        BY <2>1, <3>0, <4>1 DEF Held, Waiting, Stored, RingSize
      <4>2. CASE ~m_full
        <5>1. m_head # m_tail /\ m_full = FALSE
          BY <1>0, <3>0, <4>2 DEF IInv, RxTypes
        <5> QED
          BY <2>1, <3>0, <5>1 DEF Waiting, Stored
      <4> QED
        BY <4>1, <4>2
    <3>2. InHand' = InHand
      BY <2>1 DEF InHand
    <3>3. Held'
      BY <2>1, <3>0, <3>1 DEF Held, Claimed
    <3>4. Empty'
      BY <1>0, <3>0, <3>1 DEF Empty
    <3>5. Lined'
      BY <2>1, <3>0, <3>1, <3>2, LinedKept
    <3> QED
      BY <3>3, <3>4, <3>5
  <2> QED
    BY <2>1, <2>2, <2>3 DEF IInv, Unraced
<1>3. CASE Reload /\ pc \in {"unfull", "advance"}
  <2>1. /\ pc \in {"unfull", "advance"} /\ headReg' \in {headReg, m_head}
        /\ tailReg' \in {tailReg, m_tail}
        /\ UNCHANGED <<pc, slots, m_head, m_tail, m_full, m_size, m_overflows, ptr, fullReg,
                       ahead, sizeReg, half, delivered, arrived, raced>>
    BY <1>3 DEF Reload
  <2>2. Waiting' = Waiting /\ InHand' = InHand
    BY <2>1 DEF Stored, InHand, Waiting
  <2>3. RxTypes' /\ StillSome'
    BY <2>1 DEF IInv, RxTypes, StillSome
  <2>4. ASSUME ~raced PROVE Held' /\ Empty' /\ Lined'
    <3>1. Held /\ Lined
      BY <2>4 DEF IInv, Unraced
    <3>2. Held'
      BY <2>1, <2>2, <3>1 DEF Held, Claimed
    <3>3. Empty'
      BY <1>0, <2>1, <2>2, <3>1 DEF Empty, Held
    <3>4. Lined'
      BY <2>1, <2>2, <3>1, LinedKept
    <3> QED
      BY <3>2, <3>3, <3>4
  <2> QED
    BY <2>1, <2>3, <2>4 DEF IInv, Unraced
<1> QED
  BY <1>1, <1>2, <1>3

(* Steps of size() and of the copy, which leave the indices alone.          *)
LEMMA DifferenceIs ==
    ASSUME RxTypes
    PROVE  /\ Difference \in Nat
           /\ (~fullReg /\ headReg = tailReg /\ ahead) => Difference = 0
<1>1. CASE fullReg
  BY <1>1, CapacityIs DEF Difference
<1>2. CASE ~fullReg
  <2> DEFINE m == IF ahead THEN 256 ELSE Capacity
             d == headReg - tailReg + m
  <2>1. headReg \in Idx /\ tailReg \in Idx /\ Capacity \in 1 .. 255
    BY BufferAssumption DEF RxTypes
  <2>2. d \in Nat /\ (headReg = tailReg /\ ahead => d = 256)
    BY <2>1 DEF Idx
  <2>3. Difference = d % 256
    BY <1>2 DEF Difference
  <2> HIDE DEF d
  <2>4. d % 256 \in Nat /\ (d = 256 => d % 256 = 0)
    BY <2>2
  <2> QED
    BY <2>2, <2>3, <2>4
<1> QED
  BY <1>1, <1>2

LEMMA ReadingPreserves ==
    ASSUME IInv, \/ LoadFull \/ Compare \/ Subtract \/ StoreSize \/ ReloadSize \/ StoreAgain
                 \/ CopyFirst
                 \/ Reload /\ pc \in {"loadFull", "compare", "subtract"}
    PROVE  IInv'
<1> USE DEF vars, ringVars, statVars, loadVars, Step
<1>0. /\ Waiting \in Nat /\ Stored \in Nat
      /\ Stored = 0 <=> (m_head = m_tail /\ ~m_full)
      /\ pc # "advance" => Waiting = Stored
  BY StoredIs DEF IInv
<1>1. /\ pc \in Claimed /\ pc' \in Claimed
      /\ UNCHANGED <<slots, m_head, m_tail, m_full, m_overflows, ptr, delivered, arrived, raced>>
  BY DEF LoadFull, Compare, Subtract, StoreSize, ReloadSize, StoreAgain, CopyFirst, Reload, Claimed
<1>2. Waiting' = Waiting /\ InHand' = InHand
  BY <1>1, InHandIs DEF Stored, InHand, Claimed, Waiting
<1>3. Lined => Lined'
  BY <1>1, <1>2, LinedKept
<1>4. Waiting = 0 /\ ~raced => m_head = m_tail
  BY <1>0, <1>1 DEF Claimed
<1>5. SUFFICES RxTypes' /\ StillSome' /\ (~raced => Held' /\ Empty')
  BY <1>1, <1>3 DEF IInv, Unraced
<1>6. StillSome'
  BY <1>1 DEF StillSome, Claimed
<1>7. ASSUME LoadFull PROVE RxTypes' /\ (~raced => Held' /\ Empty')
  <2>1. /\ pc = "loadFull" /\ pc' = "compare" /\ fullReg' \in {m_full, FALSE}
        /\ UNCHANGED <<m_size, headReg, tailReg, ahead, sizeReg, half>>
    <3>1. fullReg' \in {m_full, FALSE}
      BY <1>7, Zenon DEF LoadFull
    <3>2. /\ pc = "loadFull" /\ pc' = "compare"
          /\ UNCHANGED <<m_size, headReg, tailReg, ahead, sizeReg, half>>
      BY <1>7 DEF LoadFull
    <3> QED
      BY <3>1, <3>2, Zenon
  <2>2. RxTypes'
    BY <1>1, <2>1 DEF IInv, RxTypes, Claimed
  <2>3. ~raced => Held' /\ Empty'
    BY <1>1, <1>2, <2>1 DEF IInv, RxTypes, Unraced, Held, Empty, Claimed
  <2> QED
    BY <2>2, <2>3
<1>8. ASSUME Compare PROVE RxTypes' /\ (~raced => Held' /\ Empty')
  <2>1. /\ pc = "compare" /\ pc' = "subtract" /\ ahead' = (headReg >= tailReg)
        /\ UNCHANGED <<m_size, fullReg, headReg, tailReg, sizeReg, half>>
    BY <1>8 DEF Compare
  <2>2. RxTypes'
    <3>1. ahead' \in BOOLEAN
      BY <2>1
    <3> QED
      BY <1>1, <2>1, <3>1 DEF IInv, RxTypes, Claimed
  <2>3. ~raced => Held'
    BY <1>1, <1>2, <2>1 DEF IInv, Unraced, Held, Claimed
  <2>4. ~raced /\ Waiting = 0 => headReg = m_head /\ ahead'
    <3>1. ~raced /\ Waiting = 0 => headReg = m_head /\ tailReg = m_tail /\ m_head = m_tail
      BY <1>4, <2>1 DEF IInv, Unraced, Held, Empty
    <3>2. headReg \in Nat
      BY CapacityIs DEF IInv, RxTypes, Idx
    <3>3. headReg >= headReg
      BY <3>2
    <3> QED
      BY <2>1, <3>1, <3>3
  <2>5. ~raced => Empty'
    BY <1>1, <1>2, <2>1, <2>4 DEF Empty
  <2> QED
    BY <2>2, <2>3, <2>5
<1>9. ASSUME Subtract PROVE RxTypes' /\ (~raced => Held' /\ Empty')
  <2>1. /\ pc = "subtract" /\ pc' = "storeSize" /\ sizeReg' = Difference
        /\ UNCHANGED <<m_size, fullReg, headReg, tailReg, ahead, half>>
    BY <1>9 DEF Subtract
  <2>2. Difference \in Nat /\ ((~fullReg /\ headReg = tailReg /\ ahead) => Difference = 0)
    BY DifferenceIs DEF IInv
  <2>3. RxTypes'
    BY <1>1, <2>1, <2>2 DEF IInv, RxTypes, Claimed
  <2>4. ~raced => Held'
    BY <1>1, <1>2, <2>1 DEF IInv, Unraced, Held, Claimed
  <2>5. ~raced /\ Waiting = 0 => ~fullReg /\ headReg = tailReg /\ ahead
    BY <1>4, <2>1 DEF IInv, Unraced, Held, Empty
  <2>6. ~raced => Empty'
    BY <1>1, <1>2, <2>1, <2>2, <2>5 DEF Empty
  <2> QED
    BY <2>3, <2>4, <2>6
<1>10. ASSUME StoreSize \/ ReloadSize \/ StoreAgain
       PROVE  RxTypes' /\ (~raced => Held' /\ Empty')
  <2>1. /\ pc \in {"storeSize", "storeAgain"} /\ pc' \in {"storeAgain", "copy"}
        /\ m_size' \in {m_size, sizeReg} /\ sizeReg' \in {m_size, sizeReg}
        /\ pc = "storeSize" => m_size' = sizeReg /\ sizeReg' = sizeReg
        /\ UNCHANGED <<fullReg, headReg, tailReg, ahead, half>>
    BY <1>10 DEF StoreSize, ReloadSize, StoreAgain
  <2>2. RxTypes'
    BY <1>1, <2>1 DEF IInv, RxTypes
  <2>3. ~raced => Held'
    BY <1>1, <1>2, <2>1 DEF IInv, Unraced, Held, Claimed
  <2>4. ~raced /\ Waiting = 0 => m_size' = 0 /\ sizeReg' = 0
    BY <2>1 DEF IInv, Unraced, Empty
  <2>5. ~raced => Empty'
    BY <1>2, <2>1, <2>4 DEF Empty
  <2> QED
    BY <2>2, <2>3, <2>5
<1>11. ASSUME CopyFirst PROVE RxTypes' /\ (~raced => Held' /\ Empty')
  <2>1. /\ pc = "copy" /\ pc' = "copyRest" /\ half' = slots[ptr]
        /\ UNCHANGED <<m_size, fullReg, headReg, tailReg, ahead, sizeReg>>
    BY <1>11 DEF CopyFirst
  <2>2. RxTypes'
    BY <1>1, <2>1 DEF IInv, RxTypes
  <2>3. ~raced => Held'
    BY <1>1, <1>2, <2>1 DEF IInv, Unraced, Held, Claimed
  <2>4. ~raced => Empty'
    BY <1>2, <2>1 DEF IInv, Unraced, Empty
  <2> QED
    BY <2>2, <2>3, <2>4
<1>12. ASSUME Reload, pc \in {"loadFull", "compare", "subtract"}
       PROVE  RxTypes' /\ (~raced => Held' /\ Empty')
  <2>1. /\ headReg' \in {headReg, m_head} /\ tailReg' \in {tailReg, m_tail}
        /\ UNCHANGED <<pc, m_size, fullReg, ahead, sizeReg, half>>
    BY <1>12 DEF Reload
  <2>2. RxTypes'
    BY <1>1, <2>1 DEF IInv, RxTypes
  <2>3. ~raced => Held'
    BY <1>1, <1>2, <1>12, <2>1 DEF IInv, Unraced, Held, Claimed
  <2>4. ~raced => Empty'
    BY <1>1, <1>2, <1>12, <2>1 DEF IInv, Unraced, Empty
  <2> QED
    BY <2>2, <2>3, <2>4
<1> QED
  BY <1>6, <1>7, <1>8, <1>9, <1>10, <1>11, <1>12

(* The tail moves on: the oldest frame waiting is the one in hand.          *)
LEMMA AdvancePreserves == IInv /\ Advance => IInv'
<1> SUFFICES ASSUME IInv, Advance PROVE IInv'
  OBVIOUS
<1>1. /\ pc = "advance" /\ pc' = "loadFull" /\ m_tail' = Succ(tailReg) /\ tailReg' = Succ(tailReg)
      /\ UNCHANGED <<slots, m_head, m_full, m_size, m_overflows, ptr, fullReg, headReg, ahead,
                     sizeReg, half, delivered, arrived, raced>>
  BY DEF Advance, Step, statVars
<1>2. RxTypes' /\ StillSome'
  BY <1>1, SuccIs DEF IInv, RxTypes, StillSome, Claimed
<1>3. ASSUME ~raced PROVE Held' /\ Empty' /\ Lined'
  <2>1. /\ m_full = FALSE /\ ptr = m_tail /\ tailReg = m_tail /\ Waiting > 0
        /\ m_tail' = Succ(m_tail) /\ m_head \in Idx /\ m_tail \in Idx
        /\ Waiting = 1 => headReg = m_head
    BY <1>1, <1>3 DEF IInv, RxTypes, Unraced, Held
  <2>2. Waiting' = Stored' /\ Stored' = RingSize(m_head, Succ(m_tail), FALSE)
    BY <1>1, <2>1 DEF Stored, Waiting
  <2>3. Waiting' = Waiting - 1 /\ Waiting \in 1 .. Capacity
    <3>1. Waiting \in 1 .. Capacity /\ Waiting \in Nat
      BY <2>1, StoredIs, CapacityIs DEF IInv
    <3>2. CASE m_head = m_tail
      <4>1. Waiting = Capacity
        BY <1>1, <3>2 DEF Waiting
      <4> DEFINE n == RingSize(m_head, m_tail, TRUE)
                 k == RingSize(m_head, Succ(m_tail), FALSE)
      <4>2. n = Capacity
        BY DEF RingSize
      <4>3. n > 0 => k = n - 1
        BY <2>1, <3>2, TailIs
      <4>4. Waiting' = k
        BY <2>2
      <4> HIDE DEF n, k
      <4> QED
        BY <4>1, <4>2, <4>3, <4>4, CapacityIs
    <3>3. CASE m_head # m_tail
      <4>1. Waiting = RingSize(m_head, m_tail, FALSE)
        BY <2>1, <3>3 DEF Waiting, Stored
      <4>2. RingSize(m_head, Succ(m_tail), FALSE) = RingSize(m_head, m_tail, FALSE) - 1
        BY <2>1, <4>1, TailIs
      <4> QED
        BY <2>2, <3>1, <4>1, <4>2
    <3> QED
      BY <3>2, <3>3
  <2>4. InHand = 0 /\ InHand' = 1
    BY <1>1 DEF InHand
  <2>5. Len(delivered) \in Nat /\ arrived \in Nat
    BY DeliveredLen DEF IInv, RxTypes
  <2>6. Lined
    BY <1>3 DEF IInv, Unraced
  <2>7. slots[m_tail] = arrived - Waiting + 1
    <3>1. (m_tail + 1 - 1) % Capacity = m_tail
      BY <2>1, WrapIs, BufferAssumption DEF Idx
    <3>2. 1 \in 1 .. Waiting
      BY <2>3
    <3>3. slots[(m_tail + 1 - 1) % Capacity] = arrived - Waiting + 1
      BY <2>6, <3>2 DEF Lined
    <3> QED
      BY <3>1, <3>3
  <2>8. \A i \in 1 .. Waiting' : slots[(Succ(m_tail) + i - 1) % Capacity]
                                   = arrived - Waiting' + i
    <3> TAKE i \in 1 .. Waiting'
    <3>1. i \in 1 .. Capacity - 1 /\ i + 1 \in 1 .. Waiting
      BY <2>3, CapacityIs
    <3>2. (Succ(m_tail) + i - 1) % Capacity = (m_tail + (i + 1) - 1) % Capacity
      BY <2>1, <3>1, ShiftIs
    <3>3. slots[(m_tail + (i + 1) - 1) % Capacity] = arrived - Waiting + (i + 1)
      BY <2>6, <3>1 DEF Lined
    <3>4. arrived - Waiting + (i + 1) = arrived - Waiting' + i
      BY <2>3, <2>5, <3>1
    <3> QED
      BY <3>2, <3>3, <3>4
  <2>9. arrived - Waiting' - InHand' = arrived - Waiting - InHand /\ Lost' = Lost
    BY <1>1, <2>3, <2>4, <2>5 DEF Lost
  <2>10. Held'
    <3>1. slots[ptr] = arrived - Waiting'
      BY <2>1, <2>3, <2>5, <2>7
    <3> QED
      BY <1>1, <2>1, <3>1 DEF Held, Claimed
  <2>11. Empty'
    BY <1>1, <2>1, <2>3 DEF Empty
  <2>12. Lined'
    BY <1>1, <2>1, <2>6, <2>8, <2>9 DEF Lined
  <2> QED
    BY <2>10, <2>11, <2>12
<1> QED
  BY <1>1, <1>2, <1>3 DEF IInv, Unraced

(* The frame in hand, copied whole, is delivered.                           *)
LEMMA CopyPreserves == IInv /\ CopyRest => IInv'
<1> SUFFICES ASSUME IInv, CopyRest PROVE IInv'
  OBVIOUS
<1> DEFINE e == IF slots[ptr] = half THEN half ELSE Torn
<1>1. /\ pc = "copyRest" /\ pc' = "idle" /\ delivered' = Append(delivered, e)
      /\ UNCHANGED <<slots, m_head, m_tail, m_full, m_size, m_overflows, ptr, fullReg, headReg,
                     tailReg, ahead, sizeReg, half, arrived, raced>>
  BY DEF CopyRest, Step, vars, ringVars, statVars, loadVars
<1>2. e \in Copied
  BY DEF IInv, RxTypes, Copied
<1>3. ~raced => e = arrived - Waiting
  BY <1>1 DEF IInv, Unraced, Held, Claimed
<1> HIDE DEF e
<1>4. /\ delivered' \in Seq(Copied) /\ Len(delivered') = Len(delivered) + 1
      /\ \A i \in 1 .. Len(delivered) : delivered'[i] = delivered[i]
      /\ delivered'[Len(delivered) + 1] = e
  BY <1>1, <1>2, AppendProperties DEF IInv, RxTypes
<1>5. RxTypes' /\ StillSome'
  BY <1>1, <1>4 DEF IInv, RxTypes, StillSome
<1>6. /\ Waiting' = Waiting /\ InHand = 1 /\ InHand' = 0
      /\ Waiting \in Nat /\ Len(delivered) \in Nat /\ arrived \in Nat
  BY <1>1, StoredIs, DeliveredLen DEF Stored, Waiting, InHand, IInv, RxTypes
<1>7. ASSUME ~raced PROVE Held' /\ Empty' /\ Lined'
  <2>1. Held /\ Empty /\ Lined
    BY <1>7 DEF IInv, Unraced
  <2>2. Held' /\ Empty'
    BY <1>1, <1>6, <2>1 DEF Held, Empty, Claimed
  <2>3. Lost' = Lost /\ Lost >= 0 /\ e \in Nat /\ e >= 1 + Len(delivered)
        /\ arrived' - Waiting' - InHand' = e
    <3>1. Lost' = Lost /\ Lost >= 0
      BY <1>1, <1>4, <1>6, <2>1 DEF Lost, Lined
    <3> QED
      BY <1>1, <1>3, <1>6, <1>7, <3>1 DEF Lost
  <2>4. \A i \in 1 .. Len(delivered) : delivered[i] \in 1 .. e - 1
    BY <1>3, <1>6, <1>7, <2>1 DEF Lined
  <2>5. \A i \in 1 .. Len(delivered') : delivered'[i] \in 1 .. e
    <3> TAKE i \in 1 .. Len(delivered')
    <3>1. CASE i = Len(delivered) + 1
      BY <1>4, <1>6, <2>3, <3>1
    <3>2. CASE i # Len(delivered) + 1
      <4>1. i \in 1 .. Len(delivered)
        BY <1>4, <1>6, <3>2
      <4> QED
        BY <1>4, <2>3, <2>4, <4>1
    <3> QED
      BY <3>1, <3>2
  <2>6. ASSUME NEW i \in 1 .. Len(delivered'), NEW j \in 1 .. Len(delivered'), i < j
        PROVE  delivered'[i] < delivered'[j]
    <3>1. i \in 1 .. Len(delivered)
      BY <1>4, <1>6, <2>6
    <3>2. CASE j = Len(delivered) + 1
      BY <1>4, <2>3, <2>4, <3>1, <3>2
    <3>3. CASE j # Len(delivered) + 1
      <4>1. j \in 1 .. Len(delivered)
        BY <1>4, <1>6, <3>3
      <4> QED
        BY <1>4, <2>1, <2>6, <3>1, <4>1 DEF Lined
    <3> QED
      BY <3>2, <3>3
  <2>7. \A i \in 1 .. Waiting' : slots'[(m_tail' + i - 1) % Capacity]
                                   = arrived' - Waiting' + i
    BY <1>1, <1>6, <2>1 DEF Lined
  <2>8. Lost' >= 0 /\ m_overflows' = Lost' % CounterMod
    BY <1>1, <2>1, <2>3 DEF Lined
  <2> QED
    BY <2>2, <2>3, <2>5, <2>6, <2>7, <2>8 DEF Lined
<1> QED
  BY <1>1, <1>5, <1>7 DEF IInv, Unraced

-----------------------------------------------------------------------------
LEMMA RxInitial == RxInit => IInv
<1> SUFFICES ASSUME RxInit PROVE IInv
  OBVIOUS
<1>1. /\ 0 \in Idx /\ 0 \in 0 .. MaxFrames /\ <<>> \in Seq(Copied) /\ Len(<<>>) = 0
      /\ 0 % CounterMod = 0
  BY BufferAssumption, RxAssumption, EmptySeq DEF Idx
<1>2. RxTypes /\ StillSome
  BY <1>1 DEF RxInit, Init, InitRing, RxTypes, StillSome
<1>3. Stored = 0 /\ InHand = 0 /\ Waiting = 0 /\ Lost = 0
  BY <1>1 DEF RxInit, Init, InitRing, Stored, RingSize, InHand, Waiting, Lost
<1>4. Held /\ Empty /\ Lined
  BY <1>1, <1>3 DEF RxInit, Init, InitRing, Held, Empty, Lined, Claimed
<1> QED
  BY <1>2, <1>4 DEF IInv, Unraced

LEMMA RxInductive == IInv /\ [RxNext]_rxVars => IInv'
<1> SUFFICES ASSUME IInv, [RxNext]_rxVars PROVE IInv'
  OBVIOUS
<1>1. CASE UNCHANGED rxVars
  <2>1. UNCHANGED <<slots, m_head, m_tail, m_full, m_size, m_overflows, pc, ptr, fullReg,
                    headReg, tailReg, ahead, sizeReg, half, delivered, arrived, raced>>
    BY <1>1 DEF rxVars, readerVars, loadVars, vars, ringVars, statVars
  <2>2. Waiting' = Waiting /\ InHand' = InHand
    BY <2>1 DEF Stored, Waiting, InHand
  <2> QED
    BY <2>1, <2>2, LinedKept DEF IInv, RxTypes, StillSome, Unraced, Held, Empty
<1>2. CASE Reload
  <2>1. pc \in {"unfull", "advance", "loadFull", "compare", "subtract"}
    BY <1>2 DEF Reload
  <2> QED
    BY <1>2, <2>1, ChoosingPreserves, ReadingPreserves
<1>3. CASE RxNext /\ ~Reload
  BY <1>3, ReceivePreserves, ChoosingPreserves, ReadingPreserves, AdvancePreserves, CopyPreserves
     DEF RxNext, Reader
<1> QED
  BY <1>1, <1>2, <1>3

LEMMA RxInvariant == RxSpec => []IInv
BY RxInitial, RxInductive, PTL DEF RxSpec

(* Wherever interrupts fall between available() and get(), also in a ring   *)
(* that overflows, *pFrame is never a null dereference.                     *)
THEOREM NeverDereferencesNull == RxSpec => []NeverNull
BY RxInvariant, Promise, PTL

(* For every capacity, counter width and placement of the interrupts, and   *)
(* whichever of its loads the compiler repeats: until an interrupt finds    *)
(* the ring full or about to fill while a frame is in hand, each frame is   *)
(* handed over once, whole and in order, still waits, or is counted lost.   *)
THEOREM NothingLostUncounted == RxSpec => []LossesCounted
BY RxInvariant, Promise, PTL
=============================================================================
