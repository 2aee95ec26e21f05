------------------------------- MODULE RxPath -------------------------------
(***************************************************************************)
(* The receive path: notify_cb, the CAN receive interrupt, puts frames     *)
(* into the ring while the main loop takes them out through available()    *)
(* and getNextMessage().  No code masks the interrupt, so a put may fall   *)
(* between any two memory accesses of the reader.  The same two routines   *)
(* meet in the GridConnect server, whose lwIP callback is the writer.      *)
(*                                                                         *)
(* The fields are neither volatile nor atomic.  Stores are made in the     *)
(* order of the source; a value loaded may be kept in a register from      *)
(* where get() first needs the ring's indices, or loaded again at every    *)
(* later use (Reload).                                                     *)
(***************************************************************************)
EXTENDS CircularBuffer

CONSTANTS MaxFrames,   \* bound: frames received; frame n is the n-th to arrive
          Torn         \* a copy whose two halves come from different frames

ASSUME RxAssumption ==
    /\ MaxFrames \in Nat
    /\ 1 .. MaxFrames \subseteq Frame
    /\ Torn \notin Frame \cup {NoFrame}

VARIABLES pc,          \* the reader's next memory access
          ptr,         \* get(): p, as the slot it points to
          fullReg, headReg, tailReg,   \* size(): m_full, m_head and m_tail as last loaded
          ahead,       \* size(): the outcome of m_head >= m_tail
          sizeReg,     \* size(): the local size, then the value returned
          half,        \* getNextMessage(): the part of *p copied so far
          arrived,     \* history: frames put by the interrupt
          delivered,   \* history: what getNextMessage() handed to process()
          raced        \* history: see Receive

loadVars == <<fullReg, headReg, tailReg>>
readerVars == <<pc, ptr, loadVars, ahead, sizeReg, half, delivered>>
rxVars == <<vars, readerVars, arrived, raced>>

RxInit ==
    /\ Init
    /\ pc = "idle" /\ ptr = 0 /\ half = NoFrame
    /\ fullReg = FALSE /\ headReg = 0 /\ tailReg = 0 /\ ahead = FALSE /\ sizeReg = 0
    /\ arrived = 0 /\ delivered = <<>> /\ raced = FALSE

(* The frames waiting.  Between the two stores of get() a full ring looks   *)
(* like an empty one.                                                       *)
Waiting == IF pc = "advance" /\ m_head = m_tail THEN Capacity ELSE Stored

(* get() has chosen a slot and the copy of its frame is not complete. *)
Busy == pc \notin {"idle", "get"}

-----------------------------------------------------------------------------
(* The interrupt runs to completion between two accesses of the main loop.  *)
(* It races the reader when it finds no more than one slot free while the   *)
(* reader is still busy with a frame.                                       *)
Receive ==
    /\ arrived < MaxFrames
    /\ PutRing(arrived + 1)
    /\ arrived' = arrived + 1
    /\ raced' = (raced \/ (Busy /\ Waiting + 1 >= Capacity))
    /\ UNCHANGED <<readerVars, dropped, returned>>

Step(from, to) == pc = from /\ pc' = to

(* mutant: the loop does not ask first *)
AvailableAlways ==
    /\ Step("idle", "get")
    /\ UNCHANGED <<vars, ptr, loadVars, ahead, sizeReg, half, delivered, arrived, raced>>

(* process(): while (available()) ... getNextMessage() *)
Available ==
    /\ m_size > 0
    /\ Step("idle", "get")
    /\ UNCHANGED <<vars, ptr, loadVars, ahead, sizeReg, half, delivered, arrived, raced>>

(* get(): if (m_size > 0) p = &m_buffer[m_tail]._item *)
Locate ==
    /\ IF m_size > 0
       THEN Step("get", "unfull") /\ ptr' = m_tail /\ tailReg' = m_tail /\ headReg' = m_head
       ELSE Step("get", "null") /\ UNCHANGED <<ptr, tailReg, headReg>>
    /\ UNCHANGED <<vars, fullReg, ahead, sizeReg, half, delivered, arrived, raced>>

(* The head, the tail or both are loaded again. *)
Reload ==
    /\ pc \in {"unfull", "advance", "loadFull", "compare", "subtract"}
    /\ headReg' \in {headReg, m_head}
    /\ tailReg' \in {tailReg, m_tail}
    /\ UNCHANGED <<vars, pc, ptr, fullReg, ahead, sizeReg, half, delivered, arrived, raced>>

ClearFull ==
    /\ Step("unfull", "advance")
    /\ m_full' = FALSE
    /\ UNCHANGED <<slots, m_head, m_tail, m_size, statVars, dropped, returned,
                   ptr, loadVars, ahead, sizeReg, half, delivered, arrived, raced>>

Advance ==
    /\ Step("advance", "loadFull")
    /\ m_tail' = Succ(tailReg)
    /\ tailReg' = Succ(tailReg)
    /\ UNCHANGED <<slots, m_head, m_full, m_size, statVars, dropped, returned,
                   ptr, fullReg, headReg, ahead, sizeReg, half, delivered, arrived, raced>>

(* size(): m_full is loaded, or known to be the FALSE just stored *)
LoadFull ==
    /\ Step("loadFull", "compare")
    /\ fullReg' \in {m_full, FALSE}
    /\ UNCHANGED <<vars, ptr, headReg, tailReg, ahead, sizeReg, half, delivered, arrived, raced>>

Compare ==
    /\ Step("compare", "subtract")
    /\ ahead' = (headReg >= tailReg)
    /\ UNCHANGED <<vars, ptr, loadVars, sizeReg, half, delivered, arrived, raced>>

(* uint8_t: the head may have wrapped since the comparison *)
Difference ==
    IF fullReg THEN Capacity
    ELSE (headReg - tailReg + IF ahead THEN 256 ELSE Capacity) % 256

(* mutant: the size is one too small *)
SubtractShort ==
    /\ Step("subtract", "storeSize")
    /\ sizeReg' = IF Difference > 0 THEN Difference - 1 ELSE 0
    /\ UNCHANGED <<vars, ptr, loadVars, ahead, half, delivered, arrived, raced>>

Subtract ==
    /\ Step("subtract", "storeSize")
    /\ sizeReg' = Difference
    /\ UNCHANGED <<vars, ptr, loadVars, ahead, half, delivered, arrived, raced>>

(* size(): m_size = size *)
StoreSize ==
    /\ Step("storeSize", "storeAgain")
    /\ m_size' = sizeReg
    /\ UNCHANGED <<slots, m_head, m_tail, m_full, statVars, dropped, returned,
                   ptr, loadVars, ahead, sizeReg, half, delivered, arrived, raced>>

(* size(): return m_size, loaded again *)
ReloadSize ==
    /\ pc = "storeAgain"
    /\ sizeReg' = m_size
    /\ UNCHANGED <<vars, pc, ptr, loadVars, ahead, half, delivered, arrived, raced>>

(* get(): m_size = size() *)
StoreAgain ==
    /\ Step("storeAgain", "copy")
    /\ m_size' = sizeReg
    /\ m_gets' = Count(m_gets)
    /\ UNCHANGED <<slots, m_head, m_tail, m_full, m_highWaterMark, m_puts, m_overflows,
                   dropped, returned, ptr, loadVars, ahead, sizeReg, half, delivered,
                   arrived, raced>>

(* mutant: the copy starts from where the tail is by now *)
CopyFromTail ==
    /\ Step("copy", "copyRest")
    /\ half' = slots[m_tail]
    /\ UNCHANGED <<vars, ptr, loadVars, ahead, sizeReg, delivered, arrived, raced>>

(* getNextMessage(): return *pFrame, a copy of several words *)
CopyFirst ==
    /\ Step("copy", "copyRest")
    /\ half' = slots[ptr]
    /\ UNCHANGED <<vars, ptr, loadVars, ahead, sizeReg, delivered, arrived, raced>>

CopyRest ==
    /\ Step("copyRest", "idle")
    /\ delivered' = Append(delivered, IF slots[ptr] = half THEN half ELSE Torn)
    /\ UNCHANGED <<vars, ptr, loadVars, ahead, sizeReg, half, arrived, raced>>

Reader ==
    \/ Available \/ Locate \/ ClearFull \/ Advance
    \/ LoadFull \/ Compare \/ Subtract \/ StoreSize \/ StoreAgain
    \/ CopyFirst \/ CopyRest

RxNext == Receive \/ Reload \/ ReloadSize \/ Reader

(* process() is called from loop() for ever; the bus owes nobody a frame. *)
RxSpec == RxInit /\ [][RxNext]_rxVars /\ WF_rxVars(Reader)

-----------------------------------------------------------------------------
(* "should always call ::available first to avoid returning null pointer":  *)
(* that is enough.  However many interrupts fall between the two calls,     *)
(* get() still finds a frame and *pFrame is never a null dereference.       *)
NeverNull == pc # "null"

(* frames the reader has claimed but not yet handed over *)
InHand == IF pc \in {"loadFull", "compare", "subtract", "storeSize", "storeAgain",
                     "copy", "copyRest"}
          THEN 1 ELSE 0

(* Interrupts at any point of get() and of the copy, also of a ring that    *)
(* overflows between two gets, neither tear, repeat nor reorder a frame:    *)
(* each is handed over, in hand, between tail and head, or counted in       *)
(* m_overflows.  A cached size that an interrupt has made wrong, in either  *)
(* direction, never sends the reader to a slot that holds no frame.  All    *)
(* this holds for as long as no interrupt finds the ring full or about to   *)
(* fill while the reader is busy.                                           *)
LossesCounted ==
    ~raced =>
        /\ pc \in {"idle", "get"} /\ m_size > 0 => Waiting > 0
        /\ \A i \in 1 .. Len(delivered) : delivered[i] \in 1 .. arrived - Waiting - InHand
        /\ \A i, j \in 1 .. Len(delivered) : i < j => delivered[i] < delivered[j]
        /\ \A i \in 1 .. Waiting : slots[(m_tail + i - 1) % Capacity] = arrived - Waiting + i
        /\ m_overflows = (arrived - Waiting - InHand - Len(delivered)) % CounterMod

(* Once the traffic has stopped, and unless available() denies it, what is  *)
(* waiting is handed over: no frame the loop has seen is forgotten, however *)
(* wrong the cached size that announced it.                                 *)
QuietDrain ==
    (arrived = MaxFrames /\ pc = "idle" /\ m_size > 0) ~> (pc = "idle" /\ Stored = 0)

=============================================================================
