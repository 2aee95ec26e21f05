----------------------------- MODULE EventTable -----------------------------
(***************************************************************************)
(* The event table of CBUSConfig with the commands of CBUSbase that a node *)
(* in learn mode executes on it.  A slot holds the bytes of an event (node *)
(* number and event number, four bytes in the code) and then its event     *)
(* variables.  A hash table in RAM, one byte per slot, stands for the      *)
(* events when one is looked up: a zero marks a free slot.                 *)
(*                                                                         *)
(* Slots lie one after the other, so a byte beyond the end of a slot is a  *)
(* byte of the next one.                                                   *)
(***************************************************************************)
EXTENDS Naturals, FiniteSets, FiniteSetsExt

CONSTANTS MaxEvents,   \* EE_MAX_EVENTS
          NumEVs,      \* EE_NUM_EVS
          IdBytes,     \* bytes of an event's node and event number
          Byte,        \* the values of a byte of the table
          Erased,      \* 255, a byte of erased flash
          Hash,        \* makeHash()
          Taught,      \* the events a tool may teach
          EvIndices,   \* the event variable numbers it may teach
          EvVals       \* the values it gives them

SlotBytes == IdBytes + NumEVs            \* EE_BYTES_PER_EVENT
Slot == 0 .. MaxEvents - 1
Event == [0 .. IdBytes - 1 -> Byte]
Unused == [b \in 0 .. IdBytes - 1 |-> Erased]

ASSUME TableAssumption ==
    /\ MaxEvents \in 1 .. 255
    /\ NumEVs \in Nat /\ IdBytes \in Nat \ {0}
    /\ Erased \in Byte
    /\ Hash \in [Event -> 1 .. 255]
    /\ Taught \subseteq Event
    /\ EvIndices \subseteq 0 .. 255
    /\ EvVals \subseteq Byte

VARIABLES table,      \* the bytes of every slot, in flash and in its RAM cache
          hash,       \* m_evhashtbl
          collisions, \* m_bHashCollisions
          reply       \* the answer to the last command

vars == <<table, hash, collisions, reply>>

-----------------------------------------------------------------------------
(* readEvent() and getEventEVval() *)
EventAt(t, i) == [b \in 0 .. IdBytes - 1 |-> t[i][b]]
EVal(t, i, k) == t[i][IdBytes - 1 + k]

(* makeEvHashTable() and updateEvHashEntry() for one slot *)
HashOf(e) == IF e = Unused THEN 0 ELSE Hash[e]

(* check_hash_collisions() *)
Collides(h) == \E i, j \in Slot : i # j /\ h[i] = h[j] /\ h[i] # 0

FirstOf(S) == IF S = {} THEN MaxEvents ELSE Min(S)

(* findExistingEvent(): the stored event is compared only for the slot the  *)
(* hash points to, unless collisions have been seen                         *)
SameHash(e) == {i \in Slot : hash[i] = Hash[e]}
(* mutant: only the first slot with the hash is compared *)
FindFirstOnly(e) ==
    LET i == FirstOf(SameHash(e))
    IN  IF i \in Slot /\ EventAt(table, i) = e THEN i ELSE MaxEvents

FindExisting(e) ==
    LET holders == {i \in Slot : EventAt(table, i) = e}
        scanAll == collisions /\ Cardinality(SameHash(e)) > 1
    IN  IF scanAll
        THEN FirstOf(SameHash(e) \cap holders)
        ELSE LET i == FirstOf(SameHash(e))
             IN  IF i \in holders THEN i ELSE MaxEvents

FindSpace == FirstOf({i \in Slot : hash[i] = 0})

(* numEvents() and the free slots counted by doNnevn() *)
NumEvents == Cardinality({i \in Slot : hash[i] # 0})

WriteEvent(t, i, e) ==
    [t EXCEPT ![i] = [b \in 0 .. SlotBytes - 1 |-> IF b < IdBytes THEN e[b] ELSE @[b]]]

(* a write at offset b of slot i; what lies after the table is not modelled *)
WriteByte(t, i, b, v) ==
    LET s == i + b \div SlotBytes
    IN  IF s \in Slot THEN [t EXCEPT ![s][b % SlotBytes] = v] ELSE t

(* mutant: event variables taken to be numbered from zero *)
WriteEVFromZero(t, i, k, v) == WriteByte(t, i, IdBytes + k, v)

WriteEV(t, i, k, v) == WriteByte(t, i, IdBytes - 1 + k, v)

(* mutant: the flag is set but never reset *)
UpdateHashSticky(i) ==
    /\ hash' = [hash EXCEPT ![i] = HashOf(EventAt(table', i))]
    /\ collisions' = (collisions \/ Collides(hash'))

UpdateHash(i) ==
    /\ hash' = [hash EXCEPT ![i] = HashOf(EventAt(table', i))]
    /\ collisions' = Collides(hash')

(* mutant: the loop runs one slot too far *)
MakeHashTableBeyond ==
    /\ hash' = [i \in 0 .. MaxEvents |-> IF i \in Slot THEN HashOf(EventAt(table', i)) ELSE 0]
    /\ collisions' = Collides(hash')

MakeHashTable ==
    /\ hash' = [i \in Slot |-> HashOf(EventAt(table', i))]
    /\ collisions' = Collides(hash')

-----------------------------------------------------------------------------
(* a module out of the factory: erased flash *)
Init ==
    /\ table = [i \in Slot |-> [b \in 0 .. SlotBytes - 1 |-> Erased]]
    /\ hash = [i \in Slot |-> 0]
    /\ collisions = FALSE
    /\ reply = "none"

(* mutant: a known event is not looked for *)
LearnNewSlot(e) == FindSpace

(* where doEvlrn() puts the event: its slot, or else a free one *)
LearnSlot(e) == IF FindExisting(e) \in Slot THEN FindExisting(e) ELSE FindSpace

LearnRefused(e, k) == k = 0 \/ LearnSlot(e) \notin Slot

(* doEvlrn(): only the first event variable writes the event itself *)
Evlrn(e, k, v) ==
    \/ /\ LearnRefused(e, k)
       /\ reply' = "CMDERR"
       /\ UNCHANGED <<table, hash, collisions>>
    \/ /\ ~LearnRefused(e, k)
       /\ LET i == LearnSlot(e)
              t == IF k < 2 THEN WriteEvent(table, i, e) ELSE table
          IN  table' = WriteEV(t, i, k, v) /\ UpdateHash(i)
       /\ reply' = "WRACK"

(* power is lost after writeEvent() and before writeEventEV(); begin() then *)
(* rebuilds the hash table                                                  *)
EvlrnCut(e) ==
    /\ ~LearnRefused(e, 1)
    /\ table' = WriteEvent(table, LearnSlot(e), e)
    /\ MakeHashTable
    /\ reply' = "none"

(* mutant: the hash of the freed slot stays *)
EvulnKeepsHash(e) ==
    /\ FindExisting(e) \in Slot
    /\ table' = WriteEvent(table, FindExisting(e), Unused)
    /\ UNCHANGED <<hash, collisions, reply>>

(* doEvuln(): neither found nor not found is answered *)
Evuln(e) ==
    /\ FindExisting(e) \in Slot
    /\ table' = WriteEvent(table, FindExisting(e), Unused)
    /\ UpdateHash(FindExisting(e))
    /\ UNCHANGED reply

(* mutant: the events go, their hashes stay *)
NnclrKeepsHash ==
    /\ table' = [i \in Slot |-> WriteEvent(table, i, Unused)[i]]
    /\ reply' = "WRACK"
    /\ UNCHANGED <<hash, collisions>>

(* doNnclr() in learn mode *)
Nnclr ==
    /\ table' = [i \in Slot |-> WriteEvent(table, i, Unused)[i]]
    /\ hash' = [i \in Slot |-> 0]
    /\ collisions' = FALSE
    /\ reply' = "WRACK"

(* the module restarts *)
Begin ==
    /\ UNCHANGED table
    /\ MakeHashTable
    /\ reply' = "none"

Next ==
    \/ \E e \in Taught :
          \/ \E k \in EvIndices, v \in EvVals : Evlrn(e, k, v)
          \/ EvlrnCut(e)
          \/ Evuln(e)
    \/ Nnclr
    \/ Begin

Spec == Init /\ [][Next]_vars

-----------------------------------------------------------------------------
TypeOK ==
    /\ table \in [Slot -> [0 .. SlotBytes - 1 -> Byte]]
    /\ hash \in [Slot -> 0 .. 255]
    /\ collisions \in BOOLEAN
    /\ reply \in {"none", "WRACK", "CMDERR"}

Stored(i) == EventAt(table, i) # Unused

(* "zero in the hash table indicates that the corresponding event slot is   *)
(* free": the hash in RAM is the hash of what the slot holds, through every *)
(* order of learning, unlearning, clearing, power loss and restart.         *)
HashCoherent == \A i \in Slot : hash[i] = HashOf(EventAt(table, i))

(* The short cut of findExistingEvent(), which trusts the first slot with   *)
(* the right hash, is sound only if this flag is exact.                     *)
CollisionsExact == collisions = Collides([i \in Slot |-> HashOf(EventAt(table, i))])

(* No event is stored in two slots, whatever slots were freed and reused.   *)
EventsUnique ==
    \A i, j \in Slot : Stored(i) /\ EventAt(table, i) = EventAt(table, j) => i = j

(* The lookup by hash answers what comparing every slot would answer, for   *)
(* every event on the bus.                                                  *)
LookupCorrect ==
    \A e \in Event \ {Unused} :
        FindExisting(e) = FirstOf({i \in Slot : EventAt(table, i) = e})

(* NUMEV and EVNLF, computed from the hashes, count the events stored.      *)
CountExact == NumEvents = Cardinality({EventAt(table, i) : i \in {j \in Slot : Stored(j)}})

-----------------------------------------------------------------------------
(* The table implements the map of known events. *)
EVs == [1 .. NumEVs -> Byte]
SlotOf(e) == CHOOSE i \in Slot : EventAt(table, i) = e
KnownEvents == {EventAt(table, i) : i \in {j \in Slot : Stored(j)}}
Known == [e \in KnownEvents |-> [k \in 1 .. NumEVs |-> EVal(table, SlotOf(e), k)]]

Map == INSTANCE LearnMap WITH known <- Known, Event <- Taught
MapSpec == Map!MapSpec
=============================================================================
