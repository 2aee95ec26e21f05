-------------------------- MODULE EventTable_proofs --------------------------
(***************************************************************************)
(* For tables of every size, event variables of every number and every     *)
(* hash function that avoids zero: as long as tools teach only the event   *)
(* variables a slot has, the hash table describes the slots, the collision *)
(* flag is exact, no event is stored twice, the lookup by hash answers     *)
(* what a search of the whole table would, and the table is the map of     *)
(* known events.                                                           *)
(***************************************************************************)
EXTENDS EventTable, FiniteSetTheorems, WellFoundedInduction, TLAPS

(* What the code leaves to the tool. *)
InRange == EvIndices \subseteq 0 .. NumEVs

LEMMA Constants ==
    /\ MaxEvents \in Nat \ {0} /\ NumEVs \in Nat /\ IdBytes \in Nat \ {0}
    /\ SlotBytes \in Nat \ {0} /\ IdBytes <= SlotBytes
    /\ \A i \in Slot : i \in Nat /\ i < MaxEvents
    /\ MaxEvents \notin Slot
    /\ \A b \in 0 .. IdBytes - 1 : b \in 0 .. SlotBytes - 1 /\ b < IdBytes
    /\ Unused \in Event
    /\ \A e \in Event : Hash[e] \in 1 .. 255 /\ HashOf(e) \in 0 .. 255 /\ Hash[e] # 0
    /\ \A e \in Event : HashOf(e) = 0 <=> e = Unused
<1>1. /\ MaxEvents \in Nat \ {0} /\ NumEVs \in Nat /\ IdBytes \in Nat \ {0}
      /\ SlotBytes \in Nat \ {0} /\ IdBytes <= SlotBytes
  BY TableAssumption DEF SlotBytes
<1>2. \A i \in Slot : i \in Nat /\ i < MaxEvents
  BY <1>1 DEF Slot
<1>3. MaxEvents \notin Slot
  BY <1>1 DEF Slot
<1>4. \A b \in 0 .. IdBytes - 1 : b \in 0 .. SlotBytes - 1 /\ b < IdBytes
  BY <1>1
<1>5. Unused \in Event
  BY TableAssumption DEF Unused, Event
<1>6. ASSUME NEW e \in Event
      PROVE  Hash[e] \in 1 .. 255
  BY TableAssumption
<1>7. \A e \in Event : Hash[e] \in 1 .. 255 /\ HashOf(e) \in 0 .. 255 /\ Hash[e] # 0
  BY <1>6 DEF HashOf
<1>8. \A e \in Event : HashOf(e) = 0 <=> e = Unused
  BY <1>7 DEF HashOf
<1> QED
  BY <1>1, <1>2, <1>3, <1>4, <1>5, <1>7, <1>8

(* A nonempty set of slots has a first one, and FirstOf() is it. *)
LEMMA FirstOfIs ==
    ASSUME NEW S \in SUBSET Slot
    PROVE  /\ S = {} => FirstOf(S) = MaxEvents
           /\ S # {} => FirstOf(S) \in S
           /\ FirstOf(S) \in Slot <=> S # {}
<1>1. S = {} => FirstOf(S) = MaxEvents
  BY DEF FirstOf
<1>2. ASSUME S # {} PROVE FirstOf(S) \in S
  <2>1. S \subseteq Nat
    BY Constants
  <2> DEFINE R == OpToRel(<, Nat)
  <2>a. IsWellFoundedOn(R, Nat)
    BY NatLessThanWellFounded
  <2> HIDE DEF R
  <2>b. \E x \in S : \A y \in S : ~(<<y, x>> \in R)
    BY <1>2, <2>1, <2>a, WFMin
  <2>2. \E x \in S : \A y \in S : <<y, x>> \notin OpToRel(<, Nat)
    BY <2>b DEF R
  <2>3. PICK x \in S : \A y \in S : <<y, x>> \notin OpToRel(<, Nat)
    BY <2>2
  <2>4. ASSUME NEW y \in S PROVE x =< y
    <3>1. x \in Nat /\ y \in Nat
      BY <2>1
    <3>2. <<y, x>> \in Nat \X Nat
      BY <3>1
    <3>3. y < x => <<y, x>> \in OpToRel(<, Nat)
      BY <3>2 DEF OpToRel
    <3>4. ~(y < x)
      BY <2>3, <3>3, Zenon
    <3> QED
      BY <3>1, <3>4
  <2> QED
    BY <1>2, <2>4 DEF FirstOf, Min
<1> QED
  BY <1>1, <1>2, Constants

(* Two slots with one hash are counted as two. *)
LEMMA AtMostOne ==
    ASSUME NEW S \in SUBSET Slot, ~(Cardinality(S) > 1), NEW i \in S, NEW j \in S
    PROVE  i = j
<1> SUFFICES ASSUME i # j PROVE FALSE
  OBVIOUS
<1>1. IsFiniteSet(Slot)
  BY Constants, FS_Interval DEF Slot
<1>2. IsFiniteSet(S) /\ Cardinality(S) \in Nat
  <2>1. IsFiniteSet(S)
    BY <1>1, FS_Subset
  <2> QED
    BY <2>1, FS_CardinalityType
<1>3. IsFiniteSet({i}) /\ Cardinality({i}) = 1
  BY FS_Singleton
<1>4. Cardinality({i} \cup {j}) = 2
  <2>1. j \notin {i}
    OBVIOUS
  <2>2. Cardinality({i} \cup {j}) = IF j \in {i} THEN Cardinality({i}) ELSE Cardinality({i}) + 1
    BY <1>3, FS_AddElement, Zenon
  <2> QED
    BY <1>3, <2>1, <2>2
<1>5. {i} \cup {j} \in SUBSET S
  OBVIOUS
<1>6. Cardinality({i} \cup {j}) <= Cardinality(S)
  BY <1>2, <1>5, FS_Subset
<1> QED
  BY <1>2, <1>4, <1>6

(* What a slot holds is an event. *)
LEMMA EventAtType ==
    ASSUME NEW t \in [Slot -> [0 .. SlotBytes - 1 -> Byte]], NEW i \in Slot
    PROVE  EventAt(t, i) \in Event
BY Constants DEF EventAt, Event

(* Writing an event changes one slot, and there only the event itself. *)
LEMMA WriteEventIs ==
    ASSUME NEW t \in [Slot -> [0 .. SlotBytes - 1 -> Byte]], NEW i \in Slot, NEW e \in Event
    PROVE  /\ WriteEvent(t, i, e) \in [Slot -> [0 .. SlotBytes - 1 -> Byte]]
           /\ EventAt(WriteEvent(t, i, e), i) = e
           /\ \A j \in Slot : j # i => EventAt(WriteEvent(t, i, e), j) = EventAt(t, j)
<1> DEFINE w == WriteEvent(t, i, e)
           row == [b \in 0 .. SlotBytes - 1 |-> IF b < IdBytes THEN e[b] ELSE t[i][b]]
<1>1. w = [t EXCEPT ![i] = row]
  BY DEF WriteEvent
<1>2. row \in [0 .. SlotBytes - 1 -> Byte]
  <2>1. ASSUME NEW b \in 0 .. SlotBytes - 1
        PROVE  (IF b < IdBytes THEN e[b] ELSE t[i][b]) \in Byte
    <3>1. b < IdBytes => b \in 0 .. IdBytes - 1
      BY Constants
    <3> QED
      BY <3>1 DEF Event
  <2> QED
    BY <2>1
<1>3. w \in [Slot -> [0 .. SlotBytes - 1 -> Byte]] /\ w[i] = row
  BY <1>1, <1>2
<1>4. \A j \in Slot : j # i => w[j] = t[j]
  BY <1>1
<1>5. EventAt(w, i) = e
  <2>1. ASSUME NEW b \in 0 .. IdBytes - 1 PROVE w[i][b] = e[b]
    BY <1>3, Constants
  <2>2. e = [b \in 0 .. IdBytes - 1 |-> e[b]]
    BY DEF Event
  <2> QED
    BY <2>1, <2>2 DEF EventAt
<1> HIDE DEF w
<1>6. \A j \in Slot : j # i => EventAt(w, j) = EventAt(t, j)
  BY <1>4 DEF EventAt
<1> QED
  BY <1>3, <1>5, <1>6 DEF w

(* An event variable the slot has lies in the slot, after the event. *)
LEMMA WriteEVIs ==
    ASSUME NEW t \in [Slot -> [0 .. SlotBytes - 1 -> Byte]], NEW i \in Slot,
           NEW k \in 1 .. NumEVs, NEW v \in Byte
    PROVE  /\ WriteEV(t, i, k, v) \in [Slot -> [0 .. SlotBytes - 1 -> Byte]]
           /\ \A j \in Slot : EventAt(WriteEV(t, i, k, v), j) = EventAt(t, j)
<1> DEFINE b == IdBytes - 1 + k
<1>1. b \in IdBytes .. SlotBytes - 1 /\ b \in 0 .. SlotBytes - 1
  BY Constants DEF SlotBytes
<1>2. b \div SlotBytes = 0 /\ b % SlotBytes = b
  <2>1. ASSUME NEW n \in Nat \ {0}, NEW m \in 0 .. n - 1
        PROVE  m \div n = 0 /\ m % n = m
    OBVIOUS
  <2> HIDE DEF b
  <2> QED
    BY <1>1, <2>1, Constants
<1>3. i + b \div SlotBytes = i
  BY <1>2, Constants
<1> DEFINE w == [t EXCEPT ![i][b] = v]
<1>4. WriteEV(t, i, k, v) = w
  BY <1>2, <1>3 DEF WriteEV, WriteByte
<1> HIDE DEF b
<1>5. w \in [Slot -> [0 .. SlotBytes - 1 -> Byte]]
  BY <1>1
<1>6. ASSUME NEW j \in Slot, NEW c \in 0 .. IdBytes - 1
      PROVE  w[j][c] = t[j][c]
  BY <1>1, Constants
<1> HIDE DEF w
<1>7. \A j \in Slot : EventAt(w, j) = EventAt(t, j)
  BY <1>6 DEF EventAt
<1> QED
  BY <1>4, <1>5, <1>7

(* If the flag is exact, a hash held twice shows in it. *)
LEMMA OneHolder ==
    ASSUME TypeOK, HashCoherent, CollisionsExact, ~collisions,
           NEW i \in Slot, NEW j \in Slot, hash[i] = hash[j], hash[i] # 0
    PROVE  i = j
<1>1. ~Collides([n \in Slot |-> HashOf(EventAt(table, n))])
  BY DEF CollisionsExact
<1>2. hash[i] = HashOf(EventAt(table, i)) /\ hash[j] = HashOf(EventAt(table, j))
  BY DEF HashCoherent
<1> QED
  BY <1>1, <1>2 DEF Collides

(* The lookup finds the slot that holds the event, or no slot. *)
Consistent == TypeOK /\ HashCoherent /\ CollisionsExact

LEMMA FindExistingIs ==
    ASSUME Consistent, NEW e \in Event
    PROVE  /\ FindExisting(e) \in Slot => EventAt(table, FindExisting(e)) = e
           /\ e # Unused =>
                 FindExisting(e) = FirstOf({i \in Slot : EventAt(table, i) = e})
<1> DEFINE holders == {i \in Slot : EventAt(table, i) = e}
           same == SameHash(e)
           scanAll == collisions /\ Cardinality(same) > 1
           first == FirstOf(same)
<1>1. FindExisting(e) = IF scanAll THEN FirstOf(same \cap holders)
                        ELSE IF first \in holders THEN first ELSE MaxEvents
  BY DEF FindExisting
<1>2. same \in SUBSET Slot /\ holders \in SUBSET Slot /\ same \cap holders \in SUBSET Slot
  BY DEF SameHash
<1>3. e # Unused => holders \subseteq same
  <2>1. SUFFICES ASSUME e # Unused, NEW i \in holders PROVE hash[i] = Hash[e]
    BY DEF SameHash
  <2>2. hash[i] = HashOf(e)
    BY DEF Consistent, HashCoherent
  <2> QED
    BY <2>1, <2>2 DEF HashOf
<1>4. ASSUME ~scanAll, NEW i \in same, NEW j \in same PROVE i = j
  <2>1. CASE ~(Cardinality(same) > 1)
    BY <1>2, <2>1, AtMostOne
  <2>2. CASE ~collisions
    BY <1>2, <2>2, OneHolder, Constants DEF Consistent, SameHash
  <2> QED
    BY <1>4, <2>1, <2>2
<1>5. FirstOf(same \cap holders) \in Slot => FirstOf(same \cap holders) \in holders
  BY <1>2, FirstOfIs
<1>6. first \in Slot => first \in same
  BY <1>2, FirstOfIs
<1>7. FirstOf(holders) \in Slot <=> holders # {}
  BY <1>2, FirstOfIs
<1>8. holders = {} => FirstOf(holders) = MaxEvents
  BY <1>2, FirstOfIs
<1>9. holders # {} => FirstOf(holders) \in holders
  BY <1>2, FirstOfIs
<1>10. same # {} => first \in same
  BY <1>2, FirstOfIs
<1> HIDE DEF holders, same, scanAll, first
<1>11. FindExisting(e) \in Slot => FindExisting(e) \in holders
  BY <1>1, <1>5, Constants
<1>12. ASSUME e # Unused PROVE FindExisting(e) = FirstOf(holders)
  <2>1. CASE scanAll
    <3>1. same \cap holders = holders
      BY <1>3, <1>12
    <3> QED
      BY <1>1, <2>1, <3>1
  <2>2. CASE ~scanAll /\ holders = {}
    BY <1>1, <1>8, <2>2
  <2>3. CASE ~scanAll /\ holders # {}
    <3>1. FirstOf(holders) \in same /\ first \in same
      BY <1>3, <1>9, <1>10, <1>12, <2>3
    <3>2. FirstOf(holders) = first
      BY <1>4, <2>3, <3>1
    <3> QED
      BY <1>1, <1>9, <2>3, <3>2
  <2> QED
    BY <2>1, <2>2, <2>3
<1> QED
  BY <1>11, <1>12 DEF holders

-----------------------------------------------------------------------------
(* EventsUnique needs the lookup to be right, which needs the hash table    *)
(* and the flag to be right, which needs the types.                         *)
IInv == Consistent /\ EventsUnique

(* A slot given to an event is the only one that may hold it already. *)
LEMMA LearnSlotIs ==
    ASSUME IInv, NEW e \in Event, LearnSlot(e) \in Slot
    PROVE  \A j \in Slot : e # Unused /\ EventAt(table, j) = e => j = LearnSlot(e)
<1> SUFFICES ASSUME NEW j \in Slot, e # Unused, EventAt(table, j) = e
             PROVE  j = LearnSlot(e)
  OBVIOUS
<1>1. FindExisting(e) = FirstOf({i \in Slot : EventAt(table, i) = e})
  BY FindExistingIs DEF IInv
<1>2. j \in {i \in Slot : EventAt(table, i) = e}
  OBVIOUS
<1>3. FindExisting(e) \in Slot
  <2>1. {i \in Slot : EventAt(table, i) = e} \in SUBSET Slot
    OBVIOUS
  <2> QED
    BY <1>1, <1>2, <2>1, FirstOfIs
<1>4. EventAt(table, FindExisting(e)) = e
  BY <1>3, FindExistingIs DEF IInv
<1> QED
  BY <1>3, <1>4 DEF IInv, EventsUnique, Stored, LearnSlot

(* The hash entry of a written slot is refreshed, the others are still right. *)
LEMMA RefreshInv ==
    ASSUME Consistent, NEW i \in Slot, UpdateHash(i),
           table' \in [Slot -> [0 .. SlotBytes - 1 -> Byte]],
           reply' \in {"none", "WRACK", "CMDERR"},
           \A j \in Slot : j # i => EventAt(table', j) = EventAt(table, j)
    PROVE  Consistent'
<1>1. HashOf(EventAt(table', i)) \in 0 .. 255
  BY EventAtType, Constants
<1>2. hash' \in [Slot -> 0 .. 255]
  BY <1>1 DEF UpdateHash, Consistent, TypeOK
<1>3. TypeOK'
  BY <1>2 DEF TypeOK, UpdateHash, Collides
<1>4. ASSUME NEW j \in Slot PROVE hash'[j] = HashOf(EventAt(table', j))
  BY DEF UpdateHash, Consistent, HashCoherent, TypeOK
<1>5. hash' = [j \in Slot |-> HashOf(EventAt(table', j))]
  BY <1>2, <1>4
<1>6. HashCoherent' /\ CollisionsExact'
  BY <1>4, <1>5 DEF HashCoherent, CollisionsExact, UpdateHash
<1> QED
  BY <1>3, <1>6 DEF Consistent

(* The table built from scratch is right whatever the slots hold. *)
LEMMA RebuildInv ==
    ASSUME MakeHashTable,
           table' \in [Slot -> [0 .. SlotBytes - 1 -> Byte]],
           reply' \in {"none", "WRACK", "CMDERR"}
    PROVE  Consistent'
<1>1. \A j \in Slot : HashOf(EventAt(table', j)) \in 0 .. 255
  BY EventAtType, Constants
<1>2. TypeOK'
  BY <1>1 DEF TypeOK, MakeHashTable, Collides
<1>3. HashCoherent' /\ CollisionsExact'
  BY DEF HashCoherent, CollisionsExact, MakeHashTable
<1> QED
  BY <1>2, <1>3 DEF Consistent

(* Storing an event where alone it may be leaves no event stored twice. *)
LEMMA UniqueInv ==
    ASSUME EventsUnique, NEW i \in Slot, NEW e \in Event,
           EventAt(table', i) = e,
           \A j \in Slot : j # i => EventAt(table', j) = EventAt(table, j),
           \A j \in Slot : e # Unused /\ EventAt(table, j) = e => j = i
    PROVE  EventsUnique'
BY DEF EventsUnique, Stored

LEMMA EvlrnInv ==
    ASSUME IInv, NEW e \in Event, NEW k \in 0 .. NumEVs, NEW v \in Byte, Evlrn(e, k, v)
    PROVE  IInv'
<1>1. CASE LearnRefused(e, k) /\ reply' = "CMDERR" /\ UNCHANGED <<table, hash, collisions>>
  BY <1>1 DEF IInv, Consistent, TypeOK, HashCoherent, CollisionsExact, EventsUnique, Stored
<1>2. CASE ~LearnRefused(e, k)
  <2> DEFINE i == LearnSlot(e)
             t == IF k < 2 THEN WriteEvent(table, i, e) ELSE table
  <2>1. i \in Slot /\ k \in 1 .. NumEVs
    BY <1>2 DEF LearnRefused
  <2>2. table' = WriteEV(t, i, k, v) /\ UpdateHash(i) /\ reply' = "WRACK"
    BY <1>2 DEF Evlrn
  <2>3. \A j \in Slot : e # Unused /\ EventAt(table, j) = e => j = i
    BY <2>1, LearnSlotIs
  <2>4. table \in [Slot -> [0 .. SlotBytes - 1 -> Byte]]
    BY DEF IInv, Consistent, TypeOK
  <2> HIDE DEF i
  <2>5. /\ t \in [Slot -> [0 .. SlotBytes - 1 -> Byte]]
        /\ EventAt(t, i) \in {e, EventAt(table, i)}
        /\ \A j \in Slot : j # i => EventAt(t, j) = EventAt(table, j)
    BY <2>1, <2>4, WriteEventIs
  <2>6. EventAt(t, i) = EventAt(table, i) \/ EventAt(t, i) = e
    BY <2>5
  <2> HIDE DEF t
  <2>7. /\ table' \in [Slot -> [0 .. SlotBytes - 1 -> Byte]]
        /\ \A j \in Slot : EventAt(table', j) = EventAt(t, j)
    BY <2>1, <2>2, <2>5, WriteEVIs
  <2>8. \A j \in Slot : j # i => EventAt(table', j) = EventAt(table, j)
    BY <2>5, <2>7
  <2>9. Consistent'
    BY <2>1, <2>2, <2>7, <2>8, RefreshInv DEF IInv
  <2>10. EventsUnique'
    <3>1. CASE EventAt(t, i) = e
      BY <2>1, <2>3, <2>7, <2>8, <3>1, UniqueInv DEF IInv
    <3>2. CASE EventAt(t, i) = EventAt(table, i)
      BY <2>1, <2>7, <2>8, <3>2 DEF IInv, EventsUnique, Stored
    <3> QED
      BY <2>6, <3>1, <3>2
  <2> QED
    BY <2>9, <2>10 DEF IInv
<1> QED
  BY <1>1, <1>2 DEF Evlrn

LEMMA EvlrnCutInv ==
    ASSUME IInv, NEW e \in Event, EvlrnCut(e)
    PROVE  IInv'
<1>1. LearnSlot(e) \in Slot
  BY DEF EvlrnCut, LearnRefused
<1>2. table' = WriteEvent(table, LearnSlot(e), e)
  BY DEF EvlrnCut
<1>3. /\ table' \in [Slot -> [0 .. SlotBytes - 1 -> Byte]]
      /\ EventAt(table', LearnSlot(e)) = e
      /\ \A j \in Slot : j # LearnSlot(e) => EventAt(table', j) = EventAt(table, j)
  BY <1>1, <1>2, WriteEventIs DEF IInv, Consistent, TypeOK
<1>4. Consistent'
  BY <1>3, RebuildInv DEF EvlrnCut
<1>5. EventsUnique'
  BY <1>1, <1>3, LearnSlotIs, UniqueInv DEF IInv
<1> QED
  BY <1>4, <1>5 DEF IInv

LEMMA EvulnInv ==
    ASSUME IInv, NEW e \in Event, Evuln(e)
    PROVE  IInv'
<1> DEFINE i == FindExisting(e)
<1>1. i \in Slot /\ table' = WriteEvent(table, i, Unused) /\ UpdateHash(i) /\ reply' = reply
  BY DEF Evuln
<1> HIDE DEF i
<1>2. /\ table' \in [Slot -> [0 .. SlotBytes - 1 -> Byte]]
      /\ EventAt(table', i) = Unused
      /\ \A j \in Slot : j # i => EventAt(table', j) = EventAt(table, j)
  BY <1>1, WriteEventIs, Constants DEF IInv, Consistent, TypeOK
<1>3. reply' \in {"none", "WRACK", "CMDERR"}
  BY <1>1 DEF IInv, Consistent, TypeOK
<1>4. Consistent'
  BY <1>1, <1>2, <1>3, RefreshInv DEF IInv
<1>5. EventsUnique'
  BY <1>1, <1>2, Constants, UniqueInv DEF IInv
<1> QED
  BY <1>4, <1>5 DEF IInv

LEMMA NnclrInv ==
    ASSUME IInv, Nnclr
    PROVE  IInv'
<1>1. ASSUME NEW i \in Slot
      PROVE  /\ table'[i] \in [0 .. SlotBytes - 1 -> Byte]
             /\ EventAt(table', i) = Unused
  <2>1. table'[i] = WriteEvent(table, i, Unused)[i]
    BY DEF Nnclr
  <2>2. /\ WriteEvent(table, i, Unused) \in [Slot -> [0 .. SlotBytes - 1 -> Byte]]
        /\ EventAt(WriteEvent(table, i, Unused), i) = Unused
    BY WriteEventIs, Constants DEF IInv, Consistent, TypeOK
  <2> QED
    BY <2>1, <2>2 DEF EventAt
<1>2. table' \in [Slot -> [0 .. SlotBytes - 1 -> Byte]]
  BY <1>1 DEF Nnclr
<1>3. hash' = [i \in Slot |-> 0] /\ collisions' = FALSE /\ reply' = "WRACK"
  BY DEF Nnclr
<1>4. \A i \in Slot : HashOf(EventAt(table', i)) = 0
  BY <1>1 DEF HashOf
<1>5. TypeOK'
  <2>1. 0 \in 0 .. 255
    OBVIOUS
  <2>2. hash' \in [Slot -> 0 .. 255]
    BY <1>3, <2>1
  <2> QED
    BY <1>2, <1>3, <2>2 DEF TypeOK
<1>6. HashCoherent'
  BY <1>3, <1>4 DEF HashCoherent
<1>7. CollisionsExact'
  BY <1>3, <1>4 DEF CollisionsExact, Collides
<1>8. EventsUnique'
  BY <1>1 DEF EventsUnique, Stored
<1> QED
  BY <1>5, <1>6, <1>7, <1>8 DEF IInv, Consistent

LEMMA Inductive ==
    ASSUME InRange
    PROVE  IInv /\ [Next]_vars => IInv'
<1> SUFFICES ASSUME IInv, [Next]_vars PROVE IInv'
  OBVIOUS
<1>1. ASSUME NEW e \in Taught, NEW k \in EvIndices, NEW v \in EvVals, Evlrn(e, k, v)
      PROVE  IInv'
  <2>1. e \in Event /\ k \in 0 .. NumEVs /\ v \in Byte
    BY TableAssumption DEF InRange
  <2> QED
    BY <1>1, <2>1, EvlrnInv
<1>2. ASSUME NEW e \in Taught, EvlrnCut(e) PROVE IInv'
  BY <1>2, TableAssumption, EvlrnCutInv
<1>3. ASSUME NEW e \in Taught, Evuln(e) PROVE IInv'
  BY <1>3, TableAssumption, EvulnInv
<1>4. CASE Nnclr
  BY <1>4, NnclrInv
<1>5. CASE Begin
  <2>1. Consistent'
    BY <1>5, RebuildInv DEF Begin, IInv, Consistent, TypeOK
  <2>2. EventsUnique'
    BY <1>5 DEF Begin, IInv, EventsUnique, Stored
  <2> QED
    BY <2>1, <2>2 DEF IInv
<1>6. CASE UNCHANGED vars
  BY <1>6 DEF vars, IInv, Consistent, TypeOK, HashCoherent, CollisionsExact, EventsUnique, Stored
<1> QED
  BY <1>1, <1>2, <1>3, <1>4, <1>5, <1>6 DEF Next

LEMMA Initial == Init => IInv
<1> SUFFICES ASSUME Init PROVE IInv
  OBVIOUS
<1>1. \A i \in Slot : EventAt(table, i) = Unused
  BY Constants DEF Init, EventAt, Unused
<1>2. TypeOK
  <2>1. 0 \in 0 .. 255
    OBVIOUS
  <2>2. hash \in [Slot -> 0 .. 255]
    BY <2>1 DEF Init
  <2> QED
    BY <2>2, TableAssumption DEF Init, TypeOK
<1>3. HashCoherent
  BY <1>1 DEF Init, HashCoherent, HashOf
<1>4. CollisionsExact
  BY <1>1 DEF Init, CollisionsExact, Collides, HashOf
<1>5. EventsUnique
  BY <1>1 DEF EventsUnique, Stored
<1> QED
  BY <1>2, <1>3, <1>4, <1>5 DEF IInv, Consistent

-----------------------------------------------------------------------------
(* Every byte the commands write stays within the table and its types. *)
THEOREM TypeCorrect == ASSUME InRange PROVE Spec => []TypeOK
<1>1. IInv => TypeOK
  BY DEF IInv, Consistent
<1>2. IInv /\ [Next]_vars => IInv'
  BY Inductive
<1> QED
  BY <1>1, <1>2, Initial, PTL DEF Spec

(* The hash table in RAM describes the slots after every history of         *)
(* learning, unlearning, clearing, power loss and restart.                  *)
THEOREM HashIsCoherent == ASSUME InRange PROVE Spec => []HashCoherent
<1>1. IInv => HashCoherent
  BY DEF IInv, Consistent
<1>2. IInv /\ [Next]_vars => IInv'
  BY Inductive
<1> QED
  BY <1>1, <1>2, Initial, PTL DEF Spec

(* The collision flag, on which the short cut of the lookup relies, is exact. *)
THEOREM FlagIsExact == ASSUME InRange PROVE Spec => []CollisionsExact
<1>1. IInv => CollisionsExact
  BY DEF IInv, Consistent
<1>2. IInv /\ [Next]_vars => IInv'
  BY Inductive
<1> QED
  BY <1>1, <1>2, Initial, PTL DEF Spec

(* No event is ever stored in two slots. *)
THEOREM NoDuplicates == ASSUME InRange PROVE Spec => []EventsUnique
<1>1. IInv => EventsUnique
  BY DEF IInv
<1>2. IInv /\ [Next]_vars => IInv'
  BY Inductive
<1> QED
  BY <1>1, <1>2, Initial, PTL DEF Spec

(* For every event on the bus the lookup by hash, short cut included,       *)
(* answers what a comparison with every slot would answer.                  *)
THEOREM LookupIsCorrect == ASSUME InRange PROVE Spec => []LookupCorrect
<1>1. IInv => LookupCorrect
  BY FindExistingIs DEF IInv, LookupCorrect
<1>2. IInv /\ [Next]_vars => IInv'
  BY Inductive
<1> QED
  BY <1>1, <1>2, Initial, PTL DEF Spec

(* The number of slots with a hash is the number of events stored: the      *)
(* slots in use and the events are in bijection.                            *)
LEMMA CountFollows ==
    ASSUME IInv PROVE CountExact
<1> DEFINE used == {j \in Slot : Stored(j)}
           events == {EventAt(table, i) : i \in used}
           F == [i \in used |-> EventAt(table, i)]
<1>1. {i \in Slot : hash[i] # 0} = used
  <2>1. \A i \in Slot : hash[i] # 0 <=> EventAt(table, i) # Unused
    <3> SUFFICES ASSUME NEW i \in Slot PROVE hash[i] # 0 <=> EventAt(table, i) # Unused
      OBVIOUS
    <3>1. EventAt(table, i) \in Event
      BY EventAtType DEF IInv, Consistent, TypeOK
    <3>2. Hash[EventAt(table, i)] \in 1 .. 255
      BY <3>1, TableAssumption
    <3>3. hash[i] = HashOf(EventAt(table, i))
      BY DEF IInv, Consistent, HashCoherent
    <3> QED
      BY <3>2, <3>3 DEF HashOf
  <2> QED
    BY <2>1 DEF Stored
<1>2. IsFiniteSet(used)
  <2>1. IsFiniteSet(Slot)
    BY FS_Interval, Constants DEF Slot
  <2> QED
    BY <2>1, FS_Subset
<1>3. F \in Bijection(used, events)
  <2>1. F \in [used -> events]
    OBVIOUS
  <2>2. \A a, b \in used : F[a] = F[b] => a = b
    BY DEF IInv, EventsUnique
  <2>3. \A t \in events : \E s \in used : F[s] = t
    OBVIOUS
  <2> HIDE DEF used, events, F
  <2> QED
    BY <2>1, <2>2, <2>3 DEF Bijection, Injection, Surjection, IsInjective
<1>4. ExistsBijection(used, events)
  BY <1>3 DEF ExistsBijection
<1> HIDE DEF used, events
<1>5. Cardinality(events) = Cardinality(used)
  BY <1>2, <1>4, FS_Bijection
<1> QED
  BY <1>1, <1>5 DEF CountExact, NumEvents, used, events

(* The number of events the node answers with is that of the events stored. *)
THEOREM CountIsExact == ASSUME InRange PROVE Spec => []CountExact
<1>1. IInv => CountExact
  BY CountFollows
<1>2. IInv /\ [Next]_vars => IInv'
  BY Inductive
<1> QED
  BY <1>1, <1>2, Initial, PTL DEF Spec

-----------------------------------------------------------------------------
(* The table implements the map.  The map is read off a table as a function *)
(* of its rows, so that a step can be described by the one row it changes.  *)
Table == [Slot -> [0 .. SlotBytes - 1 -> Byte]]
Keys(t) == {EventAt(t, i) : i \in {j \in Slot : EventAt(t, j) # Unused}}
Place(t, e) == CHOOSE i \in Slot : EventAt(t, i) = e
Row(t, i) == [k \in 1 .. NumEVs |-> EVal(t, i, k)]
MapOf(t) == [e \in Keys(t) |-> Row(t, Place(t, e))]
Unique(t) ==
    \A i, j \in Slot : EventAt(t, i) # Unused /\ EventAt(t, i) = EventAt(t, j) => i = j

LEMMA KnownIs ==
    /\ Known = MapOf(table) /\ Known' = MapOf(table')
    /\ EventsUnique = Unique(table) /\ EventsUnique' = Unique(table')
BY DEF Known, KnownEvents, SlotOf, Stored, EventsUnique, MapOf, Keys, Place, Row, Unique

LEMMA EventsIs == Map!Events = Keys(table) /\ DOMAIN MapOf(table) = Keys(table)
BY KnownIs DEF Map!Events, MapOf

(* The event of a slot leads back to the slot. *)
LEMMA RowIs ==
    ASSUME NEW t, Unique(t), NEW i \in Slot, EventAt(t, i) # Unused
    PROVE  EventAt(t, i) \in Keys(t) /\ MapOf(t)[EventAt(t, i)] = Row(t, i)
<1> DEFINE e == EventAt(t, i)
<1>1. e \in Keys(t)
  BY DEF Keys
<1>2. \E j \in Slot : EventAt(t, j) = e
  OBVIOUS
<1>3. Place(t, e) \in Slot /\ EventAt(t, Place(t, e)) = e
  BY <1>2 DEF Place
<1>4. Place(t, e) = i
  BY <1>3 DEF Unique
<1> QED
  BY <1>1, <1>4 DEF MapOf

(* One row changed: its old event goes, its new one comes, the others stay. *)
LEMMA RowChanged ==
    ASSUME NEW t, NEW u, Unique(t), Unique(u), NEW i \in Slot,
           \A j \in Slot : j # i => EventAt(u, j) = EventAt(t, j) /\ Row(u, j) = Row(t, j)
    PROVE  /\ Keys(u) = (Keys(t) \ {EventAt(t, i)}) \cup ({EventAt(u, i)} \ {Unused})
           /\ \A d \in Keys(u) :
                 MapOf(u)[d] = IF d = EventAt(u, i) THEN Row(u, i) ELSE MapOf(t)[d]
<1>1. ASSUME NEW d \in Keys(u), d # EventAt(u, i)
      PROVE  d \in Keys(t) /\ d # EventAt(t, i) /\ MapOf(u)[d] = MapOf(t)[d]
  <2>1. PICK j \in Slot : EventAt(u, j) # Unused /\ d = EventAt(u, j)
    BY DEF Keys
  <2>2. j # i /\ EventAt(t, j) = d /\ Row(u, j) = Row(t, j)
    BY <1>1, <2>1
  <2>3. d \in Keys(t) /\ MapOf(t)[d] = Row(t, j) /\ MapOf(u)[d] = Row(u, j)
    BY <2>1, <2>2, RowIs
  <2>4. d # EventAt(t, i)
    BY <2>1, <2>2 DEF Unique
  <2> QED
    BY <2>2, <2>3, <2>4
<1>2. ASSUME NEW d \in Keys(t), d # EventAt(t, i) PROVE d \in Keys(u)
  <2>1. PICK j \in Slot : EventAt(t, j) # Unused /\ d = EventAt(t, j)
    BY DEF Keys
  <2>2. EventAt(u, j) = d
    BY <1>2, <2>1
  <2> QED
    BY <2>1, <2>2 DEF Keys
<1>3. EventAt(u, i) # Unused => EventAt(u, i) \in Keys(u) /\ MapOf(u)[EventAt(u, i)] = Row(u, i)
  BY RowIs
<1>4. Unused \notin Keys(u)
  BY DEF Keys
<1> QED
  BY <1>1, <1>2, <1>3, <1>4

(* The variables of the rows under the two writes. *)
LEMMA EventWritten ==
    ASSUME NEW t \in Table, NEW i \in Slot, NEW e \in Event
    PROVE  \A j \in Slot : Row(WriteEvent(t, i, e), j) = Row(t, j)
<1> DEFINE w == WriteEvent(t, i, e)
           row == [b \in 0 .. SlotBytes - 1 |-> IF b < IdBytes THEN e[b] ELSE t[i][b]]
<1>1. w = [t EXCEPT ![i] = row]
  BY DEF WriteEvent
<1>2. ASSUME NEW j \in Slot, NEW k \in 1 .. NumEVs PROVE EVal(w, j, k) = EVal(t, j, k)
  <2>1. IdBytes - 1 + k \in 0 .. SlotBytes - 1 /\ ~(IdBytes - 1 + k < IdBytes)
    BY Constants DEF SlotBytes
  <2>2. CASE j = i
    <3>1. w[j] = row
      BY <1>1, <2>2 DEF Table
    <3> QED
      BY <2>1, <2>2, <3>1 DEF EVal
  <2>3. CASE j # i
    BY <1>1, <2>3 DEF EVal, Table
  <2> QED
    BY <2>2, <2>3
<1> HIDE DEF w
<1>3. \A j \in Slot : Row(w, j) = Row(t, j)
  BY <1>2 DEF Row
<1> QED
  BY <1>3 DEF w

LEMMA VariableWritten ==
    ASSUME NEW t \in Table, NEW i \in Slot, NEW k \in 1 .. NumEVs, NEW v \in Byte
    PROVE  /\ Row(WriteEV(t, i, k, v), i) = [Row(t, i) EXCEPT ![k] = v]
           /\ \A j \in Slot : j # i => Row(WriteEV(t, i, k, v), j) = Row(t, j)
<1> DEFINE b == IdBytes - 1 + k
           w == [t EXCEPT ![i][b] = v]
<1>1. b \in 0 .. SlotBytes - 1
  BY Constants DEF SlotBytes
<1>2. b \div SlotBytes = 0 /\ b % SlotBytes = b
  <2>1. ASSUME NEW n \in Nat \ {0}, NEW m \in 0 .. n - 1
        PROVE  m \div n = 0 /\ m % n = m
    OBVIOUS
  <2> HIDE DEF b
  <2> QED
    BY <1>1, <2>1, Constants
<1>3. i + b \div SlotBytes = i
  BY <1>2, Constants
<1>4. WriteEV(t, i, k, v) = w
  BY <1>2, <1>3 DEF WriteEV, WriteByte
<1>5. ASSUME NEW m \in 1 .. NumEVs
      PROVE  EVal(w, i, m) = IF m = k THEN v ELSE EVal(t, i, m)
  <2>1. IdBytes - 1 + m \in 0 .. SlotBytes - 1 /\ (IdBytes - 1 + m = b <=> m = k)
    BY Constants DEF SlotBytes
  <2> QED
    BY <1>1, <2>1 DEF EVal, Table
<1>6. \A j \in Slot : j # i => w[j] = t[j]
  BY DEF Table
<1> HIDE DEF w
<1>7. Row(w, i) = [Row(t, i) EXCEPT ![k] = v]
  BY <1>5 DEF Row
<1>8. \A j \in Slot : j # i => Row(w, j) = Row(t, j)
  BY <1>6 DEF Row, EVal
<1> QED
  BY <1>4, <1>7, <1>8

LEMMA RowType ==
    ASSUME NEW t \in Table, NEW i \in Slot
    PROVE  Row(t, i) \in EVs
<1>1. ASSUME NEW k \in 1 .. NumEVs PROVE EVal(t, i, k) \in Byte
  <2>1. IdBytes - 1 + k \in 0 .. SlotBytes - 1
    BY Constants DEF SlotBytes
  <2> QED
    BY <2>1 DEF EVal, Table
<1> QED
  BY <1>1 DEF Row, EVs

(* There is room in the map when there is a free slot. *)
LEMMA RoomIs ==
    ASSUME IInv
    PROVE  /\ Map!Room <=> FindSpace \in Slot
           /\ FindSpace \in Slot => EventAt(table, FindSpace) = Unused
<1> DEFINE used == {i \in Slot : hash[i] # 0}
           free == {i \in Slot : hash[i] = 0}
<1>1. Cardinality(Keys(table)) = Cardinality(used)
  BY CountFollows DEF CountExact, NumEvents, Keys, Stored
<1>2. IsFiniteSet(Slot) /\ Cardinality(Slot) = MaxEvents
  <2>1. MaxEvents - 1 \in Int /\ 0 <= MaxEvents - 1 + 1 /\ (MaxEvents - 1) - 0 + 1 = MaxEvents
    BY Constants
  <2>2. IsFiniteSet(0 .. MaxEvents - 1)
        /\ Cardinality(0 .. MaxEvents - 1) = IF 0 > MaxEvents - 1 THEN 0 ELSE (MaxEvents - 1) - 0 + 1
    BY <2>1, FS_Interval
  <2> QED
    BY <2>1, <2>2, Constants DEF Slot
<1>3. free = {} => used = Slot
  OBVIOUS
<1>4. free # {} => Cardinality(used) < MaxEvents
  <2>1. free # {} => used # Slot
    OBVIOUS
  <2>2. used \subseteq Slot
    OBVIOUS
  <2> HIDE DEF used, free
  <2>3. IsFiniteSet(used) /\ Cardinality(used) <= Cardinality(Slot)
        /\ (Cardinality(used) = Cardinality(Slot) => used = Slot)
    BY <1>2, <2>2, FS_Subset
  <2>4. Cardinality(used) \in Nat
    BY <2>3, FS_CardinalityType
  <2>5. free # {} => Cardinality(used) # MaxEvents
    BY <1>2, <2>1, <2>3, Zenon
  <2>6. Cardinality(used) <= MaxEvents
    BY <1>2, <2>3, Zenon
  <2> DEFINE n == Cardinality(used)
  <2>7. n \in Nat /\ n <= MaxEvents /\ (free # {} => n # MaxEvents)
    BY <2>4, <2>5, <2>6
  <2> HIDE DEF n
  <2>8. free # {} => n < MaxEvents
    BY <2>7, Constants
  <2> QED
    BY <2>8 DEF n
<1>5. Map!Room <=> free # {}
  <2>1. Map!Room <=> Cardinality(Keys(table)) < MaxEvents
    <3>1. \A S : Map!Cardinality(S) = Cardinality(S)
      BY DEF Map!Cardinality, Cardinality
    <3> QED
      BY <3>1, EventsIs DEF Map!Room
  <2>2. free = {} => Cardinality(used) = MaxEvents
    BY <1>2, <1>3
  <2> HIDE DEF used, free
  <2>3. free = {} => ~(Cardinality(used) < MaxEvents)
    BY <2>2, Constants
  <2> QED
    BY <1>1, <1>4, <2>1, <2>3
<1>6. free \in SUBSET Slot
  OBVIOUS
<1>7. (FindSpace \in Slot <=> free # {}) /\ (FindSpace \in Slot => FindSpace \in free)
  BY <1>6, FirstOfIs DEF FindSpace
<1>8. \A i \in free : EventAt(table, i) = Unused
  <2> TAKE i \in free
  <2>1. hash[i] = 0 /\ hash[i] = HashOf(EventAt(table, i))
    BY DEF IInv, Consistent, HashCoherent
  <2>2. EventAt(table, i) \in Event
    BY EventAtType DEF IInv, Consistent, TypeOK
  <2> QED
    BY <2>1, <2>2, Constants
<1> QED
  BY <1>5, <1>7, <1>8

(* Where an event is learned: in its own slot if it is known, else in a     *)
(* free one; the unused event is never found.                               *)
LEMMA LearnSlotSays ==
    ASSUME IInv, NEW e \in Event
    PROVE  /\ FindExisting(e) \in Slot <=> e \in Keys(table)
           /\ FindExisting(e) \in Slot => EventAt(table, FindExisting(e)) = e
           /\ LearnSlot(e) \in Slot <=> e \in Keys(table) \/ Map!Room
           /\ LearnSlot(e) \in Slot =>
                 EventAt(table, LearnSlot(e)) = IF e \in Keys(table) THEN e ELSE Unused
<1> DEFINE holders == {i \in Slot : EventAt(table, i) = e}
<1>1. FindExisting(e) \in Slot => EventAt(table, FindExisting(e)) = e
  BY FindExistingIs DEF IInv
<1>2. e # Unused => (FindExisting(e) \in Slot <=> holders # {})
  <2>1. holders \in SUBSET Slot
    OBVIOUS
  <2> QED
    BY <2>1, FindExistingIs, FirstOfIs DEF IInv
<1>3. e # Unused => (holders # {} <=> e \in Keys(table))
  BY DEF Keys
<1>4. Unused \notin Keys(table)
  BY DEF Keys
<1>5. FindExisting(Unused) \notin Slot
  <2>1. SUFFICES ASSUME FindExisting(Unused) \in Slot PROVE FALSE
    OBVIOUS
  <2>2. FindExisting(Unused) \in SameHash(Unused)
    <3>1. SameHash(Unused) \cap {i \in Slot : EventAt(table, i) = Unused} \in SUBSET Slot
          /\ SameHash(Unused) \in SUBSET Slot
      BY DEF SameHash
    <3> QED
      BY <2>1, <3>1, FirstOfIs, Constants DEF FindExisting
  <2>3. EventAt(table, FindExisting(Unused)) = Unused
    BY <2>1, FindExistingIs, Constants DEF IInv
  <2>4. hash[FindExisting(Unused)] = 0
    BY <2>1, <2>3 DEF IInv, Consistent, HashCoherent, HashOf
  <2>5. hash[FindExisting(Unused)] = Hash[Unused] /\ Hash[Unused] # 0
    BY <2>2, Constants DEF SameHash
  <2> QED
    BY <2>4, <2>5
<1>6. FindExisting(e) \in Slot <=> e \in Keys(table)
  BY <1>2, <1>3, <1>4, <1>5
<1> QED
  BY <1>1, <1>6, RoomIs DEF LearnSlot

(* A row changed and the map with it.                                       *)
LEMMA MapIs ==
    ASSUME NEW D, NEW f, f = [d \in D |-> f[d]], Keys(table') = D,
           \A d \in D : MapOf(table')[d] = f[d]
    PROVE  Known' = f
<1>1. Known' = MapOf(table')
  BY KnownIs
<1>2. MapOf(table') = [d \in D |-> MapOf(table')[d]]
  BY DEF MapOf
<1>3. [d \in D |-> MapOf(table')[d]] = [d \in D |-> f[d]]
  OBVIOUS
<1> QED
  BY <1>1, <1>2, <1>3

LEMMA EvlrnMaps ==
    ASSUME IInv, IInv', NEW e \in Event, NEW k \in 0 .. NumEVs, NEW v \in Byte, Evlrn(e, k, v)
    PROVE  Map!Teach(e, k, v)
<1>e. Map!Events = Keys(table) /\ Known = MapOf(table)
  BY EventsIs, KnownIs
<1>1. CASE LearnRefused(e, k) /\ reply' = "CMDERR" /\ UNCHANGED <<table, hash, collisions>>
  <2>1. ~(k # 0 /\ (e \in Map!Events \/ Map!Room))
    BY <1>1, <1>e, LearnSlotSays DEF LearnRefused
  <2>2. Known' = Known
    BY <1>1, KnownIs
  <2> QED
    BY <1>1, <2>1, <2>2 DEF Map!Teach
<1>2. CASE ~LearnRefused(e, k)
  <2> DEFINE i == LearnSlot(e)
             t == IF k < 2 THEN WriteEvent(table, i, e) ELSE table
  <2>1. i \in Slot /\ k \in 1 .. NumEVs /\ (e \in Keys(table) \/ Map!Room)
    BY <1>2, LearnSlotSays DEF LearnRefused
  <2>2. table' = WriteEV(t, i, k, v) /\ reply' = "WRACK"
    BY <1>2 DEF Evlrn
  <2>3. EventAt(table, i) = IF e \in Keys(table) THEN e ELSE Unused
    BY <2>1, LearnSlotSays
  <2>4. table \in Table
    BY DEF IInv, Consistent, TypeOK, Table
  <2> HIDE DEF i
  <2>5. /\ t \in Table
        /\ EventAt(t, i) = IF k = 1 THEN e ELSE EventAt(table, i)
        /\ \A j \in Slot : j # i => EventAt(t, j) = EventAt(table, j)
        /\ \A j \in Slot : Row(t, j) = Row(table, j)
    <3>1. k < 2 <=> k = 1
      BY <2>1
    <3> QED
      BY <2>1, <2>4, <3>1, WriteEventIs, EventWritten DEF Table
  <2> HIDE DEF t
  <2>6. /\ table' \in Table /\ EventAt(table', i) = EventAt(t, i)
        /\ \A j \in Slot : j # i => /\ EventAt(table', j) = EventAt(table, j)
                                    /\ Row(table', j) = Row(table, j)
        /\ Row(table', i) = [Row(table, i) EXCEPT ![k] = v]
    BY <2>1, <2>2, <2>5, WriteEVIs, VariableWritten DEF Table
  <2>7. /\ Keys(table') = (Keys(table) \ {EventAt(table, i)}) \cup ({EventAt(table', i)} \ {Unused})
        /\ \A d \in Keys(table') :
              MapOf(table')[d] = IF d = EventAt(table', i) THEN Row(table', i) ELSE MapOf(table)[d]
    <3>1. Unique(table) /\ Unique(table')
      BY KnownIs DEF IInv
    <3>2. \A j \in Slot : j # i =>
             EventAt(table', j) = EventAt(table, j) /\ Row(table', j) = Row(table, j)
      BY <2>6
    <3> QED
      BY <2>1, <3>1, <3>2, RowChanged, ZenonT(30)
  <2>8. Unused \notin Keys(table)
    BY DEF Keys
  <2>9. CASE e \in Keys(table)
    <3>1. EventAt(table, i) = e /\ EventAt(table', i) = e /\ e # Unused
      BY <2>3, <2>5, <2>6, <2>8, <2>9
    <3>2. MapOf(table)[e] = Row(table, i)
      BY <2>1, <3>1, KnownIs, RowIs DEF IInv
    <3> DEFINE evs == [MapOf(table)[e] EXCEPT ![k] = v]
               f == [d \in Keys(table) \cup {e} |-> IF d = e THEN evs ELSE MapOf(table)[d]]
    <3>3. Keys(table') = Keys(table) \cup {e} /\ \A d \in Keys(table) \cup {e} : MapOf(table')[d] = f[d]
      BY <2>6, <2>7, <2>9, <3>1, <3>2
    <3>f. f = [d \in Keys(table) \cup {e} |-> f[d]]
      OBVIOUS
    <3> HIDE DEF f
    <3>4. Known' = f
      BY <3>3, <3>f, MapIs
    <3>5. Known' = Map!With(e, [Known[e] EXCEPT ![k] = v])
      BY <1>e, <3>4 DEF Map!With, f
    <3> QED
      BY <1>e, <2>1, <2>2, <2>9, <3>5 DEF Map!Teach
  <2>10. CASE e \notin Keys(table) /\ k = 1 /\ e # Unused
    <3>1. EventAt(table, i) = Unused /\ EventAt(table', i) = e
      BY <2>3, <2>5, <2>6, <2>10
    <3> DEFINE evs == Row(table', i)
               f == [d \in Keys(table) \cup {e} |-> IF d = e THEN evs ELSE MapOf(table)[d]]
    <3>2. evs \in EVs /\ evs[1] = v
      <4>1. evs \in EVs
        BY <2>1, <2>6, RowType
      <4>2. Row(table, i) \in EVs
        BY <2>1, <2>4, RowType
      <4> QED
        BY <2>1, <2>6, <2>10, <4>1, <4>2 DEF EVs
    <3> HIDE DEF evs
    <3>3. Keys(table') = Keys(table) \cup {e} /\ \A d \in Keys(table) \cup {e} : MapOf(table')[d] = f[d]
      BY <2>7, <2>8, <2>10, <3>1 DEF evs
    <3>f. f = [d \in Keys(table) \cup {e} |-> f[d]]
      OBVIOUS
    <3> HIDE DEF f
    <3>4. Known' = f
      BY <3>3, <3>f, MapIs
    <3>5. Known' = Map!With(e, evs)
      BY <1>e, <3>4 DEF Map!With, f
    <3> QED
      BY <1>e, <2>1, <2>2, <2>10, <3>2, <3>5 DEF Map!Teach
  <2>11. CASE e \notin Keys(table) /\ ~(k = 1 /\ e # Unused)
    <3>1. EventAt(table, i) = Unused /\ EventAt(table', i) = Unused
      BY <2>3, <2>5, <2>6, <2>11
    <3> DEFINE f == [d \in Keys(table) |-> MapOf(table)[d]]
    <3>2. Keys(table') = Keys(table) /\ \A d \in Keys(table) : MapOf(table')[d] = f[d]
      BY <2>7, <2>8, <3>1
    <3>f. f = [d \in Keys(table) |-> f[d]]
      OBVIOUS
    <3> HIDE DEF f
    <3>3. Known' = f
      BY <3>2, <3>f, MapIs
    <3>4. Known' = Known
      BY <1>e, <3>3 DEF f, MapOf
    <3> QED
      BY <1>e, <2>1, <2>2, <2>11, <3>4 DEF Map!Teach
  <2> QED
    BY <2>9, <2>10, <2>11
<1> QED
  BY <1>1, <1>2 DEF Evlrn

LEMMA EvlrnCutMaps ==
    ASSUME IInv, IInv', NEW e \in Event, EvlrnCut(e)
    PROVE  Map!TeachCut(e)
<1> DEFINE i == LearnSlot(e)
<1>e. Map!Events = Keys(table) /\ Known = MapOf(table) /\ Unused \notin Keys(table)
  BY EventsIs, KnownIs DEF Keys
<1>1. i \in Slot /\ table' = WriteEvent(table, i, e) /\ reply' = "none"
  BY DEF EvlrnCut, LearnRefused
<1>2. /\ e \in Keys(table) \/ Map!Room
      /\ EventAt(table, i) = IF e \in Keys(table) THEN e ELSE Unused
  BY <1>1, LearnSlotSays
<1> HIDE DEF i
<1>3. table \in Table
  BY DEF IInv, Consistent, TypeOK, Table
<1>4. /\ table' \in Table /\ EventAt(table', i) = e
      /\ \A j \in Slot : j # i => EventAt(table', j) = EventAt(table, j)
      /\ \A j \in Slot : Row(table', j) = Row(table, j)
  BY <1>1, <1>3, WriteEventIs, EventWritten DEF Table
<1>5. /\ Keys(table') = (Keys(table) \ {EventAt(table, i)}) \cup ({e} \ {Unused})
      /\ \A d \in Keys(table') :
            MapOf(table')[d] = IF d = e THEN Row(table', i) ELSE MapOf(table)[d]
  <2>1. Unique(table) /\ Unique(table')
    BY KnownIs DEF IInv
  <2> QED
    BY <1>1, <1>4, <2>1, RowChanged
<1>6. CASE e \in Keys(table) \/ e = Unused
  <2> DEFINE f == [d \in Keys(table) |-> MapOf(table)[d]]
  <2>1. e \in Keys(table) => MapOf(table)[e] = Row(table', i)
    BY <1>1, <1>2, <1>4, <1>e, KnownIs, RowIs DEF IInv
  <2>2. Keys(table') = Keys(table) /\ \A d \in Keys(table) : MapOf(table')[d] = f[d]
    BY <1>2, <1>5, <1>6, <1>e, <2>1
  <2>f. f = [d \in Keys(table) |-> f[d]]
    OBVIOUS
  <2> HIDE DEF f
  <2>3. Known' = f
    BY <2>2, <2>f, MapIs
  <2>4. Known' = Known
    BY <1>e, <2>3 DEF f, MapOf
  <2> QED
    BY <1>1, <2>4 DEF Map!TeachCut
<1>7. CASE e \notin Keys(table) /\ e # Unused
  <2> DEFINE evs == Row(table', i)
             f == [d \in Keys(table) \cup {e} |-> IF d = e THEN evs ELSE MapOf(table)[d]]
  <2>1. evs \in EVs
    BY <1>1, <1>4, RowType
  <2> HIDE DEF evs
  <2>2. Keys(table') = Keys(table) \cup {e} /\ \A d \in Keys(table) \cup {e} : MapOf(table')[d] = f[d]
    BY <1>2, <1>5, <1>7, <1>e DEF evs
  <2>f. f = [d \in Keys(table) \cup {e} |-> f[d]]
    OBVIOUS
  <2> HIDE DEF f
  <2>3. Known' = f
    BY <2>2, <2>f, MapIs
  <2>4. Known' = Map!With(e, evs)
    BY <1>e, <2>3 DEF Map!With, f
  <2> QED
    BY <1>1, <1>2, <1>e, <1>7, <2>1, <2>4 DEF Map!TeachCut
<1> QED
  BY <1>6, <1>7

LEMMA EvulnMaps ==
    ASSUME IInv, IInv', NEW e \in Event, Evuln(e)
    PROVE  Map!Forget(e)
<1> DEFINE i == FindExisting(e)
<1>e. Map!Events = Keys(table) /\ Known = MapOf(table) /\ Unused \notin Keys(table)
  BY EventsIs, KnownIs DEF Keys
<1>1. i \in Slot /\ table' = WriteEvent(table, i, Unused) /\ reply' = reply
  BY DEF Evuln
<1>2. EventAt(table, i) = e
  BY <1>1, LearnSlotSays
<1> HIDE DEF i
<1>3. table \in Table
  BY DEF IInv, Consistent, TypeOK, Table
<1>4. /\ EventAt(table', i) = Unused
      /\ \A j \in Slot : j # i => EventAt(table', j) = EventAt(table, j)
      /\ \A j \in Slot : Row(table', j) = Row(table, j)
  BY <1>1, <1>3, WriteEventIs, EventWritten, Constants DEF Table
<1>5. /\ Keys(table') = (Keys(table) \ {EventAt(table, i)}) \cup ({EventAt(table', i)} \ {Unused})
      /\ \A d \in Keys(table') :
            MapOf(table')[d] = IF d = EventAt(table', i) THEN Row(table', i) ELSE MapOf(table)[d]
  <2>1. Unique(table) /\ Unique(table')
    BY KnownIs DEF IInv
  <2> QED
    BY <1>1, <1>4, <2>1, RowChanged
<1> DEFINE f == [d \in Keys(table) \ {e} |-> MapOf(table)[d]]
<1>6. Keys(table') = Keys(table) \ {e} /\ \A d \in Keys(table) \ {e} : MapOf(table')[d] = f[d]
  BY <1>2, <1>4, <1>5, <1>e
<1>f. f = [d \in Keys(table) \ {e} |-> f[d]]
  OBVIOUS
<1> HIDE DEF f
<1>7. Known' = f
  BY <1>6, <1>f, MapIs
<1> QED
  BY <1>1, <1>7, <1>e DEF f, Map!Forget

(* A table without events is the empty map.                                 *)
LEMMA EmptyMap ==
    ASSUME NEW t, \A i \in Slot : EventAt(t, i) = Unused
    PROVE  MapOf(t) = <<>>
<1>1. Keys(t) = {}
  BY DEF Keys
<1>2. MapOf(t) = [e \in {} |-> Row(t, Place(t, e))]
  BY <1>1 DEF MapOf
<1>3. [e \in {} |-> Row(t, Place(t, e))] = <<>>
  OBVIOUS
<1> QED
  BY <1>2, <1>3

LEMMA NnclrMaps ==
    ASSUME IInv, Nnclr
    PROVE  Map!ForgetAll
<1>1. ASSUME NEW i \in Slot PROVE EventAt(table', i) = Unused
  <2>1. table'[i] = WriteEvent(table, i, Unused)[i]
    BY DEF Nnclr
  <2>2. EventAt(WriteEvent(table, i, Unused), i) = Unused
    BY WriteEventIs, Constants DEF IInv, Consistent, TypeOK
  <2> QED
    BY <2>1, <2>2 DEF EventAt
<1>2. MapOf(table') = <<>>
  BY <1>1, EmptyMap
<1> QED
  BY <1>2, KnownIs DEF Nnclr, Map!ForgetAll

LEMMA MapStep ==
    ASSUME InRange, IInv, IInv', [Next]_vars
    PROVE  [Map!MapNext]_(Map!mapVars)
<1>1. ASSUME NEW e \in Taught, NEW k \in EvIndices, NEW v \in EvVals, Evlrn(e, k, v)
      PROVE  Map!MapNext
  <2>1. e \in Event /\ k \in 0 .. NumEVs /\ v \in Byte
    BY TableAssumption DEF InRange
  <2> QED
    BY <1>1, <2>1, EvlrnMaps DEF Map!MapNext
<1>2. ASSUME NEW e \in Taught, EvlrnCut(e) PROVE Map!MapNext
  BY <1>2, TableAssumption, EvlrnCutMaps DEF Map!MapNext
<1>3. ASSUME NEW e \in Taught, Evuln(e) PROVE Map!MapNext
  BY <1>3, TableAssumption, EvulnMaps DEF Map!MapNext
<1>4. CASE Nnclr
  BY <1>4, NnclrMaps DEF Map!MapNext
<1>5. CASE Begin
  <2>1. reply' = "none" /\ Known' = Known
    BY <1>5, KnownIs DEF Begin
  <2> QED
    BY <2>1 DEF Map!Restart, Map!MapNext
<1>6. CASE UNCHANGED vars
  BY <1>6, KnownIs DEF vars, Map!mapVars
<1> QED
  BY <1>1, <1>2, <1>3, <1>4, <1>5, <1>6 DEF Next

(* For every size and hash function, the table with its hash short cut is   *)
(* the map of known events a configuration tool sees, through learning,     *)
(* unlearning, clearing, restarts and power lost inside a learn.            *)
THEOREM TableIsMap == ASSUME InRange PROVE Spec => MapSpec
<1>1. Init => Map!MapInit
  <2> SUFFICES ASSUME Init PROVE Map!MapInit
    OBVIOUS
  <2>1. \A i \in Slot : EventAt(table, i) = Unused
    BY Constants DEF Init, EventAt, Unused
  <2> QED
    BY <2>1, EmptyMap, KnownIs DEF Init, Map!MapInit
<1>2. IInv /\ IInv' /\ [Next]_vars => [Map!MapNext]_(Map!mapVars)
  BY MapStep
<1>3. IInv /\ [Next]_vars => IInv'
  BY Inductive
<1> QED
  BY <1>1, <1>2, <1>3, Initial, PTL DEF Spec, MapSpec, Map!MapSpec
=============================================================================
