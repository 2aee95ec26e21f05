--------------------------- MODULE SelfEnum_proofs ---------------------------
(***************************************************************************)
(* For every width of the clock and of the response array, every timeout   *)
(* and however late the loop comes round: the flags agree with where the   *)
(* loop is, only a valid CAN ID is stored, and the answers to a request    *)
(* are never used before their time.                                       *)
(***************************************************************************)
EXTENDS SelfEnum, TLAPS

(* What ties the clock to the time that passed: a difference of clock       *)
(* readings never exceeds the age of the request, because wrapping can only *)
(* make it smaller.  The reading in the loop's hands is at most as recent   *)
(* as the age.                                                              *)
AgeBoundsClock ==
    /\ ~m_bEnumerationInProgress => window = Reset
    /\ window \in 0 .. ENUMERATION_TIMEOUT =>
          (now - m_enumStartTime) % ClockMod <= window
    /\ window \in 0 .. ENUMERATION_TIMEOUT /\ pc = "window" => Elapsed <= window

IInv == TypeOK /\ FlagsAgree /\ AgeBoundsClock

(* The difference of two clock readings, without the modulus. *)
LEMMA DifferenceIs ==
    ASSUME NEW t \in Time, NEW s \in Time
    PROVE  (t - s) % ClockMod = IF t >= s THEN t - s ELSE t - s + ClockMod
BY EnumAssumption DEF Time

LEMMA NextTimeIs ==
    ASSUME NEW t \in Time
    PROVE  /\ (t + 1) % ClockMod = IF t + 1 = ClockMod THEN 0 ELSE t + 1
           /\ (t + 1) % ClockMod \in Time
BY EnumAssumption DEF Time

(* A tick adds at most one to the difference. *)
LEMMA TickAddsOne ==
    ASSUME NEW t \in Time, NEW s \in Time
    PROVE  (((t + 1) % ClockMod) - s) % ClockMod <= ((t - s) % ClockMod) + 1
<1> DEFINE u == (t + 1) % ClockMod
<1>1. u = (IF t + 1 = ClockMod THEN 0 ELSE t + 1) /\ u \in Time
  BY NextTimeIs
<1> HIDE DEF u
<1>2. (u - s) % ClockMod = IF u >= s THEN u - s ELSE u - s + ClockMod
  BY <1>1, DifferenceIs
<1>3. (t - s) % ClockMod = IF t >= s THEN t - s ELSE t - s + ClockMod
  BY DifferenceIs
<1>4. (u - s) % ClockMod <= ((t - s) % ClockMod) + 1
  BY <1>1, <1>2, <1>3, EnumAssumption DEF Time
<1> QED
  BY <1>4 DEF u

LEMMA NoDifference ==
    ASSUME NEW t \in Time
    PROVE  (t - t) % ClockMod = 0
BY DifferenceIs DEF Time

(* The array has at least one bit, that of ID 0. *)
LEMMA ZeroIsPosition == 0 \in Positions
<1>1. MaxCanId \div Bits \in Nat
  BY EnumAssumption
<1>2. ENUM_ARRAY_SIZE \in Nat \ {0}
  BY <1>1 DEF ENUM_ARRAY_SIZE
<1>3. ENUM_ARRAY_SIZE * Bits >= 1
  BY <1>2, EnumAssumption
<1>4. ENUM_ARRAY_SIZE * Bits \in Int
  BY <1>2, EnumAssumption
<1> QED
  BY <1>3, <1>4 DEF Positions

LEMMA Initial == Init => IInv
<1> SUFFICES ASSUME Init PROVE IInv
  OBVIOUS
<1>1. 0 \in Time /\ 1 \in 1 .. LastCanId
  BY EnumAssumption DEF Time
<1>2. TypeOK
  <2>1. 0 \in 0 .. MaxLag /\ 0 \in 0 .. MaxAsked
    BY EnumAssumption
  <2>2. {} \subseteq Positions /\ {} \subseteq Priority \X CanId
    OBVIOUS
  <2> QED
    BY <1>1, <2>1, <2>2 DEF Init, TypeOK
<1>3. FlagsAgree
  BY DEF Init, FlagsAgree
<1>4. AgeBoundsClock
  BY EnumAssumption DEF Init, AgeBoundsClock, Reset
<1> QED
  BY <1>2, <1>3, <1>4 DEF IInv

-----------------------------------------------------------------------------
(* The types, action by action. *)
LEMMA TypePreserved == TypeOK /\ [Next]_vars => TypeOK'
<1> SUFFICES ASSUME TypeOK, [Next]_vars PROVE TypeOK'
  OBVIOUS
<1> USE EnumAssumption
<1>1. ASSUME NEW prio \in Priority, NEW id \in CanId, Receive(prio, id),
             UNCHANGED <<m_canId, now, loopVars, lag, asked, window>>
      PROVE  TypeOK'
  <2>1. m_enumResponses' \subseteq Positions /\ heard' \subseteq Priority \X CanId
    BY <1>1 DEF TypeOK, Receive, Record
  <2>2. /\ m_bEnumerationRequired' \in BOOLEAN /\ m_bEnumerationInProgress' \in BOOLEAN
        /\ m_bResultRequired' \in BOOLEAN /\ m_enumStartTime' \in Time
    BY <1>1 DEF TypeOK, Receive, flags
  <2> QED
    BY <1>1, <2>1, <2>2 DEF TypeOK, loopVars
<1>2. ASSUME Asked PROVE TypeOK'
  BY <1>2 DEF TypeOK, Asked, flags, loopVars
<1>3. ASSUME ReadHoldoff PROVE TypeOK'
  BY <1>3 DEF TypeOK, ReadHoldoff, Goto, Quiet, flags
<1>4. ASSUME Start PROVE TypeOK'
  <2>1. 0 \in Time /\ {0} \subseteq Positions
    BY ZeroIsPosition DEF Time
  <2>2. 0 \in 0 .. ENUMERATION_TIMEOUT + 1
    OBVIOUS
  <2> QED
    BY <1>4, <2>1, <2>2 DEF TypeOK, Start, Leave, Goto, Quiet
<1>5. ASSUME HoldOff PROVE TypeOK'
  <2>1. 0 \in Time
    BY DEF Time
  <2> QED
    BY <1>5, <2>1 DEF TypeOK, HoldOff, Leave, Goto, Quiet, flags
<1>6. ASSUME ReadWindow PROVE TypeOK'
  BY <1>6 DEF TypeOK, ReadWindow, Goto, Quiet, flags
<1>7. ASSUME Wait PROVE TypeOK'
  <2>1. 0 \in Time
    BY DEF Time
  <2> QED
    BY <1>7, <2>1 DEF TypeOK, Wait, Leave, Goto, Quiet, flags
<1>8. ASSUME Scan PROVE TypeOK'
  <2>1. 0 \in Time
    BY DEF Time
  <2>2. newCanId' \in Positions \cup {NoneFree}
    BY <1>8 DEF Scan, FreePositions
  <2> QED
    BY <1>8, <2>1, <2>2 DEF TypeOK, Scan, Leave, Goto, Quiet, flags
<1>9. ASSUME Assign PROVE TypeOK'
  BY <1>9 DEF TypeOK, Assign, Goto, Quiet, flags
<1>10. ASSUME Finish PROVE TypeOK'
  BY <1>10 DEF TypeOK, Finish, Goto, Quiet
<1>11. ASSUME OtherFrames PROVE TypeOK'
  BY <1>11 DEF TypeOK, OtherFrames, TurnEnds, flags
<1>12. ASSUME NEW id, SetCanId(id) PROVE TypeOK'
  BY <1>12 DEF TypeOK, SetCanId, TurnEnds, flags
<1>13. ASSUME WantResult PROVE TypeOK'
  BY <1>13 DEF TypeOK, WantResult, Goto, Quiet
<1>14. ASSUME DoEnum PROVE TypeOK'
  BY <1>14 DEF TypeOK, DoEnum, TurnEnds
<1>15. ASSUME Tick PROVE TypeOK'
  <2>1. now' \in Time
    BY <1>15, NextTimeIs DEF Tick, TypeOK
  <2>2. lag' \in 0 .. MaxLag
    BY <1>15 DEF Tick, TypeOK
  <2>3. window' \in 0 .. ENUMERATION_TIMEOUT + 1 \cup {Reset}
    BY <1>15 DEF Tick, TypeOK
  <2> QED
    BY <1>15, <2>1, <2>2, <2>3 DEF TypeOK, Tick, flags, loopVars
<1>16. ASSUME UNCHANGED vars PROVE TypeOK'
  BY <1>16 DEF TypeOK, vars, flags, loopVars
<1>17. ASSUME Fault PROVE TypeOK'
  BY <1>17 DEF TypeOK, Fault, flags
<1> QED
  BY <1>1, <1>2, <1>3, <1>4, <1>5, <1>6, <1>7, <1>8, <1>9, <1>10, <1>11, <1>12,
     <1>13, <1>14, <1>15, <1>16, <1>17 DEF Next, Interrupt, Loop
-----------------------------------------------------------------------------
(* The flags: only Finish takes them back, and only when the loop has       *)
(* nothing left to do; the interrupt can only set the first.                *)
LEMMA FlagsPreserved == FlagsAgree /\ [Next]_vars => FlagsAgree'
<1> SUFFICES ASSUME FlagsAgree, [Next]_vars PROVE FlagsAgree'
  OBVIOUS
<1> USE DEF FlagsAgree
<1>1. ASSUME NEW prio \in Priority, NEW id \in CanId, Receive(prio, id),
             UNCHANGED <<m_canId, now, loopVars, lag, asked, window>>
      PROVE  FlagsAgree'
  BY <1>1 DEF Receive, flags, loopVars
<1>2. ASSUME Asked \/ Tick PROVE FlagsAgree'
  BY <1>2 DEF Asked, Tick, flags, loopVars
<1>3. ASSUME ReadHoldoff \/ ReadWindow PROVE FlagsAgree'
  BY <1>3 DEF ReadHoldoff, ReadWindow, Goto, flags
<1>4. ASSUME Start PROVE FlagsAgree'
  BY <1>4 DEF Start, Leave, Goto
<1>5. ASSUME HoldOff \/ Wait \/ Scan PROVE FlagsAgree'
  BY <1>5 DEF HoldOff, Wait, Scan, Leave, Goto, flags
<1>6. ASSUME Assign PROVE FlagsAgree'
  BY <1>6 DEF Assign, Goto, flags
<1>7. ASSUME Finish PROVE FlagsAgree'
  BY <1>7 DEF Finish, Goto
<1>8. ASSUME OtherFrames PROVE FlagsAgree'
  BY <1>8 DEF OtherFrames, TurnEnds, flags
<1>9. ASSUME NEW id, SetCanId(id) PROVE FlagsAgree'
  BY <1>9 DEF SetCanId, TurnEnds, flags
<1>10. ASSUME WantResult PROVE FlagsAgree'
  BY <1>10 DEF WantResult, Goto
<1>11. ASSUME DoEnum PROVE FlagsAgree'
  BY <1>11 DEF DoEnum, TurnEnds
<1>12. ASSUME UNCHANGED vars PROVE FlagsAgree'
  BY <1>12 DEF vars, flags, loopVars
<1>13. ASSUME Fault PROVE FlagsAgree'
  BY <1>13 DEF Fault, flags
<1> QED
  BY <1>1, <1>2, <1>3, <1>4, <1>5, <1>6, <1>7, <1>8, <1>9, <1>10, <1>11, <1>12, <1>13
     DEF Next, Interrupt, Loop

-----------------------------------------------------------------------------
(* The age: a request of another node resets it, a conflict moves the start *)
(* time only when nothing is in progress, and a tick adds one to both.      *)
LEMMA AgePreserved == IInv /\ [Next]_vars => AgeBoundsClock'
<1> SUFFICES ASSUME TypeOK, FlagsAgree, AgeBoundsClock, [Next]_vars PROVE AgeBoundsClock'
  BY DEF IInv
<1>a. Reset \notin 0 .. ENUMERATION_TIMEOUT
  BY DEF Reset
<1>1. ASSUME NEW prio \in Priority, NEW id \in CanId, Receive(prio, id),
             UNCHANGED <<m_canId, now, loopVars, lag, asked, window>>
      PROVE  AgeBoundsClock'
  <2>1. CASE m_bEnumerationInProgress
    BY <1>1, <2>1 DEF AgeBoundsClock, Receive, flags, loopVars, Elapsed
  <2>2. CASE ~m_bEnumerationInProgress
    <3>1. window' = Reset
      BY <1>1, <2>2 DEF AgeBoundsClock
    <3> QED
      BY <1>a, <3>1 DEF AgeBoundsClock
  <2> QED
    BY <2>1, <2>2
<1>2. ASSUME Asked PROVE AgeBoundsClock'
  BY <1>2, <1>a DEF AgeBoundsClock, Asked
<1>3. ASSUME ReadHoldoff PROVE AgeBoundsClock'
  BY <1>3 DEF AgeBoundsClock, ReadHoldoff, Goto, Quiet, flags
<1>4. ASSUME Start PROVE AgeBoundsClock'
  <2>1. (now - now) % ClockMod = 0
    BY NoDifference DEF TypeOK
  <2> QED
    BY <1>4, <2>1 DEF AgeBoundsClock, Start, Leave, Goto, Quiet
<1>5. ASSUME HoldOff \/ Wait \/ Scan PROVE AgeBoundsClock'
  BY <1>5 DEF AgeBoundsClock, HoldOff, Wait, Scan, Leave, Goto, Quiet, flags
<1>6. ASSUME ReadWindow PROVE AgeBoundsClock'
  BY <1>6 DEF AgeBoundsClock, ReadWindow, Goto, Quiet, flags, Elapsed
<1>7. ASSUME Assign PROVE AgeBoundsClock'
  BY <1>7 DEF AgeBoundsClock, Assign, Goto, Quiet, flags
<1>8. ASSUME Finish PROVE AgeBoundsClock'
  BY <1>8, <1>a DEF AgeBoundsClock, Finish, Goto
<1>9. ASSUME OtherFrames PROVE AgeBoundsClock'
  BY <1>9 DEF AgeBoundsClock, OtherFrames, TurnEnds, flags
<1>10. ASSUME NEW id, SetCanId(id) PROVE AgeBoundsClock'
  BY <1>10 DEF AgeBoundsClock, SetCanId, TurnEnds, flags
<1>11. ASSUME WantResult PROVE AgeBoundsClock'
  BY <1>11 DEF AgeBoundsClock, WantResult, Goto, Quiet
<1>12. ASSUME DoEnum PROVE AgeBoundsClock'
  BY <1>12 DEF AgeBoundsClock, DoEnum, TurnEnds
<1>13. ASSUME Tick PROVE AgeBoundsClock'
  <2>1. ~m_bEnumerationInProgress => window' = Reset
    BY <1>13 DEF AgeBoundsClock, Tick
  <2>2. CASE window = Reset
    BY <1>13, <1>a, <2>1, <2>2 DEF AgeBoundsClock, Tick, flags
  <2>3. CASE window = ENUMERATION_TIMEOUT + 1
    BY <1>13, <2>1, <2>3, EnumAssumption DEF AgeBoundsClock, Tick, flags
  <2>4. CASE window \in 0 .. ENUMERATION_TIMEOUT
    <3>1. window' = window + 1
      BY <1>13, <1>a, <2>4, EnumAssumption DEF Tick
    <3>2. (now - m_enumStartTime) % ClockMod <= window
      BY <2>4 DEF AgeBoundsClock
    <3>3. (now' - m_enumStartTime') % ClockMod <= ((now - m_enumStartTime) % ClockMod) + 1
      BY <1>13, TickAddsOne DEF Tick, TypeOK
    <3>4. /\ (now' - m_enumStartTime') % ClockMod \in Int
          /\ (now - m_enumStartTime) % ClockMod \in Int
          /\ Elapsed \in Int
      <4>1. now' \in Time /\ m_enumStartTime' \in Time
        BY <1>13, NextTimeIs DEF Tick, TypeOK
      <4> QED
        BY <4>1, EnumAssumption DEF TypeOK, Time, Elapsed
    <3>5. (now' - m_enumStartTime') % ClockMod <= window'
      BY <2>4, <3>1, <3>2, <3>3, <3>4
    <3>6. pc' = "window" => Elapsed' <= window'
      <4>1. pc' = pc /\ Elapsed' = Elapsed
        BY <1>13 DEF Tick, loopVars, Elapsed
      <4>2. pc = "window" => Elapsed <= window
        BY <2>4 DEF AgeBoundsClock
      <4> QED
        BY <2>4, <3>1, <3>4, <4>1, <4>2
    <3> QED
      BY <1>13, <2>1, <3>5, <3>6 DEF AgeBoundsClock, Tick, flags
  <2> QED
    BY <2>2, <2>3, <2>4, EnumAssumption DEF TypeOK
<1>14. ASSUME UNCHANGED vars PROVE AgeBoundsClock'
  BY <1>14 DEF AgeBoundsClock, vars, flags, loopVars, Elapsed
<1>15. ASSUME Fault PROVE AgeBoundsClock'
  BY <1>15 DEF AgeBoundsClock, Fault, flags
<1> QED
  BY <1>1, <1>2, <1>3, <1>4, <1>5, <1>6, <1>7, <1>8, <1>9, <1>10, <1>11, <1>12,
     <1>13, <1>14, <1>15 DEF Next, Interrupt, Loop

LEMMA Inductive == IInv /\ [Next]_vars => IInv'
BY TypePreserved, FlagsPreserved, AgePreserved DEF IInv

LEMMA Invariant == Spec => []IInv
BY Initial, Inductive, PTL DEF Spec

-----------------------------------------------------------------------------
(* Every variable stays in its range, and from any CAN ID a node can start  *)
(* with, the 0 of a factory reset included, no enumeration and no CANID     *)
(* command stores one that setCANID() would not take.                       *)
THEOREM TypeCorrect == Spec => []TypeOK
<1>1. IInv => TypeOK
  BY DEF IInv
<1> QED
  BY <1>1, Invariant, PTL

(* At no point does an interrupt find, or leave, the flags of the           *)
(* enumeration at odds with what the loop is doing.                         *)
THEOREM FlagsCorrect == Spec => []FlagsAgree
<1>1. IInv => FlagsAgree
  BY DEF IInv
<1> QED
  BY <1>1, Invariant, PTL

(* The answers to a request are used only after ENUMERATION_TIMEOUT, even   *)
(* over a wrap of the clock, unless another node asks meanwhile.            *)
THEOREM WindowCorrect == Spec => WindowHeld
<1>1. ASSUME IInv, Scan PROVE window \in {Reset, ENUMERATION_TIMEOUT + 1}
  <2>1. pc = "window" /\ Elapsed > ENUMERATION_TIMEOUT
    BY <1>1 DEF Scan, Leave, Goto
  <2>2. Elapsed \in Int
    BY <1>1, EnumAssumption DEF IInv, TypeOK, Time, Elapsed
  <2>3. window \notin 0 .. ENUMERATION_TIMEOUT
    BY <1>1, <2>1, <2>2, EnumAssumption DEF IInv, AgeBoundsClock
  <2> QED
    BY <1>1, <2>3, EnumAssumption DEF IInv, TypeOK
<1>2. IInv /\ [Next]_vars => [Scan => window \in {Reset, ENUMERATION_TIMEOUT + 1}]_vars
  BY <1>1
<1> QED
  BY <1>2, Invariant, PTL DEF Spec, WindowHeld

-----------------------------------------------------------------------------
(* The bits of the answers.                                                 *)

(* The first element of the array is where the writer and the reader of a   *)
(* bit mean the same CAN ID.                                                *)
LEMMA LowPosition ==
    ASSUME NEW h \in 0 .. Bits - 1
    PROVE  Position(h) = h /\ h \in Positions
<1> DEFINE n == MaxCanId \div Bits
<1>1. n \in Nat
  BY EnumAssumption
<1>2. ENUM_ARRAY_SIZE = n + 1
  BY DEF ENUM_ARRAY_SIZE
<1> HIDE DEF n
<1>3. (n + 1) * Bits = n * Bits + Bits /\ n * Bits \in Nat
  BY <1>1, EnumAssumption
<1>4. h \in Positions
  BY <1>2, <1>3, EnumAssumption DEF Positions
<1>5. h \div (2 * Bits) = 0 /\ h % Bits = h
  BY EnumAssumption
<1>6. 0 * Bits = 0
  BY EnumAssumption
<1> QED
  BY <1>4, <1>5, <1>6, EnumAssumption DEF Position

(* Only priority 0 has headers that low: they are the CAN ID itself.        *)
LEMMA LowHeader ==
    ASSUME NEW prio \in Nat, NEW id \in 0 .. MaxCanId, Header(prio, id) < Bits
    PROVE  Header(prio, id) = id /\ id \in 0 .. Bits - 1
<1>1. prio * (MaxCanId + 1) \in Nat
  BY EnumAssumption
<1>2. prio = 0
  <2> SUFFICES ASSUME prio # 0 PROVE FALSE
    OBVIOUS
  <2>1. PICK k \in Nat : prio = k + 1
    <3>1. prio - 1 \in Nat /\ prio = (prio - 1) + 1
      OBVIOUS
    <3> QED
      BY <3>1
  <2>2. prio * (MaxCanId + 1) = k * (MaxCanId + 1) + MaxCanId + 1
    BY <2>1, EnumAssumption
  <2>3. k * (MaxCanId + 1) \in Nat
    BY EnumAssumption
  <2> QED
    BY <2>2, <2>3, EnumAssumption DEF Header
<1>3. Header(prio, id) = id
  BY <1>2, EnumAssumption DEF Header
<1> QED
  BY <1>3, EnumAssumption

(* An answer with a low header has its own bit set until the next request. *)
HeardMarked ==
    \A frame \in heard :
        Header(frame[1], frame[2]) < Bits => frame[2] \in m_enumResponses

LEMMA MarkedPreserved == TypeOK /\ HeardMarked /\ [Next]_vars => HeardMarked'
<1> SUFFICES ASSUME TypeOK, HeardMarked, [Next]_vars PROVE HeardMarked'
  OBVIOUS
<1>1. ASSUME NEW prio \in Priority, NEW id \in CanId, Record(prio, id)
      PROVE  HeardMarked'
  <2>1. prio \in Nat /\ id \in 0 .. MaxCanId
    BY EnumAssumption
  <2>2. Header(prio, id) < Bits => id \in m_enumResponses'
    <3> SUFFICES ASSUME Header(prio, id) < Bits PROVE id \in m_enumResponses'
      OBVIOUS
    <3>1. Header(prio, id) = id /\ id \in 0 .. Bits - 1
      BY <2>1, LowHeader
    <3>2. Position(id) = id /\ id \in Positions
      BY <3>1, LowPosition
    <3> QED
      BY <1>1, <3>1, <3>2 DEF Record
  <2>3. heard' = heard \cup {<<prio, id>>} /\ m_enumResponses \subseteq m_enumResponses'
    BY <1>1 DEF Record
  <2>4. \A frame \in heard : Header(frame[1], frame[2]) < Bits => frame[2] \in m_enumResponses'
    BY <2>3 DEF HeardMarked
  <2> QED
    BY <2>2, <2>3, <2>4 DEF HeardMarked
<1>2. ASSUME heard' = {} PROVE HeardMarked'
  BY <1>2 DEF HeardMarked
<1>3. ASSUME UNCHANGED <<m_enumResponses, heard>> PROVE HeardMarked'
  BY <1>3 DEF HeardMarked
<1>4. ASSUME Interrupt PROVE HeardMarked'
  BY <1>1, <1>3, <1>4 DEF Interrupt, Receive, Asked, Fault
<1>5. ASSUME Loop PROVE HeardMarked'
  BY <1>2, <1>3, <1>5 DEF Loop, ReadHoldoff, Start, HoldOff, ReadWindow, Wait, Scan, Assign,
     Finish, OtherFrames, SetCanId, WantResult, DoEnum
<1>6. ASSUME Tick \/ UNCHANGED vars PROVE HeardMarked'
  BY <1>3, <1>6 DEF Tick, vars
<1> QED
  BY <1>4, <1>5, <1>6 DEF Next

(* For every size of the array: the ID chosen is none of those that         *)
(* answered with priority 0 and an ID of the first element, whatever the    *)
(* interrupt does between two steps of the loop.  Beyond these frames the   *)
(* code gives no such promise.                                              *)
THEOREM LowIsNotTaken == Spec => LowNotTaken
<1>1. Init => HeardMarked
  BY DEF Init, HeardMarked
<1>2. Spec => [](TypeOK /\ HeardMarked)
  <2>1. IInv => TypeOK
    BY DEF IInv
  <2> QED
    BY <1>1, <2>1, MarkedPreserved, Invariant, PTL DEF Spec
<1>3. TypeOK /\ HeardMarked =>
        (Scan => ~\E frame \in heard :
                    Header(frame[1], frame[2]) < Bits /\ newCanId' = frame[2])
  <2> SUFFICES ASSUME TypeOK, HeardMarked, Scan, NEW frame \in heard,
                      Header(frame[1], frame[2]) < Bits, newCanId' = frame[2]
               PROVE  FALSE
    OBVIOUS
  <2>1. frame[2] \in m_enumResponses
    BY DEF HeardMarked
  <2>2. frame[2] \in 0 .. MaxCanId
    BY EnumAssumption DEF TypeOK
  <2>3. newCanId' = NoneFree \/ newCanId' \in FreePositions
    BY DEF Scan
  <2> QED
    BY <2>1, <2>2, <2>3 DEF NoneFree, FreePositions
<1> QED
  BY <1>2, <1>3, PTL DEF LowNotTaken
=============================================================================
