---------------------------- MODULE Switch_proofs ----------------------------
(* For every debounce time and patience, any width of the clock and a pin that *)
(* bounces at will: a factory reset comes after a press of the whole time, and *)
(* only a level that has persisted is reported.                                *)
EXTENDS Switch, TLAPS

Time == 0..(Mod - 1)

Types == /\ pin \in BOOLEAN /\ current \in BOOLEAN /\ active \in BOOLEAN
         /\ now \in Time /\ changeTime \in Time
         /\ since \in 0..(Hold + 1)

\* While resetModule() waits, a press that began after it was called is no
\* younger than the clock says, unless it is known to be old enough.
PressIsAsOld == mode = "waiting" /\ active /\ ~down =>
                  since > Hold \/ Elapsed(changeTime) <= since

\* Only resetModule() looks at the press, and nothing is called after it.
LoopInStep == /\ mode = "reset" => pc = "idle"
              /\ pc = "check" => mode = "waiting"

IInv == Types /\ LoopInStep /\ PressIsAsOld /\ HeldBeforeReset

-----------------------------------------------------------------------------
LEMMA Constants ==
  Mod \in Nat \ {0} /\ Hold \in Nat \ {0} /\ 0 \in Time /\ 0 \in 0..(Hold + 1)
BY SwitchAssumption DEF Time

LEMMA DifferenceIs ==
  ASSUME NEW t \in Time, NEW s \in Time
  PROVE  (t - s) % Mod = IF t >= s THEN t - s ELSE t - s + Mod
BY Constants DEF Time

LEMMA NextTimeIs ==
  ASSUME NEW t \in Time
  PROVE  /\ (t + 1) % Mod = IF t + 1 = Mod THEN 0 ELSE t + 1
         /\ (t + 1) % Mod \in Time
BY Constants DEF Time

\* A tick adds at most one to what the clock says has passed: where it wraps,
\* nothing.
LEMMA TickAddsOne ==
  ASSUME NEW t \in Time, NEW s \in Time
  PROVE  (((t + 1) % Mod) - s) % Mod <= ((t - s) % Mod) + 1
<1> DEFINE u == (t + 1) % Mod
<1>1. u = (IF t + 1 = Mod THEN 0 ELSE t + 1) /\ u \in Time
  BY NextTimeIs
<1> HIDE DEF u
<1>2. (u - s) % Mod = IF u >= s THEN u - s ELSE u - s + Mod
  BY <1>1, DifferenceIs
<1>3. (t - s) % Mod = IF t >= s THEN t - s ELSE t - s + Mod
  BY DifferenceIs
<1>4. (u - s) % Mod <= ((t - s) % Mod) + 1
  BY <1>1, <1>2, <1>3, Constants DEF Time
<1> QED
  BY <1>4 DEF u

LEMMA NothingPassed ==
  ASSUME NEW t \in Time
  PROVE  (t - t) % Mod = 0
BY DifferenceIs DEF Time

-----------------------------------------------------------------------------
LEMMA TickInv ==
  ASSUME IInv, Tick
  PROVE  IInv'
<1>1. /\ now' = (now + 1) % Mod /\ since' = UpTo(since + 1, Hold + 1) /\ mode # "reset"
      /\ UNCHANGED <<pin, pc, mode, current, active, changeTime, down>>
  BY DEF Tick, readings
<1>2. Types'
  <2>1. now' \in Time
    BY <1>1, NextTimeIs DEF IInv, Types
  <2>2. since' \in 0..(Hold + 1)
    BY <1>1, Constants DEF IInv, Types, UpTo
  <2> QED
    BY <1>1, <2>1, <2>2 DEF IInv, Types
<1>3. PressIsAsOld'
  <2> SUFFICES ASSUME mode = "waiting", active, ~down
               PROVE  since' > Hold \/ (now' - changeTime) % Mod <= since'
    BY <1>1 DEF PressIsAsOld, Elapsed
  <2>1. since > Hold \/ (now - changeTime) % Mod <= since
    BY DEF IInv, PressIsAsOld, Elapsed
  <2>2. /\ (now' - changeTime) % Mod <= ((now - changeTime) % Mod) + 1
        /\ (now' - changeTime) % Mod \in Time /\ (now - changeTime) % Mod \in Time
    <3>1. now \in Time /\ now' \in Time /\ changeTime \in Time
      BY <1>2, <1>1 DEF IInv, Types
    <3>2. (now' - changeTime) % Mod <= ((now - changeTime) % Mod) + 1
      BY <1>1, <3>1, TickAddsOne
    <3>3. \A t, s \in Time : (t - s) % Mod \in Time
      BY DifferenceIs, Constants DEF Time
    <3> QED
      BY <3>1, <3>2, <3>3
  <2>3. since \in 0..(Hold + 1) /\ since' = IF since + 1 < Hold + 1 THEN since + 1 ELSE Hold + 1
    BY <1>1 DEF IInv, Types, UpTo
  <2> HIDE DEF Time
  <2>4. \A x, y \in Time : x \in Nat /\ y \in Nat
    BY Constants DEF Time
  <2> QED
    BY <2>1, <2>2, <2>3, <2>4, Constants
<1>4. HeldBeforeReset' /\ LoopInStep'
  BY <1>1 DEF HeldBeforeReset, LoopInStep, IInv
<1> QED
  BY <1>2, <1>3, <1>4 DEF IInv

\* The rest of run(): a change noted starts a press that is zero milliseconds old.
LEMMA DecideInv ==
  ASSUME IInv, Decide
  PROVE  IInv'
<1>1. /\ UNCHANGED <<pin, now, mode, current, down>> /\ mode # "reset"
      /\ pc' = IF mode = "waiting" THEN "check" ELSE "idle"
  BY DEF Decide, IInv, LoopInStep
<1>2. CASE Change
  <2>1. active' = current /\ changeTime' = now /\ since' = 0
    BY <1>2 DEF Change
  <2>2. Types'
    BY <1>1, <2>1, Constants DEF IInv, Types
  <2>3. (now - now) % Mod = 0
    BY NothingPassed DEF IInv, Types
  <2>4. PressIsAsOld'
    BY <1>1, <2>1, <2>3 DEF PressIsAsOld, Elapsed
  <2> QED
    BY <1>1, <2>2, <2>4 DEF IInv, HeldBeforeReset, LoopInStep
<1>3. CASE UNCHANGED <<active, changeTime, since>>
  BY <1>1, <1>3 DEF IInv, Types, LoopInStep, PressIsAsOld, Elapsed, HeldBeforeReset
<1> QED
  BY <1>2, <1>3 DEF Decide, NoChange

LEMMA Inductive == IInv /\ [Next]_vars => IInv'
<1> SUFFICES ASSUME IInv, [Next]_vars PROVE IInv'
  OBVIOUS
<1>1. CASE Bounce
  <2>1. pin' = ~pin /\ mode # "reset" /\ UNCHANGED <<now, pc, mode, current, active, changeTime, since, down>>
    BY <1>1 DEF Bounce, readings, history
  <2> QED
    BY <2>1 DEF IInv, Types, LoopInStep, PressIsAsOld, Elapsed, HeldBeforeReset
<1>2. CASE Tick
  BY <1>2, TickInv
<1>3. CASE Sample
  <2>1. current' = pin /\ mode # "reset" /\ pc' = "decide" /\ UNCHANGED <<pin, now, mode, active, changeTime, since, down>>
    BY <1>3 DEF Sample
  <2> QED
    BY <2>1 DEF IInv, Types, LoopInStep, PressIsAsOld, Elapsed, HeldBeforeReset
<1>4. CASE Decide
  BY <1>4, DecideInv
<1>5. CASE AskReset
  \* A button down is one the property leaves out.
  <2>1. /\ changeTime' = 0 /\ mode' = "waiting" /\ down' = active
        /\ pc = "idle" /\ UNCHANGED <<pin, now, pc, current, active, since>>
    BY <1>5 DEF AskReset
  <2> QED
    BY <2>1, Constants DEF IInv, Types, LoopInStep, PressIsAsOld, HeldBeforeReset
<1>6. CASE GiveUp
  <2>1. mode' = "running" /\ pc = "idle" /\ UNCHANGED <<pin, now, pc, current, active, changeTime, since, down>>
    BY <1>6 DEF GiveUp, readings, history
  <2> QED
    BY <2>1 DEF IInv, Types, LoopInStep, PressIsAsOld, HeldBeforeReset
<1>7. CASE Check
  <2>1. /\ mode = "waiting" /\ pc' = "idle"
        /\ UNCHANGED <<pin, now, current, active, changeTime, since, down>>
    BY <1>7 DEF Check, readings, history, IInv, LoopInStep
  <2>2. CASE ~Held
    <3>1. mode' = mode
      BY <1>7, <2>2 DEF Check
    <3> QED
      BY <2>1, <3>1 DEF IInv, Types, LoopInStep, PressIsAsOld, Elapsed, HeldBeforeReset
  <2>3. CASE Held
    <3>1. mode' = "reset" /\ active /\ (now - changeTime) % Mod > Hold
      BY <1>7, <2>3 DEF Check, Held, Elapsed
    <3>2. ~down => since > Hold
      <4>1. (now - changeTime) % Mod \in Nat
        BY DifferenceIs, Constants DEF IInv, Types, Time
      <4>2. ~down => since > Hold \/ (now - changeTime) % Mod <= since
        BY <2>1, <3>1 DEF IInv, PressIsAsOld, Elapsed
      <4>3. since \in Nat /\ Hold \in Nat
        BY Constants DEF IInv, Types
      <4> QED
        BY <3>1, <4>1, <4>2, <4>3
    <3> QED
      BY <2>1, <3>1, <3>2 DEF IInv, Types, LoopInStep, PressIsAsOld, HeldBeforeReset
  <2> QED
    BY <2>2, <2>3
<1>8. CASE Reboot
  <2>1. /\ pin' = pin /\ current' = pin /\ active' = FALSE /\ now' = 0 /\ changeTime' = 0
        /\ since' = 0 /\ mode' = "running" /\ pc' = "idle"
    BY <1>8 DEF Reboot, Begin
  <2> QED
    BY <2>1, Constants DEF IInv, Types, LoopInStep, PressIsAsOld, HeldBeforeReset
<1>9. CASE UNCHANGED vars
  BY <1>9 DEF vars, readings, history, IInv, Types, LoopInStep, PressIsAsOld, Elapsed, HeldBeforeReset
<1> QED
  BY <1>1, <1>2, <1>3, <1>4, <1>5, <1>6, <1>7, <1>8, <1>9 DEF Next, Loop

LEMMA Initial == Init => IInv
<1> SUFFICES ASSUME Init PROVE IInv
  OBVIOUS
<1> QED
  BY Constants DEF Init, IInv, Types, LoopInStep, PressIsAsOld, HeldBeforeReset

\* resetModule() wipes the flash only after the button, if it was up when it was
\* called, has been pressed for longer than the hold time: in no order of
\* bounces, ticks and turns of the loop, and wherever the clock wraps.
THEOREM ResetNeedsPress == Spec => []HeldBeforeReset
<1>1. IInv => HeldBeforeReset
  BY DEF IInv
<1> QED
  BY <1>1, Initial, Inductive, PTL DEF Spec

-----------------------------------------------------------------------------
(* A change reported is of a level that has been read for the debounce time.   *)
(* The start time is then as recent as the level read; unless run() has        *)
(* compared with the level that reset() put in the place of the one read. That *)
(* is over before resetModule() gives up, if it is patient enough.             *)
InTime == Debounce + 4 * MaxLate <= Patience

MoreTypes == /\ last \in BOOLEAN /\ start \in Time /\ waittime \in Time
             /\ steady \in 0..Debounce /\ late \in 0..MaxLate
             /\ pc \in {"idle", "decide", "check"} /\ mode \in {"running", "waiting", "reset"}

Aged == steady >= Debounce \/ Elapsed(start) <= steady

\* Steps of the loop since the start time was last compared with the debounce time.
Slack == IF pc = "check" THEN 0 ELSE IF pc = "idle" THEN MaxLate ELSE 2 * MaxLate

\* The start time may be older than the level: since the first reading after
\* reset(), and until the debounce time is over.
Stale == /\ mode = "waiting" /\ down
         /\ \/ pc = "decide" /\ Elapsed(waittime) <= MaxLate + late
            \/ /\ Elapsed(start) < Debounce + Slack + late
               /\ Elapsed(waittime) <= Elapsed(start) + 2 * MaxLate

Settled == mode # "reset" => current = active \/ Aged \/ Stale

\* Where last is not the level read, it is what setPin() or reset() put there.
Unread == pc # "decide" /\ mode # "reset" /\ last # current =>
            /\ ~last
            /\ \/ ~active
               \/ mode = "waiting" /\ down /\ pc = "idle" /\ Elapsed(waittime) <= late

DInv == Types /\ LoopInStep /\ MoreTypes /\ Settled /\ Unread

LEMMA Sizes ==
  /\ Mod \in Nat /\ Debounce \in Nat /\ MaxLate \in Nat /\ Patience \in Nat
  /\ 0 < Debounce /\ 0 < MaxLate /\ 0 \in 0..Debounce /\ 0 \in 0..MaxLate
  /\ Patience + 3 * MaxLate < Mod
BY SwitchAssumption

LEMMA ElapsedType ==
  ASSUME NEW s \in Time, now \in Time
  PROVE  Elapsed(s) \in Nat /\ Elapsed(s) < Mod
BY DifferenceIs, Constants DEF Elapsed, Time

LEMMA TickElapsed ==
  ASSUME NEW s \in Time, now \in Time, now' = (now + 1) % Mod
  PROVE  /\ (now' - s) % Mod \in Nat
         /\ (now' - s) % Mod <= Elapsed(s) + 1
         /\ Elapsed(s) + 1 < Mod => (now' - s) % Mod = Elapsed(s) + 1
<1>1. now' = (IF now + 1 = Mod THEN 0 ELSE now + 1) /\ now' \in Time
  BY NextTimeIs
<1>2. (now' - s) % Mod = IF now' >= s THEN now' - s ELSE now' - s + Mod
  BY <1>1, DifferenceIs
<1>3. Elapsed(s) = IF now >= s THEN now - s ELSE now - s + Mod
  BY DifferenceIs DEF Elapsed
<1> QED
  BY <1>1, <1>2, <1>3, Constants DEF Time

LEMMA DTick ==
  ASSUME InTime, DInv, Tick
  PROVE  Settled' /\ Unread' /\ MoreTypes'
<1>1. /\ now' = (now + 1) % Mod /\ late' = late + 1 /\ steady' = UpTo(steady + 1, Debounce)
      /\ mode # "reset" /\ late < MaxLate
      /\ UNCHANGED <<pc, mode, current, last, active, start, waittime, down>>
  BY DEF Tick, readings
<1>2. /\ now \in Time /\ start \in Time /\ waittime \in Time
      /\ steady \in Nat /\ steady <= Debounce /\ late \in Nat
  BY Sizes DEF DInv, Types, MoreTypes
<1> DEFINE E == Elapsed(start)
           F == (now' - start) % Mod
           W == Elapsed(waittime)
           X == (now' - waittime) % Mod
<1>3. /\ E \in Nat /\ F \in Nat /\ W \in Nat /\ X \in Nat
      /\ F <= E + 1 /\ (E + 1 < Mod => F = E + 1) /\ X <= W + 1
  BY <1>1, <1>2, ElapsedType, TickElapsed
<1>4. Elapsed(start)' = F /\ Elapsed(waittime)' = X
  BY <1>1 DEF Elapsed
<1> HIDE DEF E, F, W, X
<1>5. steady' \in Nat /\ steady' <= Debounce /\ (steady' = steady + 1 \/ steady' = Debounce)
  BY <1>1, <1>2, Sizes DEF UpTo
<1>6. Aged => Aged'
  <2>1. (steady >= Debounce \/ E <= steady) => (steady' >= Debounce \/ F <= steady')
    BY <1>1, <1>2, <1>3, <1>5, Sizes DEF UpTo
  <2> QED
    BY <1>4, <2>1 DEF Aged, E
<1>7. Stale => Stale'
  <2> SUFFICES ASSUME Stale PROVE Stale'
    OBVIOUS
  <2>1. CASE pc = "decide" /\ W <= MaxLate + late
    <3>1. X <= MaxLate + late'
      BY <1>1, <1>2, <1>3, <2>1, Sizes
    <3> QED
      BY <1>1, <1>4, <2>1, <3>1 DEF Stale
  <2>2. CASE E < Debounce + Slack + late /\ W <= E + 2 * MaxLate
    <3>1. Slack' = Slack /\ Slack \in Nat /\ Slack <= 2 * MaxLate
      BY <1>1, Sizes DEF Slack
    <3>2. E + 1 < Mod
      BY <1>1, <1>2, <1>3, <2>2, <3>1, Sizes DEF InTime
    <3>3. F < Debounce + Slack' + late' /\ X <= F + 2 * MaxLate
      BY <1>1, <1>2, <1>3, <2>2, <3>1, <3>2, Sizes
    <3> QED
      BY <1>1, <1>4, <3>3 DEF Stale
  <2> QED
    BY <2>1, <2>2 DEF Stale, E, W
<1>8. Settled'
  BY <1>1, <1>6, <1>7 DEF DInv, Settled
<1>9. Unread'
  <2>1. W <= late => X <= late'
    BY <1>1, <1>2, <1>3
  <2> QED
    BY <1>1, <1>4, <2>1 DEF DInv, Unread, W
<1>10. MoreTypes'
  BY <1>1, <1>2, <1>5, Sizes DEF DInv, MoreTypes
<1> QED
  BY <1>8, <1>9, <1>10

LEMMA DSample ==
  ASSUME DInv, Sample
  PROVE  Settled' /\ Unread' /\ MoreTypes'
<1>1. /\ current' = pin /\ start' = (IF pin # last THEN now ELSE start)
      /\ steady' = (IF pin # current THEN 0 ELSE steady)
      /\ pc = "idle" /\ pc' = "decide" /\ late' = 0 /\ mode # "reset"
      /\ UNCHANGED <<now, mode, last, active, waittime, down>>
  BY DEF Sample
<1>2. /\ now \in Time /\ start \in Time /\ waittime \in Time
      /\ steady \in Nat /\ steady <= Debounce /\ late \in Nat /\ late <= MaxLate
      /\ pin \in BOOLEAN /\ last \in BOOLEAN /\ current \in BOOLEAN /\ active \in BOOLEAN
  BY Sizes DEF DInv, Types, MoreTypes
<1>3. MoreTypes'
  BY <1>1, <1>2, Sizes DEF DInv, MoreTypes
<1>4. CASE pin # last
  <2>1. Elapsed(start)' = 0
    BY <1>1, <1>2, <1>4, NothingPassed DEF Elapsed
  <2>2. steady' \in Nat
    BY <1>1, <1>2
  <2> QED
    BY <1>1, <1>3, <2>1, <2>2 DEF Settled, Unread, Aged
<1>5. CASE pin = last /\ last = current
  <2>1. UNCHANGED <<current, start, steady, now>> /\ Elapsed(start)' = Elapsed(start)
        /\ Elapsed(waittime)' = Elapsed(waittime)
    BY <1>1, <1>5 DEF Elapsed
  <2>2. Stale => Stale'
    <3>1. Elapsed(start) \in Nat
      BY <1>2, ElapsedType
    <3>2. Slack = MaxLate /\ Slack' = 2 * MaxLate
      BY <1>1 DEF Slack
    <3>3. Elapsed(start) < Debounce + Slack + late => Elapsed(start) < Debounce + Slack' + late'
      BY <1>1, <1>2, <3>1, <3>2, Sizes
    <3> QED
      BY <1>1, <2>1, <3>3 DEF Stale
  <2> QED
    BY <1>1, <1>3, <2>1, <2>2 DEF DInv, Settled, Unread, Aged
<1>6. CASE pin = last /\ last # current
  <2>1. ~pin /\ ~current'
    BY <1>1, <1>2, <1>6 DEF DInv, Unread
  <2>2. CASE ~active
    BY <1>1, <1>2, <1>3, <2>1, <2>2 DEF Settled, Unread
  <2>3. CASE mode = "waiting" /\ down /\ Elapsed(waittime) <= late
    <3>1. Elapsed(waittime)' = Elapsed(waittime) /\ Elapsed(waittime) \in Nat
      BY <1>1, <1>2, ElapsedType DEF Elapsed
    <3>2. Elapsed(waittime)' <= MaxLate + late'
      BY <1>1, <1>2, <2>3, <3>1, Sizes
    <3> QED
      BY <1>1, <1>3, <2>3, <3>2 DEF Settled, Unread, Stale
  <2> QED
    BY <1>1, <1>6, <2>2, <2>3 DEF DInv, Unread
<1> QED
  BY <1>4, <1>5, <1>6, <1>2

LEMMA DDecide ==
  ASSUME DInv, Decide
  PROVE  Settled' /\ Unread' /\ MoreTypes'
<1>1. /\ pc = "decide" /\ last' = current /\ late' = 0
      /\ pc' = (IF mode = "waiting" THEN "check" ELSE "idle")
      /\ UNCHANGED <<pin, now, mode, current, start, waittime, steady, down>>
  BY DEF Decide
<1>2. Unread'
  BY <1>1 DEF Unread
<1>3. MoreTypes'
  BY <1>1, Sizes DEF DInv, Types, MoreTypes
<1>4. Settled'
  <2>1. CASE Persists
    <3>1. active' = current'
      BY <1>1, <2>1 DEF Decide, Change, NoChange
    <3> QED
      BY <3>1 DEF Settled
  <2>2. CASE ~Persists
    <3>1. active' = active
      BY <2>2 DEF Decide
    <3>2. Elapsed(start)' = Elapsed(start) /\ Elapsed(waittime)' = Elapsed(waittime)
      BY <1>1 DEF Elapsed
    <3>3. Stale => Stale'
      <4> SUFFICES ASSUME Stale PROVE Stale'
        OBVIOUS
      <4>1. /\ Elapsed(start) \in Nat /\ Elapsed(waittime) \in Nat
            /\ late \in Nat /\ late <= MaxLate
        BY ElapsedType, Sizes DEF DInv, Types, MoreTypes
      <4>2. mode = "waiting" /\ Slack' = 0
        BY <1>1 DEF Stale, Slack
      <4>3. Elapsed(start) < Debounce
        BY <2>2, <4>1, Sizes DEF Persists
      <4>4. Elapsed(waittime) <= Elapsed(start) + 2 * MaxLate
        BY <4>1, Sizes DEF Stale
      <4>5. Elapsed(start)' < Debounce + Slack' + late'
        BY <1>1, <3>2, <4>1, <4>2, <4>3, Sizes
      <4> QED
        BY <1>1, <3>2, <4>4, <4>5 DEF Stale
    <3> QED
      BY <1>1, <3>1, <3>2, <3>3 DEF DInv, Settled, Aged
  <2> QED
    BY <2>1, <2>2
<1> QED
  BY <1>2, <1>3, <1>4

LEMMA DAskReset ==
  ASSUME DInv, AskReset
  PROVE  Settled' /\ Unread' /\ MoreTypes'
<1>1. /\ mode = "running" /\ mode' = "waiting" /\ pc = "idle" /\ waittime' = now /\ last' = FALSE
      /\ down' = active /\ late' = 0
      /\ UNCHANGED <<pin, now, pc, current, active, start, steady>>
  BY DEF AskReset
<1>2. now \in Time /\ active \in BOOLEAN
  BY DEF DInv, Types
<1>3. MoreTypes'
  BY <1>1, <1>2, Sizes DEF DInv, MoreTypes
<1>4. Settled'
  BY <1>1 DEF DInv, Settled, Stale, Aged, Elapsed
<1>5. Unread'
  <2>1. Elapsed(waittime)' = 0
    BY <1>1, <1>2, NothingPassed DEF Elapsed
  <2> QED
    BY <1>1, <1>2, <2>1 DEF Unread
<1> QED
  BY <1>3, <1>4, <1>5

LEMMA DGiveUp ==
  ASSUME InTime, DInv, GiveUp
  PROVE  Settled' /\ Unread' /\ MoreTypes'
<1>1. /\ mode = "waiting" /\ mode' = "running" /\ pc = "idle" /\ late' = 0
      /\ Elapsed(waittime) > Patience
      /\ UNCHANGED <<pc, now, current, last, active, start, waittime, steady, down>>
  BY DEF GiveUp, readings, history
<1>2. /\ Elapsed(start) \in Nat /\ Elapsed(waittime) \in Nat /\ late \in Nat /\ late <= MaxLate
  BY ElapsedType, Sizes DEF DInv, Types, MoreTypes
<1>3. MoreTypes'
  BY <1>1, Sizes DEF DInv, MoreTypes
<1>4. ~Stale
  <2>1. SUFFICES ASSUME Elapsed(start) < Debounce + Slack + late,
                        Elapsed(waittime) <= Elapsed(start) + 2 * MaxLate
                 PROVE  FALSE
    BY <1>1 DEF Stale
  <2>2. Slack = MaxLate
    BY <1>1 DEF Slack
  <2> QED
    BY <1>1, <1>2, <2>1, <2>2, Sizes DEF InTime
<1>5. Elapsed(start)' = Elapsed(start)
  BY <1>1 DEF Elapsed
<1>6. Settled'
  BY <1>1, <1>4, <1>5 DEF DInv, Settled, Aged
<1>7. ~(Elapsed(waittime) <= late)
  BY <1>1, <1>2, Sizes DEF InTime
<1>8. Unread'
  BY <1>1, <1>7 DEF DInv, Unread
<1> QED
  BY <1>3, <1>6, <1>8

LEMMA DCheck ==
  ASSUME DInv, Check
  PROVE  Settled' /\ Unread' /\ MoreTypes'
<1>1. /\ pc = "check" /\ pc' = "idle" /\ late' = 0 /\ mode = "waiting" /\ mode' \in {"waiting", "reset"}
      /\ UNCHANGED <<pin, now, current, last, active, start, waittime, steady, down>>
  BY DEF Check, Held, readings, history, DInv, LoopInStep
<1>2. MoreTypes'
  BY <1>1, Sizes DEF DInv, MoreTypes
<1>3. Elapsed(start)' = Elapsed(start) /\ Elapsed(waittime)' = Elapsed(waittime)
  BY <1>1 DEF Elapsed
<1>4. mode' = "waiting" /\ Stale => Stale'
  <2>1. /\ Elapsed(start) \in Nat /\ late \in Nat /\ late <= MaxLate
    BY ElapsedType, Sizes DEF DInv, Types, MoreTypes
  <2>2. Slack = 0 /\ Slack' = MaxLate
    BY <1>1 DEF Slack
  <2>3. Elapsed(start) < Debounce + Slack + late => Elapsed(start)' < Debounce + Slack' + late'
    BY <1>1, <1>3, <2>1, <2>2, Sizes
  <2> QED
    BY <1>1, <1>3, <2>3 DEF Stale
<1>5. Settled'
  BY <1>1, <1>3, <1>4 DEF DInv, Settled, Aged
<1>6. Unread'
  BY <1>1 DEF DInv, Unread
<1> QED
  BY <1>2, <1>5, <1>6

\* The types of the first invariant and the place of the loop need nothing else.
LEMMA TypesKept ==
  ASSUME Types, LoopInStep, [Next]_vars
  PROVE  Types' /\ LoopInStep'
<1>1. CASE Tick
  <2>1. /\ now' = (now + 1) % Mod /\ since' = UpTo(since + 1, Hold + 1)
        /\ UNCHANGED <<pin, pc, mode, current, active, changeTime>>
    BY <1>1 DEF Tick, readings
  <2>2. now' \in Time
    BY <2>1, NextTimeIs DEF Types
  <2>3. since' \in 0..(Hold + 1)
    BY <2>1, Constants DEF Types, UpTo
  <2> QED
    BY <2>1, <2>2, <2>3 DEF Types, LoopInStep
<1>2. CASE Decide
  BY <1>2, Constants DEF Decide, Change, NoChange, Types, LoopInStep
<1>3. CASE Bounce
  <2>1. pin' = ~pin /\ UNCHANGED <<now, pc, mode, current, active, changeTime, since>>
    BY <1>3 DEF Bounce, readings, history
  <2> QED
    BY <2>1 DEF Types, LoopInStep
<1>4. CASE Sample \/ AskReset
  BY <1>4, Constants DEF Sample, AskReset, Types, LoopInStep
<1>5. CASE GiveUp \/ Check
  BY <1>5 DEF GiveUp, Check, readings, history, Types, LoopInStep
<1>6. CASE Reboot
  BY <1>6, Constants DEF Reboot, Begin, Types, LoopInStep
<1>7. CASE UNCHANGED vars
  BY <1>7 DEF vars, readings, history, Types, LoopInStep
<1> QED
  BY <1>1, <1>2, <1>3, <1>4, <1>5, <1>6, <1>7 DEF Next, Loop

LEMMA DInductive == InTime /\ DInv /\ [Next]_vars => DInv'
<1> SUFFICES ASSUME InTime, DInv, [Next]_vars PROVE DInv'
  OBVIOUS
<1>1. CASE Tick
  BY <1>1, DTick, TypesKept DEF DInv
<1>2. CASE Sample
  BY <1>2, DSample, TypesKept DEF DInv
<1>3. CASE Decide
  BY <1>3, DDecide, TypesKept DEF DInv
<1>4. CASE AskReset
  BY <1>4, DAskReset, TypesKept DEF DInv
<1>5. CASE GiveUp
  BY <1>5, DGiveUp, TypesKept DEF DInv
<1>6. CASE Check
  BY <1>6, DCheck, TypesKept DEF DInv
<1>7. CASE Reboot
  <2>1. /\ now' = 0 /\ late' = 0 /\ pc' = "idle" /\ mode' = "running" /\ last' = FALSE
        /\ active' = FALSE /\ start' = 0 /\ waittime' = 0 /\ steady' = 0
    BY <1>7 DEF Reboot, Begin
  <2>2. MoreTypes'
    BY <2>1, Sizes, Constants DEF MoreTypes
  <2>3. Elapsed(start)' = 0
    BY <2>1, NothingPassed, Constants DEF Elapsed
  <2>4. Settled' /\ Unread'
    BY <2>1, <2>3 DEF Settled, Aged, Unread
  <2> QED
    BY <1>7, <2>2, <2>4, TypesKept DEF DInv
<1>8. CASE Bounce \/ UNCHANGED vars
  <2>1. UNCHANGED <<now, late, pc, mode, current, last, active, start, waittime, steady, down>>
    BY <1>8 DEF Bounce, vars, readings, history
  <2>2. MoreTypes' /\ Settled' /\ Unread'
    BY <2>1 DEF DInv, MoreTypes, Settled, Unread, Aged, Stale, Slack, Elapsed
  <2> QED
    BY <2>2, TypesKept DEF DInv
<1> QED
  BY <1>1, <1>2, <1>3, <1>4, <1>5, <1>6, <1>7, <1>8 DEF Next, Loop

LEMMA DInitial == Init => DInv
<1> SUFFICES ASSUME Init PROVE DInv
  OBVIOUS
<1>1. MoreTypes /\ Unread
  BY Sizes, Constants DEF Init, MoreTypes, Unread
<1>2. Elapsed(start) = 0
  BY NothingPassed, Constants DEF Init, Elapsed
<1>3. Settled
  BY <1>2 DEF Init, Settled, Aged
<1> QED
  BY <1>1, <1>3, Constants DEF Init, DInv, Types, LoopInStep

LEMMA DChange ==
  ASSUME DInv, [Next]_vars, active' # active, ~(mode = "waiting" /\ down), mode # "reset"
  PROVE  steady >= Debounce
<1>1. CASE Decide
  <2>1. Persists /\ current # active
    BY <1>1 DEF Decide, Change, NoChange
  <2>2. Aged
    BY <2>1 DEF DInv, Settled, Stale
  <2>3. Elapsed(start) \in Nat /\ steady \in Nat
    BY ElapsedType DEF DInv, Types, MoreTypes
  <2> QED
    BY <2>1, <2>2, <2>3, Sizes DEF Persists, Aged
<1>2. CASE ~Decide
  BY <1>2 DEF Next, Loop, Bounce, Tick, Sample, AskReset, GiveUp, Check, Reboot, vars, readings, history
<1> QED
  BY <1>1, <1>2

\* For every clock width and debounce time and any lateness of the loop that
\* lets resetModule() read the switch a few times: what is reported is a level
\* every reading has shown for the debounce time, however old the start time
\* and wherever the clock wraps.
THEOREM OnlyDebounced == ASSUME InTime PROVE Spec => Debounced
<1>1. DInv /\ [Next]_vars =>
        [active' # active => steady >= Debounce \/ (mode = "waiting" /\ down) \/ mode = "reset"]_vars
  BY DChange
<1> QED
  BY <1>1, DInitial, DInductive, PTL DEF Spec, Debounced
=============================================================================
