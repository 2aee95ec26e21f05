------------------------------- MODULE Switch -------------------------------
(* The push button (src/CBUSSwitch.cpp) and the wait of                        *)
(* CBUSConfig::resetModule() for a long press. The pin may bounce between any  *)
(* two readings and the clock wraps; run() is called from the loop of the      *)
(* module, or from that of resetModule(). A level is TRUE when it is that of   *)
(* a pressed button, whichever polarity setPin() chose.                        *)
EXTENDS Integers

CONSTANTS Mod,       \* readings of SystemTick::GetMilli() are modulo this: 2^32
          Debounce,  \* m_debounceDuration
          Hold,      \* 5000
          Patience,  \* 30000
          MaxLate    \* milliseconds between two steps of the loop, at most

ASSUME SwitchAssumption ==
  /\ {Mod, Debounce, Hold, Patience, MaxLate} \subseteq Nat \ {0}
  /\ Hold + 2 * MaxLate < Mod /\ Debounce + 2 * MaxLate < Mod
  /\ Patience + 3 * MaxLate < Mod

VARIABLES
  pin,         \* the level of the pin
  now,         \* GetMilli()
  late,        \* since the last step of the loop
  pc,          \* the loop: "idle", "decide" inside run(), "check" after it
  mode,        \* "running", "waiting" in resetModule(), "reset"
  current, last, active, changed,   \* m_currentState, m_lastState, m_activeState, m_stateChanged
  start,       \* m_debounceStartTime
  changeTime,  \* m_lastStateChangeTime
  waittime,    \* of resetModule()
  steady,      \* history: how long every reading has shown `current`, up to Debounce
  since,       \* history: how long `active` has been what it is, up to Hold + 1
  down         \* history: the button was pressed when resetModule() was called

readings == <<current, last, active, changed, start, changeTime>>
history == <<steady, since, down>>
vars == <<pin, now, late, pc, mode, readings, waittime, history>>

\* setPin(), and again after a reboot.
Begin == /\ now' = 0 /\ late' = 0 /\ pc' = "idle" /\ mode' = "running"
         /\ current' = pin /\ last' = FALSE /\ active' = FALSE /\ changed' = FALSE
         /\ start' = 0 /\ changeTime' = 0 /\ waittime' = 0
         /\ steady' = 0 /\ since' = 0 /\ down' = FALSE

Init == /\ pin \in BOOLEAN
        /\ now = 0 /\ late = 0 /\ pc = "idle" /\ mode = "running"
        /\ current = pin /\ last = FALSE /\ active = FALSE /\ changed = FALSE
        /\ start = 0 /\ changeTime = 0 /\ waittime = 0
        /\ steady = 0 /\ since = 0 /\ down = FALSE

Elapsed(t) == (now - t) % Mod
UpTo(n, bound) == IF n < bound THEN n ELSE bound

-----------------------------------------------------------------------------
Bounce == /\ mode # "reset"
          /\ pin' = ~pin
          /\ UNCHANGED <<now, late, pc, mode, readings, waittime, history>>

Tick == /\ mode # "reset" /\ late < MaxLate
        /\ now' = (now + 1) % Mod /\ late' = late + 1
        /\ steady' = UpTo(steady + 1, Debounce) /\ since' = UpTo(since + 1, Hold + 1)
        /\ UNCHANGED <<pin, pc, mode, readings, waittime, down>>

\* mutant: a reading that differs does not restart the debounce time.
SampleKeepsStart ==
  /\ pc = "idle" /\ (mode = "running" \/ (mode = "waiting" /\ Elapsed(waittime) <= Patience))
  /\ current' = pin
  /\ UNCHANGED start
  /\ steady' = IF pin # current THEN 0 ELSE steady
  /\ pc' = "decide" /\ late' = 0
  /\ UNCHANGED <<pin, now, mode, last, active, changed, changeTime, waittime, since, down>>
\* mutant: a reading is compared with the state of the switch, not the one before.
SampleRestarts ==
  /\ pc = "idle" /\ (mode = "running" \/ (mode = "waiting" /\ Elapsed(waittime) <= Patience))
  /\ current' = pin
  /\ start' = IF pin # active THEN now ELSE start
  /\ steady' = IF pin # current THEN 0 ELSE steady
  /\ pc' = "decide" /\ late' = 0
  /\ UNCHANGED <<pin, now, mode, last, active, changed, changeTime, waittime, since, down>>
\* run(), to the first reading of the clock. resetModule() has asked before
\* whether to give up.
Sample ==
  /\ pc = "idle" /\ (mode = "running" \/ (mode = "waiting" /\ Elapsed(waittime) <= Patience))
  /\ current' = pin
  /\ start' = IF pin # last THEN now ELSE start
  /\ steady' = IF pin # current THEN 0 ELSE steady
  /\ pc' = "decide" /\ late' = 0
  /\ UNCHANGED <<pin, now, mode, last, active, changed, changeTime, waittime, since, down>>

\* mutant: the time of the change is not noted.
ChangeUntimed == /\ current # active
                 /\ active' = current /\ changed' = TRUE
                 /\ since' = 0
                 /\ UNCHANGED changeTime
\* A level that has persisted is the state of the switch.
Change == /\ current # active
          /\ active' = current /\ changed' = TRUE
          /\ changeTime' = now /\ since' = 0
NoChange == /\ current = active
            /\ changed' = FALSE
            /\ UNCHANGED <<active, changeTime, since>>

Persists == Elapsed(start) >= Debounce

\* The rest of run(). Until the level has persisted, stateChanged() keeps
\* reporting the change before.
Decide ==
  /\ pc = "decide"
  /\ \/ Persists /\ (Change \/ NoChange)
     \/ ~Persists /\ UNCHANGED <<active, changed, changeTime, since>>
  /\ last' = current
  /\ pc' = IF mode = "waiting" THEN "check" ELSE "idle"
  /\ late' = 0
  /\ UNCHANGED <<pin, now, mode, current, start, waittime, steady, down>>

-----------------------------------------------------------------------------
(* resetModule() with the button.                                              *)

\* Up to its loop: reset() of the switch keeps what is reported, pressed or not.
AskReset ==
  /\ mode = "running" /\ pc = "idle"
  /\ mode' = "waiting"
  /\ waittime' = now
  /\ last' = FALSE /\ changed' = FALSE /\ changeTime' = 0
  /\ down' = active
  /\ late' = 0
  /\ UNCHANGED <<pin, now, pc, current, active, start, steady, since>>

GiveUp ==
  /\ mode = "waiting" /\ pc = "idle" /\ Elapsed(waittime) > Patience
  /\ mode' = "running" /\ late' = 0
  /\ UNCHANGED <<pin, now, pc, readings, waittime, history>>

Held == active /\ Elapsed(changeTime) > Hold
Check ==
  /\ pc = "check"
  /\ mode' = IF Held THEN "reset" ELSE mode
  /\ pc' = "idle" /\ late' = 0
  /\ UNCHANGED <<pin, now, readings, waittime, history>>

Reboot == mode = "reset" /\ Begin /\ UNCHANGED pin

Loop == Sample \/ Decide \/ GiveUp \/ Check \/ Reboot
Next == Bounce \/ Tick \/ AskReset \/ Loop

\* The clock ticks, and the loop calls run() for ever.
Spec == Init /\ [][Next]_vars /\ WF_vars(Tick) /\ WF_vars(Loop)

-----------------------------------------------------------------------------
\* The reported level changes only to one that every reading has shown for the
\* debounce time, wherever the clock wraps and however old the start time is;
\* except after reset() of a pressed switch, which makes the next reading
\* compare with a level that was never read (162 against 121).
Debounced == [][active' # active => steady >= Debounce \/ (mode = "waiting" /\ down) \/ mode = "reset"]_vars

\* A factory reset comes after a press of five seconds, wherever the clock
\* wraps: "wait until switch held for a further 5 secs" (CBUSConfig.cpp:898). A
\* button pressed when resetModule() is called is left out: its press is taken
\* to have begun when the module started (164).
HeldBeforeReset == mode = "reset" /\ ~down => active /\ since > Hold

\* A button held or left alone is reported as it is.
PressSeen == \A level \in BOOLEAN : (<>[](pin = level)) => []<>(active = level)
=============================================================================
