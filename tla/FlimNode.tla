------------------------------ MODULE FlimNode ------------------------------
(***************************************************************************)
(* One node's identity and mode: the FLiM state machine driven by the push *)
(* button, the learn mode and the identity commands from the bus, the two  *)
(* mode LEDs, and the identity in flash, across restarts and power cuts.   *)
(*                                                                         *)
(* process() runs the LEDs, samples the switch, runs FLiMSWCheck() and     *)
(* handles the frames waiting; each of these is an action, in any order,   *)
(* since each may find nothing to do.  What the switch has debounced and   *)
(* for how long it was held are inputs.                                    *)
(***************************************************************************)
EXTENDS Naturals

CONSTANTS Number,    \* the node numbers a configuration tool hands out
          CanId      \* the CAN IDs seen in CANID commands

ASSUME NumberAssumption == Number \subseteq Nat \ {0}
ASSUME CanIdAssumption == CanId \subseteq 0 .. 255

VARIABLES flim,          \* m_bFLiM and its byte in flash
          nodeNum,       \* m_nodeNum and its bytes in flash
          canId,         \* m_canId and its byte in flash
          state, prev,   \* m_flimState, m_prevFlimState
          learn,         \* m_bLearn
          yellow, green, \* the LEDs
          asked,         \* history: renegotiate(), or a factory reset given up,
                         \*   since the LEDs last showed a mode
          torn           \* history: the last identity write was cut short

config == <<flim, nodeNum, canId>>
vars == <<config, state, prev, learn, yellow, green, asked, torn>>

fsState == {"fsUnknown", "fsSLiM", "fsFLiM", "fsPressed", "fsFlashing",
            "fsFLiMSetup", "fsPressedSetup"}

-----------------------------------------------------------------------------
(* CBUSLED *)
Led == [lit : BOOLEAN, blink : BOOLEAN, pulse : BOOLEAN]
Dark == [lit |-> FALSE, blink |-> FALSE, pulse |-> FALSE]

(* mutant: on() does not end the blinking *)
OnKeepsBlink(led) == [led EXCEPT !.lit = TRUE]

On(led) == [led EXCEPT !.lit = TRUE, !.blink = FALSE]
Off(led) == [led EXCEPT !.lit = FALSE, !.blink = FALSE]
Blink(led) == [led EXCEPT !.blink = TRUE]

(* run(): the blink period may be over, and then the pulse *)
Toggled(led) == {led} \cup {[l EXCEPT !.lit = ~@] : l \in {m \in {led} : m.blink}}
Expired(led) == {led} \cup {[l EXCEPT !.pulse = FALSE, !.lit = FALSE] : l \in {m \in {led} : m.pulse}}
Run(led) == UNION {Expired(l) : l \in Toggled(led)}

(* pulse() runs the LED once; a pulse just started does not expire *)
Pulse(led) == Toggled([led EXCEPT !.pulse = TRUE, !.lit = TRUE])

-----------------------------------------------------------------------------
(* indicateModeOnLEDs() *)
ShowFLiM == yellow' = On(yellow) /\ green' = Off(green) /\ asked' = FALSE
ShowSLiM == yellow' = Off(yellow) /\ green' = On(green) /\ asked' = FALSE
ShowChanging ==
    /\ yellow' = Blink(yellow)
    /\ green' = IF flim THEN Off(green) ELSE On(green)

(* mutant: setSLiM() keeps the node number *)
BecomeSLiMKeepsNumber ==
    /\ flim' = FALSE /\ canId' = 1
    /\ state' = "fsSLiM"
    /\ ShowSLiM
    /\ torn' = FALSE
    /\ UNCHANGED <<nodeNum, prev, learn>>

(* setSLiM() and the FLiM half of doSnn(), with indicateFLiMMode() *)
BecomeSLiM ==
    /\ flim' = FALSE /\ nodeNum' = 0 /\ canId' = 1
    /\ state' = "fsSLiM"
    /\ ShowSLiM
    /\ torn' = FALSE
    /\ UNCHANGED <<prev, learn>>

(* after a frame the LED that is dark in the current mode flickers *)
Flicker ==
    IF flim THEN green' \in Pulse(green) /\ UNCHANGED yellow
            ELSE yellow' \in Pulse(yellow) /\ UNCHANGED green

-----------------------------------------------------------------------------
Init ==
    /\ flim = FALSE /\ nodeNum = 0 /\ canId = 1
    /\ state = "fsUnknown" /\ prev = "fsUnknown"
    /\ learn = FALSE /\ yellow = Dark /\ green = Dark
    /\ asked = FALSE /\ torn = FALSE

(* setup() of the application: indicateFLiMMode(getFLiM()) *)
Setup ==
    /\ state = "fsUnknown"
    /\ state' = IF flim THEN "fsFLiM" ELSE "fsSLiM"
    /\ IF flim THEN ShowFLiM ELSE ShowSLiM
    /\ UNCHANGED <<config, prev, learn, torn>>

Goto(from, to) == state = from /\ state' = to

KeepLeds == UNCHANGED <<yellow, green, asked>>

(* mutant: the mode to return to is not remembered *)
PressForgets ==
    /\ state \in {"fsFLiM", "fsSLiM"}
    /\ state' = "fsPressed"
    /\ KeepLeds
    /\ UNCHANGED <<config, prev, learn, torn>>

(* FLiMSWCheck() with the switch pressed or released; held: pressed for     *)
(* longer than FLiM_HOLD_TIME; settled: it had been pressed for longer than *)
(* FLiM_DEBOUNCE_TIME                                                       *)
Press ==
    /\ state \in {"fsFLiM", "fsSLiM"}
    /\ prev' = state /\ state' = "fsPressed"
    /\ KeepLeds
    /\ UNCHANGED <<config, learn, torn>>

Hold ==
    /\ Goto("fsPressed", "fsFlashing")
    /\ ShowChanging
    /\ UNCHANGED <<config, prev, learn, asked, torn>>

(* initFLiM() *)
EnterSetup(from) ==
    /\ Goto(from, "fsFLiMSetup")
    /\ ShowChanging
    /\ UNCHANGED <<config, prev, learn, asked, torn>>

ReleaseShort(settled) ==
    /\ state = "fsPressed"
    /\ IF prev = "fsFLiM" /\ settled
       THEN EnterSetup("fsPressed")
       ELSE state' = prev /\ KeepLeds /\ UNCHANGED <<config, prev, learn, torn>>

ReleaseLong ==
    /\ state = "fsFlashing"
    /\ IF prev = "fsSLiM" THEN EnterSetup("fsFlashing") ELSE BecomeSLiM

PressInSetup ==
    /\ Goto("fsFLiMSetup", "fsPressedSetup")
    /\ KeepLeds
    /\ UNCHANGED <<config, prev, learn, torn>>

ReleaseInSetup(settled) ==
    /\ state = "fsPressedSetup"
    /\ IF settled
       THEN /\ state' = prev
            /\ IF prev = "fsFLiM" THEN ShowFLiM ELSE ShowSLiM
       ELSE state' = "fsFLiMSetup" /\ KeepLeds
    /\ UNCHANGED <<config, prev, learn, torn>>

(* the application left the mode unknown: revertSLiM() *)
CheckUnknown == state = "fsUnknown" /\ BecomeSLiM

FLiMSWCheck ==
    \/ Press
    \/ Hold
    \/ \E settled \in BOOLEAN : ReleaseShort(settled) \/ ReleaseInSetup(settled)
    \/ ReleaseLong
    \/ PressInSetup
    \/ CheckUnknown

-----------------------------------------------------------------------------
(* Frames, as parseFLiMCmd() and then process() handle them.                *)
Running == state # "fsUnknown"

(* NNLRN for a node number, NNULN: the learn mode switch *)
Nnlrn(nn) ==
    /\ Running
    /\ learn' = (nn = nodeNum /\ (learn \/ flim))
    /\ Flicker
    /\ UNCHANGED <<config, state, prev, asked, torn>>

Nnuln ==
    /\ Running
    /\ learn' = FALSE
    /\ Flicker
    /\ UNCHANGED <<config, state, prev, asked, torn>>

(* SNN: doSnn() in setup mode; the flicker is then the green LED's *)
Snn(nn) ==
    \/ /\ state = "fsFLiMSetup"
       /\ nodeNum' = nn /\ flim' = TRUE /\ state' = "fsFLiM"
       /\ yellow' = On(yellow) /\ green' \in Pulse(Off(green))
       /\ asked' = FALSE /\ torn' = FALSE
       /\ UNCHANGED <<canId, prev, learn>>
    \/ /\ Running /\ state # "fsFLiMSetup"
       /\ Flicker
       /\ UNCHANGED <<config, state, prev, learn, asked, torn>>

(* CANID for this node: setCANID() *)
SetCanId(id) ==
    /\ Running
    /\ canId' = IF id \in 1 .. 99 THEN id ELSE canId
    /\ Flicker
    /\ UNCHANGED <<flim, nodeNum, state, prev, learn, asked, torn>>

(* any other frame *)
OtherFrame ==
    /\ Running
    /\ Flicker
    /\ UNCHANGED <<config, state, prev, learn, asked, torn>>

RunLeds ==
    /\ yellow' \in Run(yellow) /\ green' \in Run(green)
    /\ UNCHANGED <<config, state, prev, learn, asked, torn>>

(* calls of the application *)
SetSLiM == Running /\ BecomeSLiM

Renegotiate ==
    /\ Running
    /\ ShowChanging
    /\ asked' = TRUE
    /\ UNCHANGED <<config, state, prev, learn, torn>>

(* A restart loses the RAM.  The identity is written to flash in steps: a   *)
(* power cut in doSnn() leaves the new number without the mode, one in      *)
(* setSLiM() the old mode or the old CAN ID.                                *)
Restarted ==
    /\ state' = "fsUnknown" /\ prev' = "fsUnknown" /\ learn' = FALSE
    /\ yellow' = Dark /\ green' = Dark /\ asked' = FALSE

Restart == Restarted /\ UNCHANGED <<config, torn>>

SnnCut(nn) ==
    /\ state = "fsFLiMSetup"
    /\ nodeNum' = nn /\ torn' = TRUE
    /\ UNCHANGED <<flim, canId>>
    /\ Restarted

SLiMCut ==
    /\ nodeNum' = 0
    /\ \/ UNCHANGED flim /\ torn' = TRUE
       \/ flim' = FALSE /\ torn' = FALSE
    /\ UNCHANGED canId
    /\ Restarted

(* resetModule() with LEDs and switch: it blinks both LEDs while it waits    *)
(* for the button, runs them meanwhile, and gives up after 30 seconds.      *)
Waited(led) == [lit : BOOLEAN, blink : {TRUE}, pulse : {FALSE, led.pulse}]

ResetGivenUp ==
    /\ yellow' \in Waited(yellow) /\ green' \in Waited(green)
    /\ asked' = TRUE
    /\ UNCHANGED <<config, state, prev, learn, torn>>

(* resetModule(): zero for all three, or the defaults if power is lost after *)
(* the erase; then the reboot, and loadNVs() takes what is there             *)
ResetModule ==
    /\ flim' = FALSE /\ nodeNum' = 0 /\ canId' \in {0, 1}
    /\ torn' = FALSE
    /\ Restarted

Next ==
    \/ Setup
    \/ FLiMSWCheck
    \/ \E nn \in Number \cup {0} : Nnlrn(nn)
    \/ \E nn \in Number : Snn(nn) \/ SnnCut(nn)
    \/ \E id \in CanId : SetCanId(id)
    \/ Nnuln \/ OtherFrame \/ RunLeds
    \/ SetSLiM \/ Renegotiate
    \/ Restart \/ SLiMCut
    \/ ResetGivenUp \/ ResetModule

Spec == Init /\ [][Next]_vars

-----------------------------------------------------------------------------
TypeOK ==
    /\ flim \in BOOLEAN /\ nodeNum \in Number \cup {0} /\ canId \in 0 .. 99
    /\ state \in fsState
    /\ prev \in {"fsUnknown", "fsSLiM", "fsFLiM"}
    /\ learn \in BOOLEAN /\ yellow \in Led /\ green \in Led
    /\ asked \in BOOLEAN /\ torn \in BOOLEAN

(* The mode the button handling believes in is the mode in the stored       *)
(* configuration, in the state itself or, while the button is pressed or    *)
(* setup is open, in the state it will return to: no sequence of presses,   *)
(* commands, calls and restarts lets the two drift apart.                   *)
StateMatchesConfig ==
    /\ state = "fsFLiM" => flim
    /\ state = "fsSLiM" => ~flim
    /\ state \in {"fsPressed", "fsFlashing", "fsFLiMSetup", "fsPressedSetup"} =>
           prev = IF flim THEN "fsFLiM" ELSE "fsSLiM"

(* A node has a number exactly when it is in FLiM, after any history but a  *)
(* power cut between the two writes of doSnn() or setSLiM(), and then only  *)
(* until the next identity change completes.                                *)
IdentityConsistent == torn \/ (flim <=> nodeNum # 0)

(* What the LEDs tell the user: with the button held long enough, in setup  *)
(* and with the button pressed in setup, so whenever a number would be      *)
(* taken, the yellow one blinks; otherwise neither does, except from a      *)
(* renegotiate() or a factory reset given up to the next change that shows  *)
(* a mode.                                                                  *)
ChangingBlinks ==
    /\ yellow.blink <=> (asked \/ state \in {"fsFlashing", "fsFLiMSetup", "fsPressedSetup"})
    /\ green.blink => asked

=============================================================================
