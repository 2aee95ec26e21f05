--------------------------- MODULE FlimNode_proofs ---------------------------
(***************************************************************************)
(* For every set of node numbers and CAN IDs: the mode of the button       *)
(* handling, the stored identity and the yellow LED stay in agreement.     *)
(***************************************************************************)
EXTENDS FlimNode, TLAPS

LEMMA NumberNotZero == \A nn \in Number : nn # 0
BY NumberAssumption

(* What the LED operators do to the flags. *)
LEMMA LedIs ==
    ASSUME NEW led \in Led
    PROVE  /\ On(led) \in Led /\ ~On(led).blink
           /\ Off(led) \in Led /\ ~Off(led).blink
           /\ Blink(led) \in Led /\ Blink(led).blink
           /\ \A l \in Toggled(led) : l \in Led /\ l.blink = led.blink
           /\ \A l \in Expired(led) : l \in Led /\ l.blink = led.blink
           /\ \A l \in Pulse(led) : l \in Led /\ l.blink = led.blink
<1>1. /\ On(led) \in Led /\ ~On(led).blink
      /\ Off(led) \in Led /\ ~Off(led).blink
      /\ Blink(led) \in Led /\ Blink(led).blink
  BY DEF Led, On, Off, Blink
<1>2. ASSUME NEW m \in Led, NEW l \in Toggled(m) PROVE l \in Led /\ l.blink = m.blink
  BY <1>2, ZenonT(30) DEF Led, Toggled
<1>3. \A l \in Expired(led) : l \in Led /\ l.blink = led.blink
  BY DEF Led, Expired
<1>4. \A l \in Pulse(led) : l \in Led /\ l.blink = led.blink
  <2> DEFINE p == [led EXCEPT !.pulse = TRUE, !.lit = TRUE]
  <2>1. p \in Led /\ p.blink = led.blink
    BY DEF Led
  <2> QED
    BY <1>2, <2>1 DEF Pulse
<1> QED
  BY <1>1, <1>2, <1>3, <1>4

(* run() leaves the blinking alone. *)
LEMMA RunIs ==
    ASSUME NEW led \in Led
    PROVE  \A l \in Run(led) : l \in Led /\ l.blink = led.blink
<1> SUFFICES ASSUME NEW l \in Run(led) PROVE l \in Led /\ l.blink = led.blink
  OBVIOUS
<1>1. PICK m \in Toggled(led) : l \in Expired(m)
  BY DEF Run
<1>2. m \in Led /\ m.blink = led.blink
  BY LedIs
<1> QED
  BY <1>1, <1>2, LedIs

(* The conjuncts depend on one another: the target of ReleaseShort() and    *)
(* ReleaseInSetup() is prev, which StateMatchesConfig ties to flim, and the *)
(* LED shown is chosen by it.                                               *)
IInv == TypeOK /\ StateMatchesConfig /\ IdentityConsistent /\ ChangingBlinks

(* Going to SLiM establishes everything whatever the state was. *)
LEMMA BecomeSLiMInv ==
    ASSUME IInv, BecomeSLiM
    PROVE  IInv'
<1>1. Off(yellow) \in Led /\ ~Off(yellow).blink /\ On(green) \in Led /\ ~On(green).blink
  BY LedIs DEF IInv, TypeOK
<1>2. TypeOK'
  <2>1. 1 \in 0 .. 99
    OBVIOUS
  <2>2. canId' \in 0 .. 99 /\ nodeNum' = 0 /\ flim' = FALSE /\ state' = "fsSLiM"
    BY <2>1 DEF BecomeSLiM
  <2>3. /\ yellow' \in Led /\ green' \in Led /\ asked' = FALSE /\ torn' = FALSE
        /\ UNCHANGED <<prev, learn>>
    BY <1>1 DEF BecomeSLiM, ShowSLiM
  <2> QED
    BY <2>2, <2>3 DEF IInv, TypeOK, fsState
<1>3. StateMatchesConfig' /\ IdentityConsistent'
  BY DEF BecomeSLiM, StateMatchesConfig, IdentityConsistent
<1>4. ChangingBlinks'
  BY <1>1 DEF BecomeSLiM, ShowSLiM, ChangingBlinks
<1> QED
  BY <1>2, <1>3, <1>4 DEF IInv

(* So does opening setup, from a state that remembers the mode. *)
LEMMA EnterSetupInv ==
    ASSUME IInv, NEW from \in {"fsPressed", "fsFlashing"}, EnterSetup(from)
    PROVE  IInv'
<1>1. /\ Blink(yellow) \in Led /\ Blink(yellow).blink /\ On(green) \in Led /\ Off(green) \in Led
      /\ ~On(green).blink /\ ~Off(green).blink
  BY LedIs DEF IInv, TypeOK
<1>2. TypeOK'
  BY <1>1 DEF IInv, TypeOK, EnterSetup, Goto, ShowChanging, config, fsState
<1>3. StateMatchesConfig' /\ IdentityConsistent'
  BY DEF IInv, EnterSetup, Goto, ShowChanging, config, StateMatchesConfig, IdentityConsistent
<1>4. ChangingBlinks'
  BY <1>1 DEF EnterSetup, Goto, ShowChanging, ChangingBlinks
<1> QED
  BY <1>2, <1>3, <1>4 DEF IInv

(* The flicker after a frame leaves the blinking alone. *)
LEMMA FlickerIs ==
    ASSUME IInv, Flicker
    PROVE  /\ yellow' \in Led /\ green' \in Led
           /\ yellow'.blink = yellow.blink /\ green'.blink = green.blink
BY LedIs DEF IInv, TypeOK, Flicker

(* Frames that leave the mode as it is. *)
LEMMA FrameInv ==
    ASSUME IInv, Flicker, learn' \in BOOLEAN, canId' \in 0 .. 99,
           UNCHANGED <<flim, nodeNum, state, prev, asked, torn>>
    PROVE  IInv'
BY FlickerIs DEF IInv, TypeOK, StateMatchesConfig, IdentityConsistent, ChangingBlinks

LEMMA Inductive == IInv /\ [Next]_vars => IInv'
<1> SUFFICES ASSUME IInv, [Next]_vars PROVE IInv'
  OBVIOUS
<1>t. /\ yellow \in Led /\ green \in Led /\ flim \in BOOLEAN /\ learn \in BOOLEAN
      /\ canId \in 0 .. 99
  BY DEF IInv, TypeOK
<1>l. /\ On(yellow) \in Led /\ ~On(yellow).blink /\ Off(yellow) \in Led /\ ~Off(yellow).blink
      /\ On(green) \in Led /\ ~On(green).blink /\ Off(green) \in Led /\ ~Off(green).blink
      /\ Blink(yellow) \in Led /\ Blink(yellow).blink
  BY <1>t, LedIs
<1>d. Dark \in Led /\ ~Dark.blink
  BY DEF Dark, Led
<1> USE DEF config
<1>1. CASE Setup
  BY <1>1, <1>t, <1>l DEF IInv, TypeOK, StateMatchesConfig, IdentityConsistent,
     ChangingBlinks, Setup, ShowFLiM, ShowSLiM, fsState
<1>2. CASE Press
  BY <1>2 DEF IInv, TypeOK, StateMatchesConfig, IdentityConsistent, ChangingBlinks,
     Press, KeepLeds, fsState
<1>3. CASE Hold
  BY <1>3, <1>l DEF IInv, TypeOK, StateMatchesConfig, IdentityConsistent, ChangingBlinks,
     Hold, Goto, ShowChanging, fsState
<1>4. ASSUME NEW settled \in BOOLEAN, ReleaseShort(settled) PROVE IInv'
  <2>1. CASE prev = "fsFLiM" /\ settled
    BY <1>4, <2>1, EnterSetupInv DEF ReleaseShort
  <2>2. CASE ~(prev = "fsFLiM" /\ settled)
    BY <1>4, <2>2 DEF IInv, TypeOK, StateMatchesConfig, IdentityConsistent,
       ChangingBlinks, ReleaseShort, KeepLeds, fsState
  <2> QED
    BY <2>1, <2>2
<1>5. CASE ReleaseLong
  BY <1>5, EnterSetupInv, BecomeSLiMInv DEF ReleaseLong
<1>6. CASE PressInSetup
  BY <1>6 DEF IInv, TypeOK, StateMatchesConfig, IdentityConsistent, ChangingBlinks,
     PressInSetup, Goto, KeepLeds, fsState
<1>7. ASSUME NEW settled \in BOOLEAN, ReleaseInSetup(settled) PROVE IInv'
  <2>1. CASE settled
    BY <1>7, <2>1, <1>l DEF IInv, TypeOK, StateMatchesConfig, IdentityConsistent,
       ChangingBlinks, ReleaseInSetup, ShowFLiM, ShowSLiM, fsState
  <2>2. CASE ~settled
    BY <1>7, <2>2 DEF IInv, TypeOK, StateMatchesConfig, IdentityConsistent,
       ChangingBlinks, ReleaseInSetup, KeepLeds, fsState
  <2> QED
    BY <2>1, <2>2
<1>8. CASE CheckUnknown \/ SetSLiM
  BY <1>8, BecomeSLiMInv DEF CheckUnknown, SetSLiM
<1>9. ASSUME NEW nn \in Number \cup {0}, Nnlrn(nn) PROVE IInv'
  BY <1>9, <1>t, FrameInv DEF Nnlrn
<1>10. ASSUME NEW nn \in Number, Snn(nn) PROVE IInv'
  <2>1. CASE state = "fsFLiMSetup"
    <3>1. green' \in Pulse(Off(green)) /\ yellow' = On(yellow)
      BY <1>10, <2>1 DEF Snn
    <3>2. green' \in Led /\ green'.blink = Off(green).blink
      BY <1>l, <3>1, LedIs
    <3>3. nn # 0
      BY NumberNotZero
    <3> QED
      BY <1>10, <2>1, <1>l, <3>1, <3>2, <3>3 DEF IInv, TypeOK, StateMatchesConfig,
         IdentityConsistent, ChangingBlinks, Snn, fsState
  <2>2. CASE state # "fsFLiMSetup"
    BY <1>10, <2>2, <1>t, FrameInv DEF Snn
  <2> QED
    BY <2>1, <2>2
<1>11. ASSUME NEW id \in CanId, SetCanId(id) PROVE IInv'
  BY <1>11, <1>t, FrameInv DEF SetCanId
<1>12. CASE Nnuln \/ OtherFrame
  BY <1>12, <1>t, FrameInv DEF Nnuln, OtherFrame
<1>13. CASE RunLeds
  <2>1. /\ yellow' \in Led /\ green' \in Led
        /\ yellow'.blink = yellow.blink /\ green'.blink = green.blink
    BY <1>13, <1>t, RunIs DEF RunLeds
  <2> QED
    BY <1>13, <2>1 DEF IInv, TypeOK, StateMatchesConfig, IdentityConsistent,
       ChangingBlinks, RunLeds
<1>14. CASE Renegotiate
  BY <1>14, <1>l DEF IInv, TypeOK, StateMatchesConfig, IdentityConsistent, ChangingBlinks,
     Renegotiate, ShowChanging
<1>15. CASE Restart
  BY <1>15, <1>d DEF IInv, TypeOK, StateMatchesConfig, IdentityConsistent, ChangingBlinks,
     Restart, Restarted, fsState
<1>16. ASSUME NEW nn \in Number, SnnCut(nn) PROVE IInv'
  BY <1>16, <1>d DEF IInv, TypeOK, StateMatchesConfig, IdentityConsistent, ChangingBlinks,
     SnnCut, Restarted, fsState
<1>17. CASE SLiMCut
  BY <1>17, <1>d DEF IInv, TypeOK, StateMatchesConfig, IdentityConsistent, ChangingBlinks,
     SLiMCut, Restarted, fsState
<1>18. CASE UNCHANGED vars
  BY <1>18 DEF IInv, TypeOK, StateMatchesConfig, IdentityConsistent, ChangingBlinks, vars
<1>19. CASE ResetGivenUp
  <2>1. yellow' \in Led /\ green' \in Led /\ yellow'.blink
    BY <1>19, <1>t DEF ResetGivenUp, Waited, Led
  <2> QED
    BY <1>19, <2>1 DEF IInv, TypeOK, StateMatchesConfig, IdentityConsistent, ChangingBlinks,
       ResetGivenUp
<1>20. CASE ResetModule
  <2>1. canId' \in 0 .. 99
    BY <1>20 DEF ResetModule
  <2>2. TypeOK'
    BY <1>20, <1>d, <2>1 DEF TypeOK, ResetModule, Restarted, fsState
  <2>3. StateMatchesConfig' /\ IdentityConsistent' /\ ChangingBlinks'
    BY <1>20, <1>d DEF StateMatchesConfig, IdentityConsistent, ChangingBlinks,
       ResetModule, Restarted
  <2> QED
    BY <2>2, <2>3 DEF IInv
<1> QED
  BY <1>1, <1>2, <1>3, <1>4, <1>5, <1>6, <1>7, <1>8, <1>9, <1>10, <1>11, <1>12, <1>13,
     <1>14, <1>15, <1>16, <1>17, <1>18, <1>19, <1>20 DEF Next, FLiMSWCheck

(* A factory-new node starts consistent. *)
LEMMA Initial == Init => IInv
<1> SUFFICES ASSUME Init PROVE IInv
  OBVIOUS
<1>1. Dark \in Led /\ ~Dark.blink
  BY DEF Dark, Led
<1>2. 1 \in 0 .. 99
  OBVIOUS
<1>3. TypeOK
  BY <1>1, <1>2 DEF Init, TypeOK, fsState
<1>4. StateMatchesConfig /\ IdentityConsistent /\ ChangingBlinks
  BY <1>1 DEF Init, StateMatchesConfig, IdentityConsistent, ChangingBlinks
<1> QED
  BY <1>3, <1>4 DEF IInv

-----------------------------------------------------------------------------
(* Mode, number, CAN ID and LEDs stay in their ranges: a CANID command with *)
(* an ID above 99, of the 256 it can carry, is never stored.                *)
THEOREM TypeCorrect == Spec => []TypeOK
<1>1. IInv => TypeOK
  BY DEF IInv
<1> QED
  BY <1>1, Initial, Inductive, PTL DEF Spec

(* No sequence of presses, commands, calls, restarts and power cuts lets    *)
(* the button handling's mode and the stored mode drift apart.              *)
THEOREM ModeAgrees == Spec => []StateMatchesConfig
<1>1. IInv => StateMatchesConfig
  BY DEF IInv
<1> QED
  BY <1>1, Initial, Inductive, PTL DEF Spec

(* Unless its last identity write was cut short, a node has a number        *)
(* exactly when it is in FLiM.                                              *)
THEOREM IdentityAgrees == Spec => []IdentityConsistent
<1>1. IInv => IdentityConsistent
  BY DEF IInv
<1> QED
  BY <1>1, Initial, Inductive, PTL DEF Spec

(* The yellow LED blinks while a change of mode is under way and a number   *)
(* would be taken; otherwise neither blinks, unless renegotiate() or a      *)
(* factory reset given up has left it so.                                   *)
THEOREM BlinkAgrees == Spec => []ChangingBlinks
<1>1. IInv => ChangingBlinks
  BY DEF IInv
<1> QED
  BY <1>1, Initial, Inductive, PTL DEF Spec
=============================================================================
