------------------------------ MODULE LearnMap ------------------------------
(***************************************************************************)
(* What the event table promises a configuration tool: a map from at most  *)
(* MaxEvents events to their event variables, and the reply the tool gets. *)
(* An event becomes known when its first variable is taught; teaching a    *)
(* later variable of an unknown event is acknowledged and has no effect.   *)
(***************************************************************************)
EXTENDS Naturals, FiniteSets

CONSTANTS Event,      \* the events a tool may teach
          Unused,     \* the event that marks a free slot, never known
          MaxEvents,
          EvIndices,  \* the event variable numbers a tool may teach
          EvVals,     \* the values it gives them
          EVs         \* the vectors of event variables

VARIABLES known,      \* the event variables of each known event
          reply       \* the answer to the last command

mapVars == <<known, reply>>

Events == DOMAIN known
Room == Cardinality(Events) < MaxEvents

MapInit == known = <<>> /\ reply = "none"

With(e, evs) == [d \in Events \cup {e} |-> IF d = e THEN evs ELSE known[d]]

(* a new event starts with arbitrary values in the variables not yet taught *)
Teach(e, k, v) ==
    IF k # 0 /\ (e \in Events \/ Room)
    THEN /\ reply' = "WRACK"
         /\ IF e \in Events
            THEN known' = With(e, [known[e] EXCEPT ![k] = v])
            ELSE IF k = 1 /\ e # Unused
                 THEN \E evs \in EVs : evs[1] = v /\ known' = With(e, evs)
                 ELSE UNCHANGED known
    ELSE reply' = "CMDERR" /\ UNCHANGED known

Forget(e) ==
    /\ known' = [d \in Events \ {e} |-> known[d]]
    /\ UNCHANGED reply

ForgetAll == known' = <<>> /\ reply' = "WRACK"

(* power lost while an event is being taught: it may be known with          *)
(* variables nobody taught                                                  *)
TeachCut(e) ==
    /\ reply' = "none"
    /\ \/ UNCHANGED known
       \/ Room /\ e \notin Events \cup {Unused} /\ \E evs \in EVs : known' = With(e, evs)

Restart == reply' = "none" /\ UNCHANGED known

MapNext ==
    \/ \E e \in Event, k \in EvIndices, v \in EvVals : Teach(e, k, v)
    \/ \E e \in Event : Forget(e) \/ TeachCut(e)
    \/ ForgetAll
    \/ Restart

MapSpec == MapInit /\ [][MapNext]_mapVars
=============================================================================
