------------------------------ MODULE SelfEnum ------------------------------
(***************************************************************************)
(* How a node finds a free CAN ID.  checkIncomingFrame() runs in the       *)
(* receive interrupt and notes who answers; processEnumeration() runs in   *)
(* the main loop, asks, waits and picks.  They share the flags, the start  *)
(* time and the response bits, and nothing masks the interrupt, which may  *)
(* run between the loop's read of the clock and its use of the value.      *)
(*                                                                         *)
(* The clock is in milliseconds and wraps, so differences are modulo       *)
(* ClockMod.  The other nodes are not modelled beyond the frames they may  *)
(* send: any frame, at any time.  That the node's own frames reach them    *)
(* changes nothing here, so sending is not a part of the state.            *)
(***************************************************************************)
EXTENDS Integers

CONSTANTS MaxCanId,     \* MAX_CANID: 127
          Bits,         \* bits of an element of m_enumResponses: 8
          LastCanId,    \* the largest CAN ID setCANID() takes: 99
          Priority,     \* the priorities of frames on the bus, of 0 .. 15
          CanId,        \* the CAN IDs of the other nodes; 0 after a factory reset
          ENUMERATION_TIMEOUT, ENUMERATION_HOLDOFF,
          ClockMod,     \* 2^32
          MaxLag,       \* bound: ticks of the clock in one turn of the loop
          MaxAsked      \* bound: enumeration requests of other nodes

ASSUME EnumAssumption ==
    /\ MaxCanId \in Nat \ {0} /\ Bits \in 1 .. MaxCanId + 1
    /\ LastCanId \in 1 .. MaxCanId
    /\ Priority \subseteq Nat /\ CanId \subseteq 0 .. MaxCanId
    /\ ENUMERATION_TIMEOUT \in Nat /\ ENUMERATION_HOLDOFF \in Nat
    /\ ClockMod \in Nat \ {0} /\ MaxLag \in Nat /\ MaxAsked \in Nat

VARIABLES m_canId,                  \* CBUSConfig::m_canId
          m_enumResponses,          \* the positions of the bits that are set
          m_enumStartTime,
          m_bEnumerationRequired, m_bEnumerationInProgress,
          m_bResultRequired,
          now,                      \* SystemTick::GetMilli()
          pc,                       \* where the main loop is
          clock,                    \* the loop's last reading of the clock
          newCanId,                 \* processEnumeration(): the ID it found
          lag,                      \* ticks since the last turn of the loop began
          asked,                    \* requests of other nodes so far
          heard,                    \* history: <<priority, ID>> of the frames
                                    \*   recorded in this enumeration
          window                    \* history: ticks since the request was sent,
                                    \*   or Reset after a request of another node

flags == <<m_bEnumerationRequired, m_bEnumerationInProgress, m_bResultRequired>>
loopVars == <<pc, clock, newCanId>>
vars == <<m_canId, m_enumResponses, m_enumStartTime, flags, now, loopVars, lag,
          asked, heard, window>>

ENUM_ARRAY_SIZE == (MaxCanId \div Bits) + 1
Positions == 0 .. ENUM_ARRAY_SIZE * Bits - 1
NoneFree == -1
Reset == -1
Time == 0 .. ClockMod - 1

(* loadNVs(): what setCANID() stored, or the 0 that resetModule() stored     *)
(* past it                                                                  *)
Init ==
    /\ m_canId \in 0 .. LastCanId
    /\ m_enumResponses = {}
    /\ m_enumStartTime = 0
    /\ m_bEnumerationRequired = FALSE
    /\ m_bEnumerationInProgress = FALSE
    /\ m_bResultRequired = FALSE
    /\ now = 0 /\ pc = "top" /\ clock = 0 /\ newCanId = NoneFree
    /\ lag = 0 /\ asked = 0 /\ heard = {} /\ window = Reset

-----------------------------------------------------------------------------
(* The receive interrupt.                                                  *)

(* makeHeader(): the priority above the bits of the CAN ID *)
Header(prio, id) == prio * (MaxCanId + 1) + id

(* mutant: the bit is off by one *)
PositionShifted(header) ==
    (header \div (2 * Bits)) * Bits + ((header + 1) % Bits)

(* bitWrite(m_enumResponses[msg.id / 16], msg.id % 8, 1) *)
Position(header) == (header \div (2 * Bits)) * Bits + (header % Bits)

(* A position beyond the array is a write beyond the array: it does not     *)
(* reach the variables of this module for the priorities modelled.          *)
Record(prio, id) ==
    /\ m_enumResponses' = m_enumResponses \cup ({Position(Header(prio, id))} \cap Positions)
    /\ heard' = heard \cup {<<prio, id>>}

(* checkIncomingFrame() on a frame that is not a request; doEnum(false) on  *)
(* a conflict                                                               *)
Receive(prio, id) ==
    \/ /\ m_bEnumerationInProgress
       /\ Record(prio, id)
       /\ UNCHANGED <<m_enumStartTime, flags>>
    \/ /\ ~m_bEnumerationInProgress
       /\ ~m_bEnumerationRequired /\ Header(prio, id) = m_canId
       /\ m_bResultRequired' = FALSE
       /\ m_bEnumerationRequired' = TRUE
       /\ m_enumStartTime' = now
       /\ UNCHANGED <<m_bEnumerationInProgress, m_enumResponses, heard>>

(* checkIncomingFrame() on a remote request, the start of another node's    *)
(* enumeration: its identifier, with the request flag in bit 30, is above   *)
(* every position and every CAN ID                                          *)
Asked ==
    /\ asked < MaxAsked
    /\ asked' = asked + 1
    /\ m_enumStartTime' = now
    /\ window' = Reset
    /\ UNCHANGED <<m_canId, m_enumResponses, flags, now, loopVars, lag, heard>>

(* While an enumeration is in progress the request is also recorded, 64 MB  *)
(* beyond the array: where there is no memory at that address the processor *)
(* faults and the node stops; elsewhere it goes on as in Asked.             *)
Fault ==
    /\ asked < MaxAsked /\ m_bEnumerationInProgress
    /\ asked' = asked + 1
    /\ pc' = "fault"
    /\ UNCHANGED <<m_canId, m_enumResponses, m_enumStartTime, flags, now, clock,
                   newCanId, lag, heard, window>>

Interrupt ==
    /\ pc # "fault"
    /\ \/ /\ \E prio \in Priority, id \in CanId : Receive(prio, id)
          /\ UNCHANGED <<m_canId, now, loopVars, lag, asked, window>>
       \/ Asked
       \/ Fault

-----------------------------------------------------------------------------
(* The main loop: processEnumeration(), then the frames of this turn.      *)

Elapsed == (clock - m_enumStartTime) % ClockMod

Goto(from, to) == pc = from /\ pc' = to

(* the reading of the clock has been used *)
Leave(from, to) == Goto(from, to) /\ clock' = 0

Quiet == UNCHANGED <<now, lag, asked>>

(* reads m_bEnumerationRequired and then the clock *)
ReadHoldoff ==
    /\ IF m_bEnumerationRequired
       THEN Goto("top", "holdoff") /\ clock' = now
       ELSE Goto("top", "progress") /\ UNCHANGED clock
    /\ Quiet
    /\ UNCHANGED <<m_canId, m_enumResponses, m_enumStartTime, flags, newCanId,
                   heard, window>>

(* Clears the bits, marks ID 0 as used, starts the window and sends the     *)
(* request.  An interrupt among these stores has the effect of one after    *)
(* them.                                                                    *)
Start ==
    /\ Elapsed > ENUMERATION_HOLDOFF
    /\ Leave("holdoff", "frames")
    /\ m_enumResponses' = {0} /\ heard' = {} /\ window' = 0
    /\ m_bEnumerationInProgress' = TRUE
    /\ m_bEnumerationRequired' = TRUE
    /\ m_enumStartTime' = now
    /\ Quiet
    /\ UNCHANGED <<m_canId, m_bResultRequired, newCanId>>

HoldOff ==
    /\ Elapsed <= ENUMERATION_HOLDOFF
    /\ Leave("holdoff", "progress")
    /\ Quiet
    /\ UNCHANGED <<m_canId, m_enumResponses, m_enumStartTime, flags, newCanId,
                   heard, window>>

(* reads m_bEnumerationInProgress and then the clock again *)
ReadWindow ==
    /\ IF m_bEnumerationInProgress
       THEN Goto("progress", "window") /\ clock' = now
       ELSE Goto("progress", "frames") /\ UNCHANGED clock
    /\ Quiet
    /\ UNCHANGED <<m_canId, m_enumResponses, m_enumStartTime, flags, newCanId,
                   heard, window>>

Wait ==
    /\ Elapsed <= ENUMERATION_TIMEOUT
    /\ Leave("window", "frames")
    /\ Quiet
    /\ UNCHANGED <<m_canId, m_enumResponses, m_enumStartTime, flags, newCanId,
                   heard, window>>

FreePositions == Positions \ m_enumResponses

(* mutant: the window is a tick short *)
ScanEarly ==
    /\ Elapsed >= ENUMERATION_TIMEOUT
    /\ Leave("window", "assign")
    /\ \/ FreePositions = {} /\ newCanId' = NoneFree
       \/ \E id \in FreePositions : /\ newCanId' = id
                                   /\ \A other \in FreePositions : id <= other
    /\ Quiet
    /\ UNCHANGED <<m_canId, m_enumResponses, m_enumStartTime, flags, heard, window>>

(* the first element that is not full, and its first free bit *)
Scan ==
    /\ Elapsed > ENUMERATION_TIMEOUT
    /\ Leave("window", "assign")
    /\ \/ FreePositions = {} /\ newCanId' = NoneFree
       \/ \E id \in FreePositions : /\ newCanId' = id
                                   /\ \A other \in FreePositions : id <= other
    /\ Quiet
    /\ UNCHANGED <<m_canId, m_enumResponses, m_enumStartTime, flags, heard, window>>

(* mutant: an ID out of range, or none, is stored *)
AssignAny ==
    /\ Goto("assign", "clear")
    /\ m_canId' = newCanId
    /\ Quiet
    /\ UNCHANGED <<m_enumResponses, m_enumStartTime, flags, clock, newCanId,
                   heard, window>>

(* Stores the ID if setCANID() takes it; answers with NNACK, CMDERR or, for *)
(* an ID it does not take, nothing.                                         *)
Assign ==
    /\ Goto("assign", "clear")
    /\ m_canId' = IF newCanId \in 1 .. LastCanId THEN newCanId ELSE m_canId
    /\ Quiet
    /\ UNCHANGED <<m_enumResponses, m_enumStartTime, flags, clock, newCanId,
                   heard, window>>

(* mutant: the request is not marked as served *)
FinishPending ==
    /\ Goto("clear", "frames")
    /\ m_bEnumerationInProgress' = FALSE
    /\ newCanId' = NoneFree /\ heard' = {} /\ window' = Reset
    /\ Quiet
    /\ UNCHANGED <<m_canId, m_enumResponses, m_enumStartTime, m_bResultRequired,
                   m_bEnumerationRequired, clock>>

(* mutant: the enumeration stays in progress *)
FinishOpen ==
    /\ Goto("clear", "frames")
    /\ m_bEnumerationRequired' = FALSE
    /\ newCanId' = NoneFree /\ heard' = {} /\ window' = Reset
    /\ Quiet
    /\ UNCHANGED <<m_canId, m_enumResponses, m_enumStartTime, m_bResultRequired,
                   m_bEnumerationInProgress, clock>>

(* an interrupt between the two stores sees an enumeration in progress *)
Finish ==
    /\ Goto("clear", "frames")
    /\ m_bEnumerationRequired' = FALSE
    /\ m_bEnumerationInProgress' = FALSE
    /\ newCanId' = NoneFree /\ heard' = {} /\ window' = Reset
    /\ Quiet
    /\ UNCHANGED <<m_canId, m_enumResponses, m_enumStartTime, m_bResultRequired, clock>>

TurnEnds == pc' = "top" /\ lag' = 0

(* a turn of process() that handles no frame of this module *)
OtherFrames ==
    /\ pc = "frames" /\ TurnEnds
    /\ UNCHANGED <<m_canId, m_enumResponses, m_enumStartTime, flags, now, clock,
                   newCanId, asked, heard, window>>

(* OPC_CANID *)
SetCanId(id) ==
    /\ pc = "frames" /\ TurnEnds
    /\ m_canId' = IF id \in 1 .. LastCanId THEN id ELSE m_canId
    /\ UNCHANGED <<m_enumResponses, m_enumStartTime, flags, now, clock, newCanId,
                   asked, heard, window>>

(* OPC_ENUM: doEnum(true), whose first store the interrupt may overwrite *)
WantResult ==
    /\ Goto("frames", "enum")
    /\ m_bResultRequired' = TRUE
    /\ Quiet
    /\ UNCHANGED <<m_canId, m_enumResponses, m_enumStartTime,
                   m_bEnumerationRequired, m_bEnumerationInProgress, clock,
                   newCanId, heard, window>>

DoEnum ==
    /\ pc = "enum" /\ TurnEnds
    /\ m_bEnumerationRequired' = (m_bEnumerationRequired \/ ~m_bEnumerationInProgress)
    /\ UNCHANGED <<m_canId, m_enumResponses, m_enumStartTime, now, clock, newCanId,
                   m_bEnumerationInProgress, m_bResultRequired, asked, heard, window>>

Loop ==
    \/ ReadHoldoff \/ Start \/ HoldOff
    \/ ReadWindow \/ Wait \/ Scan \/ Assign \/ Finish
    \/ OtherFrames \/ (\E id \in CanId \cup {0, LastCanId + 1} : SetCanId(id))
    \/ WantResult \/ DoEnum

(* A millisecond passes.  The loop comes round every MaxLag of them.       *)
Tick ==
    /\ pc # "fault" /\ lag < MaxLag
    /\ lag' = lag + 1
    /\ now' = (now + 1) % ClockMod
    /\ window' = IF window \in {Reset, ENUMERATION_TIMEOUT + 1} THEN window
                                                             ELSE window + 1
    /\ UNCHANGED <<m_canId, m_enumResponses, m_enumStartTime, flags, loopVars,
                   asked, heard>>

Next == Interrupt \/ Loop \/ Tick

Spec == Init /\ [][Next]_vars

(* process() is called for ever, and time passes *)
FairSpec == Spec /\ WF_vars(Loop) /\ WF_vars(Tick)

-----------------------------------------------------------------------------
(* Every variable has a value of its type: of the CAN ID, that neither the  *)
(* scan, which may find no bit or one beyond LastCanId, nor OPC_CANID       *)
(* stores one that setCANID() refuses; 0 is left from a factory reset.      *)
TypeOK ==
    /\ m_canId \in 0 .. LastCanId
    /\ m_enumResponses \subseteq Positions
    /\ m_enumStartTime \in Time /\ now \in Time /\ clock \in Time
    /\ m_bEnumerationRequired \in BOOLEAN /\ m_bEnumerationInProgress \in BOOLEAN
    /\ m_bResultRequired \in BOOLEAN
    /\ pc \in {"top", "holdoff", "progress", "window", "assign", "clear",
               "frames", "enum", "fault"}
    /\ newCanId \in Positions \cup {NoneFree}
    /\ lag \in 0 .. MaxLag /\ asked \in 0 .. MaxAsked
    /\ heard \subseteq Priority \X CanId
    /\ window \in 0 .. ENUMERATION_TIMEOUT + 1 \cup {Reset}

(* The flags agree with where the loop is, whatever the interrupt does:     *)
(* an enumeration in progress is still marked as required, and the loop     *)
(* assigns and clears only what is in progress.  checkIncomingFrame() says  *)
(* of its conflict branch 'we know enumerationInProgress = false here'.     *)
FlagsAgree ==
    /\ m_bEnumerationInProgress => m_bEnumerationRequired
    /\ pc = "holdoff" => m_bEnumerationRequired
    /\ pc \in {"window", "assign", "clear"} => m_bEnumerationInProgress

(* The ID chosen is none of those that answered, as far as                  *)
(* checkIncomingFrame() sets the bits processEnumeration() tests: for       *)
(* frames of priority 0 and an ID below eight.  A frame that arrives after  *)
(* the scan is too late.                                                    *)
LowNotTaken ==
    [][Scan => ~\E frame \in heard :
                  Header(frame[1], frame[2]) < Bits /\ newCanId' = frame[2]]_vars

(* The ID chosen is none of those that answered: checkIncomingFrame() says  *)
(* it sets the 'bit in response array for CAN ID of received message'.      *)
HeardNotTaken ==
    [][Scan => ~\E frame \in heard : newCanId' = frame[2]]_vars

(* Unless another node asks meanwhile, the answers to a request are         *)
(* collected for longer than ENUMERATION_TIMEOUT before they are used.      *)
WindowHeld ==
    [][Scan => window \in {Reset, ENUMERATION_TIMEOUT + 1}]_vars

(* Every enumeration ends, though the start branch, taken again when the    *)
(* loop comes round late, starts it over.                                   *)
EnumerationEnds ==
    m_bEnumerationRequired ~> (~m_bEnumerationRequired \/ pc = "fault")
=============================================================================
