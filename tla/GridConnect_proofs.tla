-------------------------- MODULE GridConnect_proofs --------------------------
(***************************************************************************)
(* The GridConnect server, both halves.  Sending, for every size of the    *)
(* receive ring and of TCP's send buffer and any number of frames and      *)
(* connections: one client gets every frame until TCP refuses one, which   *)
(* frames of the bus alone never bring about.  The text: every frame comes *)
(* back from its message.  Receiving, for any frames, clients and cuts of  *)
(* the text: the frames put are those sent to the end.                     *)
(***************************************************************************)
EXTENDS Gateway, GridStream, SequenceTheorems, FiniteSetTheorems, WellFoundedInduction, TLAPS

Frame == Int

Types ==
    /\ conns \in 0 .. MaxConns /\ {arrived, own, poolFails} \subseteq Nat
    /\ alive \subseteq 1 .. conns
    /\ pClientCB \in 0 .. conns
    /\ ring \in Seq(Frame) /\ due \in Seq(Frame) /\ wire \in Seq(Frame)
    /\ hand \in Frame /\ bufferSent \in Frame /\ refused \in BOOLEAN
    /\ inflight \in [Pcb -> Seq(Frame)]
    /\ pc \in {"idle", "pull", "handle", "write"} /\ after \in {"idle", "handle"}
    /\ pc = "pull" => ring # <<>>

(* Before the first client connects there is nothing to send to.           *)
Before ==
    conns = 0 =>
        /\ alive = {} /\ pClientCB = Null /\ pc # "write"
        /\ bufferSent = NoFrame /\ ~refused /\ due = <<>> /\ wire = <<>>
        /\ inflight = [k \in Pcb |-> <<>>]

(* Until TCP refuses a message: the room that canSend() saw is still there *)
(* when the frame is written, unless the node has sent one of its own; and *)
(* what the loop holds is all that separates the two histories.            *)
Flowing ==
    /\ bufferSent = NoFrame
    /\ own = 0 /\ pc \in {"pull", "write"} => Room(pClientCB)
    /\ pc # "write" => wire = due
    /\ pc = "write" => tpcb = pClientCB /\ due = Append(wire, hand)

During ==
    (conns = 1 /\ pClientCB \in alive) =>
        IF refused THEN own > 0 \/ poolFails > 0 ELSE Flowing

IInv == Types /\ Before /\ During

-----------------------------------------------------------------------------
(* A sequence without its last element.                                    *)
LEMMA FrontOfAppend ==
    ASSUME NEW s \in Seq(Frame), NEW e \in Frame
    PROVE  SubSeq(Append(s, e), 1, Len(Append(s, e)) - 1) = s
<1> DEFINE t == Append(s, e)
<1>1. t \in Seq(Frame) /\ Len(t) = Len(s) + 1 /\ \A i \in 1 .. Len(s) : t[i] = s[i]
  BY AppendProperties
<1> HIDE DEF t
<1>2. SubSeq(t, 1, Len(s)) \in Seq(Frame) /\ Len(SubSeq(t, 1, Len(s))) = Len(s)
      /\ \A i \in 1 .. Len(s) : SubSeq(t, 1, Len(s))[i] = t[i]
  BY <1>1, LenProperties
<1>3. SubSeq(t, 1, Len(s)) = s
  BY <1>1, <1>2, SeqEqual
<1>4. Len(t) - 1 = Len(s)
  BY <1>1, LenProperties
<1> QED
  BY <1>3, <1>4 DEF t

(* What the histories owe the client follows. *)
LEMMA Promise == IInv => ForwardedInOrder
<1> SUFFICES ASSUME IInv, conns = 1, pClientCB \in alive
             PROVE  /\ refused => own > 0 \/ poolFails > 0
                    /\ ~refused =>
                         /\ bufferSent = NoFrame
                         /\ wire = IF pc = "write" /\ tpcb = pClientCB
                                   THEN SubSeq(due, 1, Len(due) - 1) ELSE due
  BY DEF ForwardedInOrder
<1>1. CASE refused
  BY <1>1 DEF IInv, During
<1>2. CASE ~refused /\ pc = "write"
  <2>1. due = Append(wire, hand) /\ tpcb = pClientCB /\ bufferSent = NoFrame
    BY <1>2 DEF IInv, During, Flowing
  <2>2. wire \in Seq(Frame) /\ hand \in Frame
    BY DEF IInv, Types
  <2> QED
    BY <1>2, <2>1, <2>2, FrontOfAppend
<1>3. CASE ~refused /\ pc # "write"
  BY <1>3 DEF IInv, During, Flowing
<1> QED
  BY <1>1, <1>2, <1>3 DEF IInv, Types

-----------------------------------------------------------------------------
(* The parts of the actions.                                               *)

LEMMA PcbIs == Pcb = 1 .. MaxConns /\ MaxConns \in Nat /\ Null \notin Pcb
BY GatewayAssumption DEF Pcb, Null

(* Control blocks freed: the buffers of the others are as they were.       *)
LEMMA FreedKeeps ==
    ASSUME Types, NEW ks, Freed(ks)
    PROVE  /\ alive' \subseteq alive
           /\ inflight' \in [Pcb -> Seq(Frame)]
           /\ inflight = [k \in Pcb |-> <<>>] => inflight' = [k \in Pcb |-> <<>>]
           /\ \A k \in alive' : k \in Pcb => inflight'[k] = inflight[k]
<1>1. alive' = alive \ ks /\ inflight' = [k \in Pcb |-> IF k \in ks THEN <<>> ELSE inflight[k]]
  BY DEF Freed
<1>2. inflight' \in [Pcb -> Seq(Frame)]
  BY <1>1 DEF Types
<1> QED
  BY <1>1, <1>2

(* A write to a live client is taken if it has room, unless TCP's pools     *)
(* fail, and else refused.                                                 *)
LEMMA SendKeeps ==
    ASSUME Types, NEW k, NEW f \in Frame, ServerSend(k, f)
    PROVE  /\ bufferSent' \in Frame /\ wire' \in Seq(Frame)
           /\ refused' \in BOOLEAN /\ poolFails' \in Nat
           /\ inflight' \in [Pcb -> Seq(Frame)]
           /\ refused => refused'
           /\ poolFails' = poolFails \/ poolFails' = poolFails + 1
           /\ k \in alive =>
                \/ /\ refused' = refused /\ bufferSent' = bufferSent
                   /\ wire' = IF Smooth THEN Append(wire, f) ELSE wire
                \/ refused' /\ (~Room(k) \/ poolFails' = poolFails + 1)
<1>1. CASE k \in alive /\ inflight' = [inflight EXCEPT ![k] = Append(@, f)]
           /\ wire' = (IF Smooth THEN Append(wire, f) ELSE wire)
           /\ UNCHANGED <<bufferSent, poolFails, refused>>
  <2>1. k \in Pcb
    BY <1>1, PcbIs DEF Types
  <2>2. Append(inflight[k], f) \in Seq(Frame) /\ Append(wire, f) \in Seq(Frame)
    BY <2>1, AppendProperties DEF Types
  <2>3. inflight' \in [Pcb -> Seq(Frame)]
    BY <1>1, <2>2 DEF Types
  <2> QED
    BY <1>1, <2>2, <2>3 DEF Types
<1>2. CASE /\ UNCHANGED <<inflight, wire>> /\ bufferSent' = f /\ refused' = TRUE
           /\ \/ poolFails' = poolFails + 1
              \/ poolFails' = poolFails /\ ~Room(k)
  <2>1. bufferSent' \in Frame /\ wire' \in Seq(Frame) /\ inflight' \in [Pcb -> Seq(Frame)]
    BY <1>2 DEF Types
  <2>2. poolFails' \in Nat /\ (poolFails' = poolFails \/ poolFails' = poolFails + 1)
    BY <1>2 DEF Types
  <2>3. refused' /\ (~Room(k) \/ poolFails' = poolFails + 1)
    BY <1>2
  <2> QED
    BY <1>2, <2>1, <2>2, <2>3
<1>3. CASE /\ k \notin alive /\ bufferSent' \in {bufferSent, f}
           /\ UNCHANGED <<inflight, poolFails, refused, wire>>
  BY <1>3 DEF Types
<1> QED
  BY <1>1, <1>2, <1>3 DEF ServerSend

(* The server loses its client: then it owes nothing.                      *)
LEMMA ClientGone ==
    ASSUME IInv, NEW ks, Freed(ks), pClientCB' \in {Null, pClientCB},
           pClientCB' \notin alive',
           UNCHANGED <<loop, bufferSent, arrived, conns, own, poolFails, refused, due, wire>>
    PROVE  IInv'
<1>1. /\ alive' \subseteq alive /\ inflight' \in [Pcb -> Seq(Frame)]
      /\ inflight = [k \in Pcb |-> <<>>] => inflight' = [k \in Pcb |-> <<>>]
  BY FreedKeeps DEF IInv
<1>2. Types'
  BY <1>1 DEF IInv, Types, loop, Null
<1>3. Before'
  BY <1>1 DEF IInv, Before, loop, Null
<1>4. During'
  BY DEF During
<1> QED
  BY <1>2, <1>3, <1>4 DEF IInv

(* A poll, or the last message to a client that closes: a saved message    *)
(* written again, which there is only after a refusal.                     *)
LEMMA SavedSent ==
    ASSUME IInv, NEW k, ServerSend(k, bufferSent), alive # {}, bufferSent # NoFrame,
           UNCHANGED <<loop, pClientCB, alive, arrived, conns, own, due>>
    PROVE  IInv'
<1>1. /\ bufferSent' \in Frame /\ wire' \in Seq(Frame) /\ poolFails' \in Nat
      /\ refused' \in BOOLEAN /\ (refused => refused')
      /\ poolFails' = poolFails \/ poolFails' = poolFails + 1
      /\ inflight' \in [Pcb -> Seq(Frame)]
  <2>1. bufferSent \in Frame
    BY DEF IInv, Types
  <2> QED
    BY <2>1, SendKeeps DEF IInv
<1>2. Types'
  BY <1>1 DEF IInv, Types, loop
<1>3. Before'
  BY DEF IInv, Before
<1>4. conns = 1 /\ pClientCB \in alive => refused /\ (own > 0 \/ poolFails > 0)
  BY DEF IInv, Types, During, Flowing
<1>5. During'
  BY <1>1, <1>4 DEF During, IInv, Types
<1> QED
  BY <1>2, <1>3, <1>5 DEF IInv

-----------------------------------------------------------------------------
(* The steps of the loop and the sources of frames.                        *)

LEMMA CanFramePreserves == IInv /\ CanFrame => IInv'
<1> SUFFICES ASSUME IInv, CanFrame PROVE IInv'
  OBVIOUS
<1>1. UNCHANGED <<pc, hand, tpcb, after, pClientCB, alive, inflight, bufferSent, own, conns,
                  poolFails, refused, due, wire>>
  BY DEF CanFrame, server, tcp, saving
<1>2. ring' \in Seq(Frame) /\ ring' # <<>>
  <2>1. arrived + 1 \in Frame /\ ring \in Seq(Frame)
    BY DEF IInv, Types, Frame
  <2>2. CASE Len(ring) < RingSize
    <3>1. ring' = Append(ring, arrived + 1)
      BY <2>2 DEF CanFrame
    <3> QED
      BY <2>1, <3>1, AppendProperties
  <2>3. CASE ~(Len(ring) < RingSize)
    <3>1. ring' = Append(Tail(ring), arrived + 1)
      BY <2>3 DEF CanFrame
    <3>2. ring # <<>>
      BY <2>1, <2>3, GatewayAssumption, EmptySeq
    <3>3. Tail(ring) \in Seq(Frame)
      BY <2>1, <3>2, HeadTailProperties
    <3> QED
      BY <2>1, <3>1, <3>3, AppendProperties
  <2> QED
    BY <2>2, <2>3
<1>3. arrived' \in Nat
  BY DEF CanFrame, IInv, Types
<1>4. Types'
  BY <1>1, <1>2, <1>3 DEF IInv, Types
<1>5. Before'
  BY <1>1 DEF IInv, Before
<1>6. During'
  BY <1>1 DEF IInv, During, Flowing, Room
<1> QED
  BY <1>4, <1>5, <1>6 DEF IInv

(* A frame handed to serverSend() is due.                                  *)
LEMMA HandKeeps ==
    ASSUME IInv, NEW f \in Frame, NEW goOn \in {"idle", "handle"}, Hand(f, goOn),
           pc # "write",
           ring' \in Seq(Frame), arrived' \in Nat, own' \in Nat, own' >= own,
           own' = 0 => pc = "pull",
           UNCHANGED <<server, tcp, saving, conns>>
    PROVE  IInv'
<1>1. /\ pClientCB # Null
      /\ pc' = "write" /\ hand' = f /\ tpcb' = pClientCB /\ after' = goOn
      /\ due' = IF Smooth THEN Append(due, f) ELSE due
      /\ UNCHANGED <<pClientCB, alive, inflight, bufferSent, poolFails, refused, wire>>
  BY DEF Hand, server, tcp, saving
<1>2. Append(due, f) \in Seq(Frame)
  BY AppendProperties DEF IInv, Types
<1>3. Types'
  BY <1>1, <1>2 DEF IInv, Types
<1>4. Before'
  BY <1>1 DEF IInv, Before
<1>5. During'
  BY <1>1 DEF IInv, Types, During, Flowing, Smooth, Room
<1> QED
  BY <1>3, <1>4, <1>5 DEF IInv

(* The loop goes from one phase to another without a write.                *)
LEMMA TurnsPreserve ==
    IInv /\ (GcFrame \/ TakeCoe \/ TakeGc \/ CheckSend \/ Handled) => IInv'
<1> SUFFICES ASSUME IInv, GcFrame \/ TakeCoe \/ TakeGc \/ CheckSend \/ Handled PROVE IInv'
  OBVIOUS
<1>1. /\ UNCHANGED <<ring, hand, tpcb, after, server, tcp, saving, arrived, own, conns, due>>
      /\ \/ pc' = pc
         \/ pc # "write" /\ pc' \in {"idle", "handle"}
         \/ pc = "idle" /\ pc' = "pull" /\ CanSend /\ ring # <<>>
  BY DEF GcFrame, TakeCoe, TakeGc, CheckSend, Handled, counts
<1>2. pClientCB \in alive => (CanSend => Room(pClientCB))
  <2>1. pClientCB \in alive => pClientCB # Null
    BY DEF IInv, Types, Null
  <2> QED
    BY <2>1 DEF CanSend
<1>3. Types'
  BY <1>1 DEF IInv, Types, server, tcp, saving
<1>4. Before'
  BY <1>1 DEF IInv, Before, server, tcp, saving
<1>5. During'
  BY <1>1, <1>2 DEF IInv, Types, During, Flowing, Room, server, tcp, saving
<1> QED
  BY <1>3, <1>4, <1>5 DEF IInv

(* Frames of the node's own, answers and events.                           *)
LEMMA OwnPreserves == IInv /\ (OwnFrame \/ OwnEvent) => IInv'
<1> SUFFICES ASSUME IInv, OwnFrame \/ OwnEvent PROVE IInv'
  OBVIOUS
<1>1. /\ pc \in {"idle", "handle"} /\ own' = own + 1
      /\ UNCHANGED <<ring, server, tcp, saving, arrived, conns>>
      /\ Hand(- own', pc) \/ UNCHANGED <<pc, hand, tpcb, after, due>>
  BY DEF OwnFrame, OwnEvent
<1>2. own' \in Nat \ {0} /\ own' >= own /\ - own' \in Frame
  BY <1>1 DEF IInv, Types, Frame
<1>3. CASE Hand(- own', pc)
  <2>1. ring' \in Seq(Frame) /\ arrived' \in Nat
    BY <1>1 DEF IInv, Types
  <2> QED
    BY <1>1, <1>2, <1>3, <2>1, HandKeeps
<1>4. CASE UNCHANGED <<pc, hand, tpcb, after, due>>
  <2>1. Types'
    BY <1>1, <1>2, <1>4 DEF IInv, Types, server, tcp, saving
  <2>2. Before'
    BY <1>1, <1>4 DEF IInv, Before, server, tcp, saving
  <2>3. During'
    BY <1>1, <1>2, <1>4 DEF IInv, Types, During, Flowing, server, tcp, saving
  <2> QED
    BY <2>1, <2>2, <2>3 DEF IInv
<1> QED
  BY <1>1, <1>3, <1>4

(* A frame pulled from the ring is due; with no client it goes nowhere.    *)
LEMMA PullPreserves == IInv /\ Pull => IInv'
<1> SUFFICES ASSUME IInv, Pull PROVE IInv'
  OBVIOUS
<1>1. /\ pc = "pull" /\ ring' = Tail(ring) /\ ring # <<>>
      /\ UNCHANGED <<server, tcp, saving, arrived, own, conns>>
  BY DEF Pull, IInv, Types, counts
<1>2. Tail(ring) \in Seq(Frame) /\ Head(ring) \in Frame
  BY <1>1, HeadTailProperties DEF IInv, Types
<1>3. CASE pClientCB = Null
  <2>1. pc' = "handle" /\ UNCHANGED <<hand, tpcb, after, due>>
    BY <1>3 DEF Pull
  <2>2. pClientCB' \notin alive'
    BY <1>1, <1>3 DEF IInv, Types, Null, server, tcp
  <2> QED
    BY <1>1, <1>2, <2>1, <2>2 DEF IInv, Types, Before, During, server, tcp, saving
<1>4. CASE pClientCB # Null
  <2>1. Hand(Head(ring), "handle")
    BY <1>4 DEF Pull
  <2>2. arrived' \in Nat /\ own' \in Nat /\ own' >= own
    BY <1>1 DEF IInv, Types
  <2> QED
    BY <1>1, <1>2, <2>1, <2>2, HandKeeps
<1> QED
  BY <1>3, <1>4

(* What was due is written: TCP has it, or has refused it.                 *)
LEMMA WritePreserves == IInv /\ Write => IInv'
<1> SUFFICES ASSUME IInv, Write PROVE IInv'
  OBVIOUS
<1>1. /\ pc = "write" /\ ServerSend(tpcb, hand) /\ pc' = after
      /\ hand' = NoFrame /\ after' = "idle"
      /\ UNCHANGED <<ring, server, alive, arrived, own, conns, due>>
  BY DEF Write, counts
<1>2. /\ bufferSent' \in Frame /\ wire' \in Seq(Frame)
      /\ refused' \in BOOLEAN /\ poolFails' \in Nat
      /\ inflight' \in [Pcb -> Seq(Frame)]
      /\ refused => refused'
      /\ poolFails' = poolFails \/ poolFails' = poolFails + 1
      /\ tpcb \in alive =>
           \/ /\ refused' = refused /\ bufferSent' = bufferSent
              /\ wire' = IF Smooth THEN Append(wire, hand) ELSE wire
           \/ refused' /\ (~Room(tpcb) \/ poolFails' = poolFails + 1)
  <2>1. hand \in Frame
    BY DEF IInv, Types
  <2> QED
    BY <1>1, <2>1, SendKeeps DEF IInv
<1>3. Types'
  BY <1>1, <1>2 DEF IInv, Types, server, NoFrame, Frame
<1>4. Before'
  BY <1>1 DEF IInv, Before
<1>5. During'
  <2> SUFFICES ASSUME conns = 1, pClientCB \in alive
               PROVE  IF refused' THEN own > 0 \/ poolFails' > 0 ELSE Flowing'
    BY <1>1 DEF During, server
  <2>1. CASE refused
    BY <1>2, <2>1 DEF IInv, During, Types
  <2>2. CASE ~refused
    <3>1. /\ bufferSent = NoFrame /\ (own = 0 => Room(pClientCB))
          /\ tpcb = pClientCB /\ due = Append(wire, hand)
      BY <1>1, <2>2 DEF IInv, During, Flowing
    <3>2. CASE refused'
      <4>1. ~Room(pClientCB) \/ poolFails' = poolFails + 1
        BY <1>2, <2>2, <3>1, <3>2
      <4>2. CASE ~Room(pClientCB)
        BY <3>1, <3>2, <4>2 DEF IInv, Types
      <4>3. CASE poolFails' = poolFails + 1
        BY <3>2, <4>3 DEF IInv, Types
      <4> QED
        BY <4>1, <4>2, <4>3
    <3>3. CASE ~refused'
      BY <1>1, <1>2, <2>2, <3>1, <3>3 DEF IInv, Types, Flowing, Smooth
    <3> QED
      BY <3>2, <3>3
  <2> QED
    BY <2>1, <2>2
<1> QED
  BY <1>3, <1>4, <1>5 DEF IInv

-----------------------------------------------------------------------------
(* The callbacks.                                                          *)

LEMMA AcceptPreserves == IInv /\ Accept => IInv'
<1> SUFFICES ASSUME IInv, Accept PROVE IInv'
  OBVIOUS
<1>1. /\ conns < MaxConns /\ conns' = conns + 1 /\ pClientCB' = conns + 1
      /\ alive' = alive \cup {conns + 1}
      /\ UNCHANGED <<loop, bufferSent, inflight, arrived, own, poolFails, refused, due, wire>>
  BY DEF Accept, saving
<1>2. Types'
  BY <1>1, GatewayAssumption DEF IInv, Types, loop
<1>3. Before'
  BY <1>1 DEF IInv, Types, Before
<1>4. During'
  <2> SUFFICES ASSUME conns' = 1 PROVE /\ ~refused /\ bufferSent = NoFrame
                                       /\ Room(pClientCB)' /\ wire = due /\ pc # "write"
    BY <1>1 DEF During, Flowing, loop
  <2>1. conns = 0
    BY <1>1 DEF IInv, Types
  <2>2. pClientCB' \in Pcb /\ inflight' = [k \in Pcb |-> <<>>]
    BY <1>1, <2>1, PcbIs DEF IInv, Before
  <2>3. Room(pClientCB)'
    BY <2>2, GatewayAssumption DEF Room
  <2> QED
    BY <2>1, <2>3 DEF IInv, Before
<1> QED
  BY <1>2, <1>3, <1>4 DEF IInv

LEMMA AckPreserves ==
    ASSUME IInv, NEW k \in Pcb, NEW n \in 1 .. SndBuf, Ack(k, n)
    PROVE  IInv'
<1>1. /\ k \in alive /\ n \in DOMAIN inflight[k]
      /\ inflight' = [inflight EXCEPT ![k] = SubSeq(@, n + 1, Len(@))]
      /\ bufferSent' = NoFrame \/ bufferSent' = bufferSent
      /\ UNCHANGED <<loop, server, alive, arrived, own, conns, poolFails, refused, due, wire>>
  BY DEF Ack, counts
<1>2. inflight[k] \in Seq(Frame) /\ n \in 1 .. Len(inflight[k])
  BY <1>1, LenProperties DEF IInv, Types
<1>3. /\ SubSeq(inflight[k], n + 1, Len(inflight[k])) \in Seq(Frame)
      /\ Len(SubSeq(inflight[k], n + 1, Len(inflight[k]))) <= Len(inflight[k])
  BY <1>2, LenProperties
<1>4. inflight' \in [Pcb -> Seq(Frame)]
  BY <1>1, <1>3 DEF IInv, Types
<1>5. Types'
  BY <1>1, <1>4, SMTT(30) DEF IInv, Types, loop, server, NoFrame, Frame
<1>6. Before'
  BY <1>1 DEF IInv, Before
<1>7. During'
  <2>1. ASSUME Room(pClientCB), pClientCB \in alive PROVE Room(pClientCB)'
    <3>1. pClientCB \in Pcb /\ pClientCB' = pClientCB /\ inflight[pClientCB] \in Seq(Frame)
      BY <1>1, <2>1, PcbIs DEF IInv, Types, server
    <3>2. CASE pClientCB = k
      <4>1. inflight'[k] = SubSeq(inflight[k], n + 1, Len(inflight[k]))
        BY <1>1 DEF IInv, Types
      <4> DEFINE short == Len(SubSeq(inflight[k], n + 1, Len(inflight[k])))
                 long == Len(inflight[k])
      <4>2. short \in Nat /\ long \in Nat /\ short <= long /\ long < SndBuf
        BY <1>2, <1>3, <2>1, <3>2, LenProperties DEF Room
      <4>3. short < SndBuf
        <5> HIDE DEF short, long
        <5> QED
          BY <4>2, GatewayAssumption
      <4> QED
        BY <3>1, <3>2, <4>1, <4>3 DEF Room
    <3>3. CASE pClientCB # k
      <4>1. inflight'[pClientCB] = inflight[pClientCB]
        BY <1>1, <3>1, <3>3 DEF IInv, Types
      <4> QED
        BY <2>1, <3>1, <4>1 DEF Room
    <3> QED
      BY <3>2, <3>3
  <2> QED
    BY <1>1, <2>1 DEF IInv, During, Flowing, loop, server
<1> QED
  BY <1>5, <1>6, <1>7 DEF IInv

(* Everything that ends a connection.                                      *)
LEMMA ClosingPreserves ==
    ASSUME IInv, NEW k \in Pcb,
           AcceptFails \/ Poll(k) \/ RemoteClose(k) \/ Abort(k) \/ Reset(k)
    PROVE  IInv'
<1>1. Null \notin alive
  BY DEF IInv, Types, Null
<1>2. ASSUME NEW j, Freed({j}), pClientCB' = Null,
             UNCHANGED <<loop, bufferSent, poolFails, refused, wire, counts, due>>
      PROVE  IInv'
  <2>1. pClientCB' \notin alive'
    BY <1>1, <1>2 DEF Freed
  <2> QED
    BY <1>2, <2>1, ClientGone DEF counts
<1>3. ASSUME NEW j, Shutdown(j), UNCHANGED <<loop, bufferSent, counts, poolFails, refused, due, wire>>
      PROVE  IInv'
  <2>1. Freed({j, pClientCB}) /\ pClientCB' = Null
    BY <1>3 DEF Shutdown
  <2>2. pClientCB' \notin alive'
    BY <1>1, <2>1 DEF Freed
  <2> QED
    BY <1>3, <2>1, <2>2, ClientGone DEF counts
<1>4. CASE AcceptFails
  BY <1>3, <1>4 DEF AcceptFails
<1>5. CASE Poll(k)
  <2>1. CASE bufferSent # NoFrame
    <3>1. /\ ServerSend(pClientCB, bufferSent) /\ alive # {}
          /\ UNCHANGED <<loop, pClientCB, alive, arrived, conns, own, due>>
      BY <1>5, <2>1 DEF Poll, server, counts
    <3> QED
      BY <2>1, <3>1, SavedSent
  <2>2. CASE bufferSent = NoFrame
    BY <1>2, <1>5, <2>2 DEF Poll, CloseConn, saving
  <2> QED
    BY <2>1, <2>2
<1>6. CASE RemoteClose(k)
  <2>1. CASE bufferSent # NoFrame
    <3>1. /\ ServerSend(k, bufferSent) /\ alive # {}
          /\ UNCHANGED <<loop, pClientCB, alive, arrived, conns, own, due>>
      BY <1>6, <2>1 DEF RemoteClose, counts
    <3> QED
      BY <2>1, <3>1, SavedSent
  <2>2. CASE bufferSent = NoFrame
    BY <1>2, <1>6, <2>2 DEF RemoteClose, CloseConn, saving
  <2> QED
    BY <2>1, <2>2
<1>7. CASE Abort(k)
  <2>1. Freed({k}) /\ UNCHANGED <<loop, server, bufferSent, counts, poolFails, refused, due, wire>>
    BY <1>7 DEF Abort, saving
  <2>2. CASE pClientCB \notin alive'
    BY <2>1, <2>2, ClientGone DEF server, counts
  <2>3. CASE pClientCB \in alive'
    \* Another connection than the client's.
    <3>1. /\ alive' \subseteq alive /\ inflight' \in [Pcb -> Seq(Frame)]
          /\ inflight = [j \in Pcb |-> <<>>] => inflight' = [j \in Pcb |-> <<>>]
          /\ \A j \in alive' : j \in Pcb => inflight'[j] = inflight[j]
      BY <2>1, FreedKeeps DEF IInv
    <3>2. Types' /\ Before'
      BY <2>1, <3>1 DEF IInv, Types, Before, loop, server, counts
    <3>3. pClientCB \in Pcb /\ pClientCB' = pClientCB /\ pClientCB \in alive
      BY <2>1, <2>3, <3>1, PcbIs DEF IInv, Types, server
    <3>4. Room(pClientCB) => Room(pClientCB)'
      BY <2>3, <3>1, <3>3 DEF Room
    <3>5. During'
      BY <2>1, <3>3, <3>4 DEF IInv, During, Flowing, loop, counts
    <3> QED
      BY <3>2, <3>5 DEF IInv
  <2> QED
    BY <2>2, <2>3
<1>8. CASE Reset(k)
  BY <1>3, <1>8 DEF Reset
<1> QED
  BY <1>4, <1>5, <1>6, <1>7, <1>8

-----------------------------------------------------------------------------
LEMMA Initial == Init => IInv
<1> SUFFICES ASSUME Init PROVE IInv
  OBVIOUS
<1>1. <<>> \in Seq(Frame)
  BY EmptySeq
<1>2. Types
  <2>1. refused \in BOOLEAN
    BY DEF Init
  <2>2. /\ conns = 0 /\ arrived = 0 /\ own = 0 /\ poolFails = 0 /\ alive = {}
        /\ pClientCB = 0 /\ ring = <<>> /\ due = <<>> /\ wire = <<>>
        /\ hand = 0 /\ bufferSent = 0 /\ inflight = [k \in Pcb |-> <<>>]
        /\ pc = "idle" /\ after = "idle"
    BY DEF Init, Null, NoFrame
  <2> QED
    BY <1>1, <2>1, <2>2, GatewayAssumption DEF Types, Frame
<1>3. Before /\ During
  BY DEF Init, Before, During
<1> QED
  BY <1>2, <1>3 DEF IInv

LEMMA Inductive == IInv /\ [Next]_vars => IInv'
<1> SUFFICES ASSUME IInv, [Next]_vars PROVE IInv'
  OBVIOUS
<1>1. CASE CanFrame \/ GcFrame \/ OwnFrame \/ OwnEvent \/ TakeCoe \/ TakeGc \/ CheckSend
           \/ Handled
  BY <1>1, CanFramePreserves, OwnPreserves, TurnsPreserve
<1>2. CASE Pull \/ Write
  BY <1>2, PullPreserves, WritePreserves
<1>3. CASE Accept
  BY <1>3, AcceptPreserves
<1>4. ASSUME NEW k \in Pcb, NEW n \in 1 .. SndBuf, Ack(k, n) PROVE IInv'
  BY <1>4, AckPreserves
<1>5. ASSUME NEW k \in Pcb, Poll(k) \/ RemoteClose(k) \/ Abort(k) \/ Reset(k) PROVE IInv'
  BY <1>5, ClosingPreserves
<1>6. CASE AcceptFails
  <2>1. CASE Pcb # {}
    BY <1>6, <2>1, ClosingPreserves
  <2>2. CASE Pcb = {}
    BY <1>6, <2>2, PcbIs DEF AcceptFails, IInv, Types
  <2> QED
    BY <2>1, <2>2
<1>7. CASE UNCHANGED vars
  BY <1>7 DEF vars, loop, server, tcp, saving, counts, IInv, Types, Before, During, Flowing, Room
<1> QED
  BY <1>1, <1>2, <1>3, <1>4, <1>5, <1>6, <1>7 DEF Next, Loop

(* Whatever callbacks of lwIP fall between canSend(), the removal of the   *)
(* frame from the ring and the write, TCP refuses a message to the one     *)
(* client only after a frame of the node's own (an event, or the answer to *)
(* a command, sent without canSend()) or when its pools run out; and until *)
(* then the client misses no frame and gets none twice.                    *)
THEOREM ForwardsInOrder == Spec => []ForwardedInOrder
<1>1. Init /\ [][Next]_vars => []IInv
  BY Initial, Inductive, PTL
<1> QED
  BY <1>1, Promise, PTL DEF Spec

-----------------------------------------------------------------------------
(* The text of a frame. *)

USE DEF Start, End, Std, Ext, Norm, Rtr, Other, Hex, Char

(* A byte is its two hexadecimal digits. *)
LEMMA ByteDigits ==
  ASSUME NEW b \in 0 .. 255
  PROVE  /\ b \div 16 \in Hex /\ b % 16 \in Hex
         /\ 16 * (b \div 16) + (b % 16) = b
BY SMT

(* What a sequence holds. *)
LEMMA Element ==
  ASSUME NEW S, NEW s \in Seq(S), NEW i \in 1 .. Len(s)
  PROVE  s[i] \in S
OBVIOUS

(* Two sequences joined. *)
LEMMA Joined ==
  ASSUME NEW S, NEW s \in Seq(S), NEW t \in Seq(S)
  PROVE  /\ s \o t \in Seq(S)
         /\ Len(s \o t) = Len(s) + Len(t)
         /\ \A i \in 1 .. Len(s) : (s \o t)[i] = s[i]
         /\ \A i \in 1 .. Len(t) : (s \o t)[Len(s) + i] = t[i]
OBVIOUS

(* Joined text and text of length n, by name: the provers look no further. *)
Cat(s, t) == s \o t
Line(s, n) == s \in Seq(Char) /\ Len(s) = n

(* Two lines of known length joined. *)
LEMMA LinesJoined ==
  ASSUME NEW s, NEW t, NEW n \in Nat, NEW m \in Nat, Line(s, n), Line(t, m)
  PROVE  /\ Line(Cat(s, t), n + m)
         /\ \A i \in 1 .. n : Cat(s, t)[i] = s[i]
         /\ \A i \in 1 .. m : Cat(s, t)[n + i] = t[i]
<1>1. s \in Seq(Char) /\ t \in Seq(Char)
  BY DEF Line
<1>2. Len(s) = n /\ Len(t) = m
  BY DEF Line
<1>3. Cat(s, t) \in Seq(Char)
  BY <1>1, Joined DEF Cat
<1>4. Len(Cat(s, t)) = Len(s) + Len(t)
  BY <1>1, Joined DEF Cat
<1>5. \A i \in 1 .. Len(s) : Cat(s, t)[i] = s[i]
  BY <1>1, Joined DEF Cat
<1>6. \A i \in 1 .. Len(t) : Cat(s, t)[Len(s) + i] = t[i]
  BY <1>1, Joined DEF Cat
<1> DEFINE r == Cat(s, t)  k == Len(s)  l == Len(t)  h == Len(r)
<1>7. r \in Seq(Char) /\ h = k + l /\ k = n /\ l = m
  BY <1>2, <1>3, <1>4
<1>8. (\A i \in 1 .. k : r[i] = s[i]) /\ \A i \in 1 .. l : r[k + i] = t[i]
  BY <1>5, <1>6
<1>9. Line(r, h)
  BY <1>7 DEF Line
<1> HIDE DEF r, k, l, h
<1>10. Line(r, n + m) /\ (\A i \in 1 .. n : r[i] = s[i]) /\ \A i \in 1 .. m : r[n + i] = t[i]
  BY <1>7, <1>8, <1>9
<1> QED
  BY <1>10 DEF r

(* A line with two characters behind it. *)
LEMMA PairJoined ==
  ASSUME NEW s, NEW n \in Nat, Line(s, n), NEW u, Line(u, 2)
  PROVE  /\ Line(Cat(s, u), n + 2)
         /\ \A i \in 1 .. n : Cat(s, u)[i] = s[i]
         /\ Cat(s, u)[n + 1] = u[1]
         /\ Cat(s, u)[n + 2] = u[2]
<1> DEFINE m == 2
<1>1. m \in Nat /\ Line(u, m) /\ 1 \in 1 .. m /\ 2 \in 1 .. m
  OBVIOUS
<1> HIDE DEF m
<1>2. /\ Line(Cat(s, u), n + m)
      /\ \A i \in 1 .. n : Cat(s, u)[i] = s[i]
      /\ \A i \in 1 .. m : Cat(s, u)[n + i] = u[i]
  BY <1>1, LinesJoined
<1>3. Cat(s, u)[n + 1] = u[1] /\ Cat(s, u)[n + 2] = u[2]
  BY <1>1, <1>2
<1> QED
  BY <1>2, <1>3 DEF m

(* Two digits are a line of two characters. *)
LEMMA Pair ==
  ASSUME NEW a \in Hex, NEW b \in Hex
  PROVE  Line(<<a, b>>, 2) /\ <<a, b>>[1] = a /\ <<a, b>>[2] = b
BY DEF Line

(* The digits of the data bytes, high digit first. *)
LEMMA DataDigitsAre ==
  ASSUME NEW data \in Seq(0 .. 255)
  PROVE  /\ DataDigits(data) \in Seq(Hex)
         /\ Len(DataDigits(data)) = 2 * Len(data)
         /\ \A i \in 1 .. Len(data) :
              /\ DataDigits(data)[(2 * i) - 1] = data[i] \div 16
              /\ DataDigits(data)[2 * i] = data[i] % 16
<1> DEFINE n == 2 * Len(data)
<1>1. n \in Nat /\ Len(data) \in Nat
  OBVIOUS
<1> DEFINE m == Len(data)
<1>2. \A j \in 1 .. n : (j + 1) \div 2 \in 1 .. m /\ 2 - (j % 2) \in {1, 2}
  <2>1. m \in Nat /\ n = 2 * m
    BY <1>1
  <2> HIDE DEF m, n
  <2>2. SUFFICES ASSUME NEW j \in 1 .. n
                 PROVE  (j + 1) \div 2 \in 1 .. m /\ 2 - (j % 2) \in {1, 2}
    OBVIOUS
  <2>3. j \in Nat /\ 1 <= j /\ j <= 2 * m
    BY <2>1
  <2>4. 1 <= (j + 1) \div 2 /\ (j + 1) \div 2 <= m /\ (j + 1) \div 2 \in Nat
    BY <2>1, <2>3, SMT
  <2>5. j % 2 = 0 \/ j % 2 = 1
    BY <2>3, SMT
  <2>6. 2 - (j % 2) \in {1, 2}
    BY <2>5
  <2>7. m \in Nat
    BY <2>1
  <2>8. (j + 1) \div 2 \in 1 .. m
    BY <2>4, <2>7, SMT
  <2> QED
    BY <2>6, <2>8
<1>3. \A j \in 1 .. n : data[(j + 1) \div 2] \in 0 .. 255
  <2>1. \A k \in 1 .. Len(data) : data[k] \in 0 .. 255
    BY Element
  <2>2. \A k \in 1 .. m : data[k] \in 0 .. 255
    BY <2>1
  <2> HIDE DEF m
  <2> QED
    BY <1>2, <2>2
<1>4. \A j \in 1 .. n : Digits(data[(j + 1) \div 2])[2 - (j % 2)] \in Hex
  <2> SUFFICES ASSUME NEW j \in 1 .. n
               PROVE  Digits(data[(j + 1) \div 2])[2 - (j % 2)] \in Hex
    OBVIOUS
  <2> DEFINE b == data[(j + 1) \div 2]  k == 2 - (j % 2)
  <2>1. b \in 0 .. 255 /\ k \in {1, 2}
    BY <1>2, <1>3
  <2> HIDE DEF b, k
  <2>2. b \div 16 \in Hex /\ b % 16 \in Hex
    BY <2>1, ByteDigits
  <2>3. <<b \div 16, b % 16>>[k] \in Hex
    BY <2>1, <2>2, SMTT(30)
  <2> QED
    BY <2>3 DEF b, k, Digits
<1>5. DataDigits(data) = [j \in 1 .. n |-> Digits(data[(j + 1) \div 2])[2 - (j % 2)]]
  BY DEF DataDigits
<1>6. DataDigits(data) \in [1 .. n -> Hex]
  BY <1>4, <1>5
<1>7. DataDigits(data) \in Seq(Hex) /\ Len(DataDigits(data)) = n
  BY <1>1, <1>6, SMTT(30)
<1>8. ASSUME NEW i \in 1 .. Len(data)
      PROVE  /\ DataDigits(data)[(2 * i) - 1] = data[i] \div 16
             /\ DataDigits(data)[2 * i] = data[i] % 16
  <2>1. /\ (2 * i) - 1 \in 1 .. n /\ 2 * i \in 1 .. n
        /\ ((2 * i) - 1 + 1) \div 2 = i /\ ((2 * i) + 1) \div 2 = i
        /\ 2 - (((2 * i) - 1) % 2) = 1 /\ 2 - ((2 * i) % 2) = 2
    BY <1>1, SMT
  <2>2. /\ DataDigits(data)[(2 * i) - 1] = Digits(data[i])[1]
        /\ DataDigits(data)[2 * i] = Digits(data[i])[2]
    BY <1>5, <2>1
  <2> QED
    BY <2>2 DEF Digits
<1> QED
  BY <1>7, <1>8

----
(* the identifiers *)
LEMMA TwoPairs ==
  ASSUME NEW p, NEW u, Line(p, 2), Line(u, 2)
  PROVE  /\ Line(Cat(p, u), 4)
         /\ Cat(p, u)[1] = p[1] /\ Cat(p, u)[2] = p[2]
         /\ Cat(p, u)[3] = u[1] /\ Cat(p, u)[4] = u[2]
<1>1. /\ Line(Cat(p, u), 2 + 2)
      /\ \A i \in 1 .. 2 : Cat(p, u)[i] = p[i]
      /\ Cat(p, u)[2 + 1] = u[1] /\ Cat(p, u)[2 + 2] = u[2]
  BY PairJoined
<1> QED
  BY <1>1

(* Three pairs of characters joined. *)
LEMMA ThreePairs ==
  ASSUME NEW q, NEW u, Line(q, 4), Line(u, 2)
  PROVE  /\ Line(Cat(q, u), 6)
         /\ \A i \in 1 .. 4 : Cat(q, u)[i] = q[i]
         /\ Cat(q, u)[5] = u[1] /\ Cat(q, u)[6] = u[2]
<1>1. /\ Line(Cat(q, u), 4 + 2)
      /\ \A i \in 1 .. 4 : Cat(q, u)[i] = q[i]
      /\ Cat(q, u)[4 + 1] = u[1] /\ Cat(q, u)[4 + 2] = u[2]
  BY PairJoined
<1> QED
  BY <1>1

(* Four pairs of characters joined, that is ... *)
LEMMA FourPairs ==
  ASSUME NEW r, NEW u, Line(r, 6), Line(u, 2)
  PROVE  /\ Line(Cat(r, u), 8)
         /\ \A i \in 1 .. 6 : Cat(r, u)[i] = r[i]
         /\ Cat(r, u)[7] = u[1] /\ Cat(r, u)[8] = u[2]
<1>1. /\ Line(Cat(r, u), 6 + 2)
      /\ \A i \in 1 .. 6 : Cat(r, u)[i] = r[i]
      /\ Cat(r, u)[6 + 1] = u[1] /\ Cat(r, u)[6 + 2] = u[2]
  BY PairJoined
<1> QED
  BY <1>1

(* ... a line of eight characters. *)
LEMMA EightDigits ==
  ASSUME NEW p, NEW u, NEW v, NEW w, Line(p, 2), Line(u, 2), Line(v, 2), Line(w, 2), 
         NEW x, x = Cat(Cat(Cat(p, u), v), w)
  PROVE  /\ Line(x, 8)
         /\ x[1] = p[1] /\ x[2] = p[2] /\ x[3] = u[1] /\ x[4] = u[2]
         /\ x[5] = v[1] /\ x[6] = v[2] /\ x[7] = w[1] /\ x[8] = w[2]
<1> DEFINE q == Cat(p, u)  r == Cat(q, v)
<1>1. Line(q, 4) /\ q[1] = p[1] /\ q[2] = p[2] /\ q[3] = u[1] /\ q[4] = u[2]
  BY TwoPairs
<1> HIDE DEF q
<1>2. /\ Line(r, 6)
      /\ \A i \in 1 .. 4 : r[i] = q[i]
      /\ r[5] = v[1] /\ r[6] = v[2]
  BY <1>1, ThreePairs
<1>3. x = Cat(r, w)
  BY DEF q
<1> HIDE DEF r
<1>4. /\ Line(x, 8)
      /\ \A i \in 1 .. 6 : x[i] = r[i]
      /\ x[7] = w[1] /\ x[8] = w[2]
  BY <1>2, <1>3, FourPairs
<1> QED
  BY <1>1, <1>2, <1>4

(* The two digits of a 29-bit identifier that stand for less than four bits. *)
ExtTop(id) == 2 * ((id \div 2^18) % 8)
ExtNext(id) == (id \div 2^16) % 4

(* The eight digits of a 29-bit identifier. *)
LEMMA ExtDigitsAre ==
  ASSUME NEW id \in Nat, id < 2^29
  PROVE  /\ Line(ExtDigits(id), 8)
         /\ \A i \in 1 .. 8 : ExtDigits(id)[i] \in Hex
         /\ ExtDigits(id)[1] = (id \div 2^21) \div 16
         /\ ExtDigits(id)[2] = (id \div 2^21) % 16
         /\ ExtDigits(id)[3] = ExtTop(id)
         /\ ExtDigits(id)[4] = ExtNext(id)
         /\ ExtDigits(id)[5] = ((id \div 256) % 256) \div 16
         /\ ExtDigits(id)[6] = ((id \div 256) % 256) % 16
         /\ ExtDigits(id)[7] = (id % 256) \div 16
         /\ ExtDigits(id)[8] = (id % 256) % 16
<1> DEFINE a == (id \div 2^21) \div 16  b == (id \div 2^21) % 16
           c == 2 * ((id \div 2^18) % 8)  d == (id \div 2^16) % 4
           e == ((id \div 256) % 256) \div 16  f == ((id \div 256) % 256) % 16
           g == (id % 256) \div 16  h == (id % 256) % 16
<1>1. /\ id \div 2^21 \in 0 .. 255 /\ (id \div 2^18) % 8 \in 0 .. 7 /\ (id \div 2^16) % 4 \in 0 .. 3
      /\ (id \div 256) % 256 \in 0 .. 255 /\ id % 256 \in 0 .. 255
  BY SMT
<1>2. /\ a \in Hex /\ b \in Hex /\ c \in Hex /\ d \in Hex
      /\ e \in Hex /\ f \in Hex /\ g \in Hex /\ h \in Hex
  BY <1>1, SMT
<1>3. ExtDigits(id) = <<a, b>> \o <<c, d>> \o <<e, f>> \o <<g, h>>
  BY DEF ExtDigits, Digits
<1> DEFINE x == ExtDigits(id)  p == <<a, b>>  u == <<c, d>>  v == <<e, f>>  w == <<g, h>>
<1> HIDE DEF a, b, c, d, e, f, g, h
<1>4. x = Cat(Cat(Cat(p, u), v), w)
  BY <1>3 DEF Cat
<1> HIDE DEF x
<1>5. /\ Line(p, 2) /\ p[1] = a /\ p[2] = b
      /\ Line(u, 2) /\ u[1] = c /\ u[2] = d
      /\ Line(v, 2) /\ v[1] = e /\ v[2] = f
      /\ Line(w, 2) /\ w[1] = g /\ w[2] = h
  BY <1>2, Pair
<1> HIDE DEF p, u, v, w
<1>6. /\ Line(x, 8)
      /\ x[1] = p[1] /\ x[2] = p[2] /\ x[3] = u[1] /\ x[4] = u[2]
      /\ x[5] = v[1] /\ x[6] = v[2] /\ x[7] = w[1] /\ x[8] = w[2]
  BY <1>4, <1>5, EightDigits
<1>7. /\ Line(x, 8)
      /\ x[1] = a /\ x[2] = b /\ x[3] = c /\ x[4] = d
      /\ x[5] = e /\ x[6] = f /\ x[7] = g /\ x[8] = h
  BY <1>5, <1>6
<1>8. \A i \in 1 .. 8 : x[i] \in Hex
  <2>1. \A i \in 1 .. 8 : i = 1 \/ i = 2 \/ i = 3 \/ i = 4 \/ i = 5 \/ i = 6 \/ i = 7 \/ i = 8
    BY SMT
  <2> QED
    BY <1>2, <1>7, <2>1
<1> QED
  BY <1>7, <1>8 DEF a, b, c, d, e, f, g, h, x, ExtTop, ExtNext

(* The four digits of an 11-bit identifier. *)
LEMMA StdDigitsAre ==
  ASSUME NEW id \in Nat, id < 2^11
  PROVE  /\ Line(StdDigits(id), 4)
         /\ \A i \in 1 .. 4 : StdDigits(id)[i] \in Hex
         /\ StdDigits(id)[1] = ((id * 32) \div 256) \div 16
         /\ StdDigits(id)[2] = ((id * 32) \div 256) % 16
         /\ StdDigits(id)[3] = ((id * 32) % 256) \div 16
         /\ StdDigits(id)[4] = ((id * 32) % 256) % 16
<1>1. (id * 32) \div 256 \in 0 .. 255 /\ (id * 32) % 256 \in 0 .. 255
  BY SMT
<1> DEFINE a == ((id * 32) \div 256) \div 16  b == ((id * 32) \div 256) % 16
           c == ((id * 32) % 256) \div 16  d == ((id * 32) % 256) % 16
<1>2. a \in Hex /\ b \in Hex /\ c \in Hex /\ d \in Hex
  BY <1>1, SMT
<1>3. StdDigits(id) = <<a, b>> \o <<c, d>>
  BY DEF StdDigits, Digits
<1> HIDE DEF a, b, c, d
<1> DEFINE p == <<a, b>>  u == <<c, d>>  x == Cat(p, u)
<1>4. Line(p, 2) /\ p[1] = a /\ p[2] = b /\ Line(u, 2) /\ u[1] = c /\ u[2] = d
  BY <1>2, Pair
<1>5. StdDigits(id) = x
  BY <1>3 DEF Cat
<1> HIDE DEF p, u, x
<1>6. Line(x, 4) /\ x[1] = a /\ x[2] = b /\ x[3] = c /\ x[4] = d
  <2>1. /\ Line(x, 2 + 2)
        /\ \A i \in 1 .. 2 : x[i] = p[i]
        /\ x[2 + 1] = u[1] /\ x[2 + 2] = u[2]
    BY <1>4, PairJoined DEF x
  <2> QED
    BY <1>4, <2>1
<1>7. \A i \in 1 .. 4 : x[i] \in Hex
  <2>1. \A i \in 1 .. 4 : i = 1 \/ i = 2 \/ i = 3 \/ i = 4
    BY SMT
  <2> QED
    BY <1>2, <1>6, <2>1
<1> QED
  BY <1>5, <1>6, <1>7 DEF a, b, c, d

(* The fields the 29-bit identifier is divided in give it back. *)
LEMMA ExtIdBack ==
  ASSUME NEW id \in Nat, id < 2^29
  PROVE  LET s == (16 * (2 * ((id \div 2^18) % 8))) + ((id \div 2^16) % 4)
         IN  ((id \div 2^21) * 2^21) + ((s \div 32) * 2^18) + ((s % 4) * 2^16)
                + (((id \div 256) % 256) * 256) + (id % 256) = id
<1> DEFINE k == (id \div 262144) % 8  l == (id \div 65536) % 4
<1>1. 2^21 = 2097152 /\ 2^18 = 262144 /\ 2^16 = 65536
  BY SMT
<1>2. ((id \div 2097152) * 2097152) + (k * 262144) + (l * 65536)
         + (((id \div 256) % 256) * 256) + (id % 256) = id
  <2> DEFINE u == id \div 256  v == id \div 65536  w == id \div 262144  x == id \div 2097152
  <2>1. id = (256 * u) + (id % 256) /\ u \in Nat
    BY SMT
  <2>2. v = u \div 256 /\ w = v \div 4 /\ x = w \div 8 /\ v \in Nat /\ w \in Nat /\ x \in Nat
    <3>1. v = u \div 256 /\ v \in Nat
      BY SMTT(30)
    <3>2. w = v \div 4 /\ w \in Nat
      BY SMTT(30)
    <3>3. x = w \div 8 /\ x \in Nat
      BY SMTT(30)
    <3> QED
      BY <3>1, <3>2, <3>3
  <2> HIDE DEF u, v, w, x
  <2>3. u = (256 * v) + (u % 256)
    BY <2>1, <2>2, SMT
  <2>4. v = (4 * w) + (v % 4)
    BY <2>2, SMT
  <2>5. w = (8 * x) + (w % 8)
    BY <2>2, SMT
  <2>6. k = w % 8 /\ l = v % 4
    BY DEF w, v
  <2>7. u % 256 \in Nat /\ id % 256 \in Nat /\ k \in Nat /\ l \in Nat
    BY <2>1, <2>2, <2>6, SMT
  <2> HIDE DEF k, l
  <2>8. (x * 2097152) + (k * 262144) + (l * 65536) + ((u % 256) * 256) + (id % 256) = id
    <3>1. w = (8 * x) + k /\ v = (4 * w) + l
      BY <2>4, <2>5, <2>6
    <3>2. v = (32 * x) + (4 * k) + l
      BY <2>2, <2>7, <3>1
    <3> QED
      BY <2>1, <2>2, <2>3, <2>7, <3>2
  <2> QED
    BY <2>8 DEF x, u
<1>3. k \in 0 .. 7 /\ l \in 0 .. 3
  BY SMT
<1> HIDE DEF k, l
<1>4. ((16 * (2 * k)) + l) \div 32 = k /\ ((16 * (2 * k)) + l) % 4 = l
  BY <1>3, SMT
<1>5. (id \div 2^18) % 8 = k /\ (id \div 2^16) % 4 = l
  BY <1>1 DEF k, l
<1> QED
  BY <1>1, <1>2, <1>4, <1>5

(* One character is a line. *)
LEMMA One ==
  ASSUME NEW a \in Char
  PROVE  Line(<<a>>, 1) /\ <<a>>[1] = a
BY DEF Line

(* A line with one character before it. *)
LEMMA OneBefore ==
  ASSUME NEW t, Line(t, 1), NEW s, NEW n \in Nat, Line(s, n)
  PROVE  /\ Line(Cat(t, s), n + 1)
         /\ Cat(t, s)[1] = t[1]
         /\ \A i \in 1 .. n : Cat(t, s)[1 + i] = s[i]
<1> DEFINE m == 1
<1>1. Line(t, m) /\ m \in Nat /\ 1 \in 1 .. m
  OBVIOUS
<1> HIDE DEF m
<1>2. /\ Line(Cat(t, s), m + n)
      /\ \A i \in 1 .. m : Cat(t, s)[i] = t[i]
      /\ \A i \in 1 .. n : Cat(t, s)[m + i] = s[i]
  BY <1>1, LinesJoined
<1>3. Line(Cat(t, s), n + 1)
  BY <1>2 DEF m
<1>4. Cat(t, s)[1] = t[1]
  BY <1>1, <1>2
<1>5. \A i \in 1 .. n : Cat(t, s)[1 + i] = s[i]
  BY <1>2 DEF m
<1> QED
  BY <1>3, <1>4, <1>5

(* A line with one character behind it. *)
LEMMA OneAfter ==
  ASSUME NEW t, Line(t, 1), NEW s, NEW n \in Nat, Line(s, n)
  PROVE  /\ Line(Cat(s, t), n + 1)
         /\ \A i \in 1 .. n : Cat(s, t)[i] = s[i]
         /\ Cat(s, t)[n + 1] = t[1]
<1> DEFINE m == 1
<1>1. Line(t, m) /\ m \in Nat /\ 1 \in 1 .. m
  OBVIOUS
<1> HIDE DEF m
<1>2. /\ Line(Cat(s, t), n + m)
      /\ \A i \in 1 .. n : Cat(s, t)[i] = s[i]
      /\ \A i \in 1 .. m : Cat(s, t)[n + i] = t[i]
  BY <1>1, LinesJoined
<1>3. Line(Cat(s, t), n + 1)
  BY <1>2 DEF m
<1>4. Cat(s, t)[n + 1] = t[1]
  BY <1>1, <1>2
<1> QED
  BY <1>2, <1>3, <1>4

Whole(a, b, d, k, e, z) == Cat(Cat(Cat(Cat(a, Cat(b, d)), k), e), z)

Spelt(c, a, b, n, d, k, m, e, z) ==
  /\ Line(c, n + m + 4)
  /\ c[1] = a[1] /\ c[2] = b[1]
  /\ \A i \in 1 .. n : c[2 + i] = d[i]
  /\ c[n + 3] = k[1]
  /\ \A i \in 1 .. m : c[n + 3 + i] = e[i]
  /\ c[n + m + 4] = z[1]

(* The message assembled from its six parts holds each in its place. *)
LEMMA Assembled ==
  ASSUME NEW a, Line(a, 1), NEW b, Line(b, 1), NEW k, Line(k, 1), NEW z, Line(z, 1),
         NEW n \in Nat, NEW d, Line(d, n), NEW m \in Nat, NEW e, Line(e, m)
  PROVE  Spelt(Whole(a, b, d, k, e, z), a, b, n, d, k, m, e, z)
<1> DEFINE u == Cat(b, d)  v == Cat(a, u)  w == Cat(v, k)  x == Cat(w, e)
           c == Whole(a, b, d, k, e, z)
<1>1. /\ Line(u, n + 1) /\ u[1] = b[1]
      /\ \A i \in 1 .. n : u[1 + i] = d[i]
  BY OneBefore
<1>2. c = Cat(x, z)
  BY DEF Whole
<1> HIDE DEF c, u
<1>3. n + 1 \in Nat /\ n + 2 \in Nat /\ n + 3 \in Nat /\ n + 3 + m \in Nat
  OBVIOUS
<1>4. /\ Line(v, n + 1 + 1) /\ v[1] = a[1]
      /\ \A i \in 1 .. n + 1 : v[1 + i] = u[i]
  BY <1>1, <1>3, OneBefore
<1> HIDE DEF v
<1>5. /\ Line(v, n + 2) /\ v[1] = a[1] /\ v[2] = b[1]
      /\ \A i \in 1 .. n : v[2 + i] = d[i]
  <2>1. v[1 + 1] = b[1]
    BY <1>1, <1>4
  <2>2. \A i \in 1 .. n : 1 + i \in 1 .. n + 1 /\ 1 + (1 + i) = 2 + i
    OBVIOUS
  <2>3. \A i \in 1 .. n : v[1 + (1 + i)] = u[1 + i]
    BY <1>4, <2>2
  <2>4. n + 1 + 1 = n + 2 /\ 1 + 1 = 2
    OBVIOUS
  <2> QED
    BY <1>1, <1>4, <2>1, <2>2, <2>3, <2>4
<1>6. /\ Line(w, n + 2 + 1)
      /\ \A i \in 1 .. n + 2 : w[i] = v[i]
      /\ w[n + 2 + 1] = k[1]
  BY <1>3, <1>5, OneAfter
<1> HIDE DEF w
<1>7. /\ Line(w, n + 3) /\ w[1] = a[1] /\ w[2] = b[1] /\ w[n + 3] = k[1]
      /\ \A i \in 1 .. n : w[2 + i] = d[i]
  <2>1. /\ 1 \in 1 .. n + 2 /\ 2 \in 1 .. n + 2 /\ n + 2 + 1 = n + 3
        /\ \A i \in 1 .. n : 2 + i \in 1 .. n + 2
    OBVIOUS
  <2> QED
    BY <1>5, <1>6, <2>1
<1>8. /\ Line(x, n + 3 + m)
      /\ \A i \in 1 .. n + 3 : x[i] = w[i]
      /\ \A i \in 1 .. m : x[n + 3 + i] = e[i]
  BY <1>3, <1>7, LinesJoined
<1> HIDE DEF x
<1>9. /\ Line(c, n + 3 + m + 1)
      /\ \A i \in 1 .. n + 3 + m : c[i] = x[i]
      /\ c[n + 3 + m + 1] = z[1]
  <2> DEFINE h == n + 3 + m
  <2>1. h \in Nat /\ Line(x, h)
    BY <1>3, <1>8
  <2> HIDE DEF h
  <2>2. /\ Line(Cat(x, z), h + 1)
        /\ \A i \in 1 .. h : Cat(x, z)[i] = x[i]
        /\ Cat(x, z)[h + 1] = z[1]
    BY <2>1, OneAfter
  <2> QED
    BY <1>2, <2>2 DEF h
<1>10. \A i \in 1 .. n + 3 : c[i] = w[i]
  <2>1. \A i \in 1 .. n + 3 : i \in 1 .. n + 3 + m
    OBVIOUS
  <2> QED
    BY <1>8, <1>9, <2>1
<1>11. c[1] = a[1] /\ c[2] = b[1] /\ c[n + 3] = k[1] /\ \A i \in 1 .. n : c[2 + i] = d[i]
  <2>1. /\ 1 \in 1 .. n + 3 /\ 2 \in 1 .. n + 3 /\ n + 3 \in 1 .. n + 3
        /\ \A i \in 1 .. n : 2 + i \in 1 .. n + 3
    OBVIOUS
  <2> QED
    BY <1>7, <1>10, <2>1
<1>12. \A i \in 1 .. m : c[n + 3 + i] = e[i]
  <2>1. \A i \in 1 .. m : n + 3 + i \in 1 .. n + 3 + m
    OBVIOUS
  <2> QED
    BY <1>8, <1>9, <2>1
<1>13. n + 3 + m + 1 = n + m + 4
  OBVIOUS
<1> QED
  <2>1. Spelt(c, a, b, n, d, k, m, e, z)
    BY <1>9, <1>11, <1>12, <1>13 DEF Spelt
  <2> QED
    BY <2>1 DEF c

(* The message of an extended frame, character by character. *)
LEMMA ExtAssembled ==
  ASSUME NEW f, Encodable(f), f.ext
  PROVE  LET m == 2 * Len(f.data)
             c == EncodeGC(f)
         IN
         /\ Line(c, m + 12)
         /\ c[1] = Start /\ c[2] = Ext
         /\ \A i \in 1 .. 8 : c[2 + i] = ExtDigits(f.id)[i]
         /\ c[11] = IF f.rtr THEN Rtr ELSE Norm
         /\ \A i \in 1 .. m : c[11 + i] = DataDigits(f.data)[i]
         /\ c[m + 12] = End
<1> DEFINE m == 2 * Len(f.data)  c == EncodeGC(f)
           a == <<Start>>  b == <<Ext>>  k == <<IF f.rtr THEN Rtr ELSE Norm>>  z == <<End>>
           d == ExtDigits(f.id)  e == DataDigits(f.data)  n == 8
<1>1. f \in CANFrame /\ f.id < 2^29
  BY DEF Encodable
<1>2. f.id \in Nat /\ f.data \in Seq(0 .. 255)
  BY <1>1 DEF CANFrame
<1>3. c = Whole(a, b, d, k, e, z)
  BY DEF EncodeGC, Cat, Whole
<1>4. /\ Line(a, 1) /\ a[1] = Start /\ Line(b, 1) /\ b[1] = Ext
      /\ Line(k, 1) /\ k[1] = (IF f.rtr THEN Rtr ELSE Norm) /\ Line(z, 1) /\ z[1] = End
  <2>1. Start \in Char /\ Ext \in Char /\ (IF f.rtr THEN Rtr ELSE Norm) \in Char /\ End \in Char
    OBVIOUS
  <2> QED
    BY <2>1, One
<1>5. Line(d, n) /\ n \in Nat
  BY <1>1, <1>2, ExtDigitsAre
<1>6. Line(e, m) /\ m \in Nat
  <2>1. e \in Seq(Hex) /\ Len(e) = m
    BY <1>2, DataDigitsAre
  <2>2. e \in Seq(Char)
    BY <2>1
  <2> QED
    BY <1>2, <2>1, <2>2 DEF Line
<1> HIDE DEF c, m, a, b, k, z, d, e, n
<1>7. /\ Line(c, n + m + 4)
      /\ c[1] = a[1] /\ c[2] = b[1]
      /\ \A i \in 1 .. n : c[2 + i] = d[i]
      /\ c[n + 3] = k[1]
      /\ \A i \in 1 .. m : c[n + 3 + i] = e[i]
      /\ c[n + m + 4] = z[1]
  <2>1. Line(a, 1) /\ Line(b, 1) /\ Line(k, 1) /\ Line(z, 1)
    BY <1>4
  <2>2. Spelt(Whole(a, b, d, k, e, z), a, b, n, d, k, m, e, z)
    BY <2>1, <1>5, <1>6, Assembled
  <2> QED
    BY <1>3, <2>2 DEF Spelt
<1>8. n + m + 4 = m + 12 /\ n + 3 = 11 /\ n = 8
  BY <1>6 DEF n
<1> QED
  BY <1>4, <1>7, <1>8 DEF c, m, d, e

(* The message of a standard frame, character by character. *)
LEMMA StdAssembled ==
  ASSUME NEW f, Encodable(f), ~f.ext
  PROVE  LET m == 2 * Len(f.data)
             c == EncodeGC(f)
         IN
         /\ Line(c, m + 8)
         /\ c[1] = Start /\ c[2] = Std
         /\ \A i \in 1 .. 4 : c[2 + i] = StdDigits(f.id)[i]
         /\ c[7] = IF f.rtr THEN Rtr ELSE Norm
         /\ \A i \in 1 .. m : c[7 + i] = DataDigits(f.data)[i]
         /\ c[m + 8] = End
<1> DEFINE m == 2 * Len(f.data)  c == EncodeGC(f)
           a == <<Start>>  b == <<Std>>  k == <<IF f.rtr THEN Rtr ELSE Norm>>  z == <<End>>
           d == StdDigits(f.id)  e == DataDigits(f.data)  n == 4
<1>1. f \in CANFrame /\ f.id < 2^11
  BY DEF Encodable
<1>2. f.id \in Nat /\ f.data \in Seq(0 .. 255)
  BY <1>1 DEF CANFrame
<1>3. c = Whole(a, b, d, k, e, z)
  BY DEF EncodeGC, Cat, Whole
<1>4. /\ Line(a, 1) /\ a[1] = Start /\ Line(b, 1) /\ b[1] = Std
      /\ Line(k, 1) /\ k[1] = (IF f.rtr THEN Rtr ELSE Norm) /\ Line(z, 1) /\ z[1] = End
  <2>1. Start \in Char /\ Std \in Char /\ (IF f.rtr THEN Rtr ELSE Norm) \in Char /\ End \in Char
    OBVIOUS
  <2> QED
    BY <2>1, One
<1>5. Line(d, n) /\ n \in Nat
  BY <1>1, <1>2, StdDigitsAre
<1>6. Line(e, m) /\ m \in Nat
  <2>1. e \in Seq(Hex) /\ Len(e) = m
    BY <1>2, DataDigitsAre
  <2>2. e \in Seq(Char)
    BY <2>1
  <2> QED
    BY <1>2, <2>1, <2>2 DEF Line
<1> HIDE DEF c, m, a, b, k, z, d, e, n
<1>7. /\ Line(c, n + m + 4)
      /\ c[1] = a[1] /\ c[2] = b[1]
      /\ \A i \in 1 .. n : c[2 + i] = d[i]
      /\ c[n + 3] = k[1]
      /\ \A i \in 1 .. m : c[n + 3 + i] = e[i]
      /\ c[n + m + 4] = z[1]
  <2>1. Line(a, 1) /\ Line(b, 1) /\ Line(k, 1) /\ Line(z, 1)
    BY <1>4
  <2>2. Spelt(Whole(a, b, d, k, e, z), a, b, n, d, k, m, e, z)
    BY <2>1, <1>5, <1>6, Assembled
  <2> QED
    BY <1>3, <2>2 DEF Spelt
<1>8. n + m + 4 = m + 8 /\ n + 3 = 7 /\ n = 4
  BY <1>6 DEF n
<1> QED
  BY <1>4, <1>7, <1>8 DEF c, m, d, e

(* Two digits to a byte. *)
LEMMA Halved ==
  ASSUME NEW n \in Nat
  PROVE  (2 * n) \div 2 = n
BY SMT

(* The bytes read from the digits are the bytes written. *)
LEMMA BytesBack ==
  ASSUME NEW data \in Seq(0 .. 255), NEW k \in Nat, NEW c,
         \A i \in 1 .. 2 * Len(data) : c[k + i] = DataDigits(data)[i]
  PROVE  [i \in 1 .. (2 * Len(data)) \div 2 |-> Byte(c, k + (2 * i) - 1)] = data
<1>1. Len(data) \in Nat /\ data = [i \in 1 .. Len(data) |-> data[i]]
  OBVIOUS
<1>2. (2 * Len(data)) \div 2 = Len(data)
  BY <1>1, Halved
<1>3. ASSUME NEW i \in 1 .. Len(data)
      PROVE  Byte(c, k + (2 * i) - 1) = data[i]
  <2>1. data[i] \in 0 .. 255
    BY Element
  <2>2. /\ (2 * i) - 1 \in 1 .. 2 * Len(data) /\ 2 * i \in 1 .. 2 * Len(data)
        /\ k + ((2 * i) - 1) = k + (2 * i) - 1 /\ k + (2 * i) - 1 + 1 = k + (2 * i)
    BY <1>1
  <2>3. c[k + ((2 * i) - 1)] = data[i] \div 16 /\ c[k + (2 * i)] = data[i] % 16
    BY <2>2, DataDigitsAre
  <2>4. Byte(c, k + (2 * i) - 1) = (16 * (data[i] \div 16)) + (data[i] % 16)
    BY <2>2, <2>3 DEF Byte
  <2> QED
    BY <2>1, <2>4, ByteDigits
<1> QED
  BY <1>1, <1>2, <1>3

(* The longest data leave room for the twelve other characters. *)
LEMMA Fits ==
  ASSUME NEW g \in Nat, g >= 12, NEW n \in Nat, n <= (g - 12) \div 2
  PROVE  (2 * n) + 12 <= g
BY SMT

IdLen(f) == IF f.ext THEN 8 ELSE 4

(* The message of a frame of either kind, character by character. *)
LEMMA EncodedIs ==
  ASSUME NEW f, Encodable(f)
  PROVE  LET c == EncodeGC(f)
             n == IdLen(f)
             m == 2 * Len(f.data)
         IN  /\ c \in Seq(Char) /\ Len(c) = n + m + 4
             /\ c[1] = Start
             /\ c[2] = IF f.ext THEN Ext ELSE Std
             /\ \A i \in 1 .. n : c[2 + i] = (IF f.ext THEN ExtDigits(f.id) ELSE StdDigits(f.id))[i]
             /\ c[n + 3] = IF f.rtr THEN Rtr ELSE Norm
             /\ \A i \in 1 .. m : c[n + 3 + i] = DataDigits(f.data)[i]
             /\ c[n + m + 4] = End
<1>1. f.ext \in BOOLEAN /\ Len(f.data) \in Nat
  BY DEF Encodable, CANFrame
<1> DEFINE c == EncodeGC(f)  m == 2 * Len(f.data)
<1>2. m \in Nat
  BY <1>1
<1>3. CASE f.ext
  <2>1. /\ Line(c, m + 12)
        /\ c[1] = Start /\ c[2] = Ext
        /\ \A i \in 1 .. 8 : c[2 + i] = ExtDigits(f.id)[i]
        /\ c[11] = IF f.rtr THEN Rtr ELSE Norm
        /\ \A i \in 1 .. m : c[11 + i] = DataDigits(f.data)[i]
        /\ c[m + 12] = End
    BY <1>3, ExtAssembled
  <2>2. IdLen(f) = 8
    BY <1>3 DEF IdLen
  <2>3. IdLen(f) + m + 4 = m + 12 /\ IdLen(f) + 3 = 11
    BY <1>2, <2>2
  <2> QED
    BY <1>3, <2>1, <2>2, <2>3 DEF Line
<1>4. CASE ~f.ext
  <2>1. /\ Line(c, m + 8)
        /\ c[1] = Start /\ c[2] = Std
        /\ \A i \in 1 .. 4 : c[2 + i] = StdDigits(f.id)[i]
        /\ c[7] = IF f.rtr THEN Rtr ELSE Norm
        /\ \A i \in 1 .. m : c[7 + i] = DataDigits(f.data)[i]
        /\ c[m + 8] = End
    BY <1>4, StdAssembled
  <2>2. IdLen(f) = 4
    BY <1>4 DEF IdLen
  <2>3. IdLen(f) + m + 4 = m + 8 /\ IdLen(f) + 3 = 7
    BY <1>2, <2>2
  <2> QED
    BY <1>4, <2>1, <2>2, <2>3 DEF Line
<1> QED
  BY <1>1, <1>3, <1>4

(* Identifier and data are digits. *)
LEMMA HexInside ==
  ASSUME NEW f, Encodable(f)
  PROVE  LET c == EncodeGC(f)
             n == IdLen(f)
             m == 2 * Len(f.data)
         IN  /\ \A i \in 1 .. n : c[2 + i] \in Hex
             /\ \A i \in 1 .. m : c[n + 3 + i] \in Hex
<1>1. /\ f.ext \in BOOLEAN /\ f.id \in Nat /\ f.data \in Seq(0 .. 255)
      /\ f.ext => f.id < 2^29
      /\ ~f.ext => f.id < 2^11
  BY DEF Encodable, CANFrame
<1>2. \A i \in 1 .. 2 * Len(f.data) : DataDigits(f.data)[i] \in Hex
  <2>1. DataDigits(f.data) \in Seq(Hex) /\ Len(DataDigits(f.data)) = 2 * Len(f.data)
    BY <1>1, DataDigitsAre
  <2> QED
    BY <2>1, Element
<1>3. CASE f.ext
  <2>1. IdLen(f) = 8
    BY <1>3 DEF IdLen
  <2>2. \A i \in 1 .. 8 : ExtDigits(f.id)[i] \in Hex
    <3> DEFINE id == f.id
    <3>1. id \in Nat /\ id < 2^29
      BY <1>1, <1>3
    <3> HIDE DEF id
    <3>2. \A i \in 1 .. 8 : ExtDigits(id)[i] \in Hex
      BY <3>1, ExtDigitsAre
    <3> QED
      BY <3>2 DEF id
  <2> DEFINE c == EncodeGC(f)  n == IdLen(f)  m == 2 * Len(f.data)
  <2>3. /\ \A i \in 1 .. n : c[2 + i] = ExtDigits(f.id)[i]
        /\ \A i \in 1 .. m : c[n + 3 + i] = DataDigits(f.data)[i]
    BY <1>3, EncodedIs
  <2> QED
    BY <1>2, <2>1, <2>2, <2>3
<1>4. CASE ~f.ext
  <2>1. IdLen(f) = 4
    BY <1>4 DEF IdLen
  <2>2. \A i \in 1 .. 4 : StdDigits(f.id)[i] \in Hex
    <3> DEFINE id == f.id
    <3>1. id \in Nat /\ id < 2^11
      BY <1>1, <1>4
    <3> HIDE DEF id
    <3>2. \A i \in 1 .. 4 : StdDigits(id)[i] \in Hex
      BY <3>1, StdDigitsAre
    <3> QED
      BY <3>2 DEF id
  <2> DEFINE c == EncodeGC(f)  n == IdLen(f)  m == 2 * Len(f.data)
  <2>3. /\ \A i \in 1 .. n : c[2 + i] = StdDigits(f.id)[i]
        /\ \A i \in 1 .. m : c[n + 3 + i] = DataDigits(f.data)[i]
    BY <1>4, EncodedIs
  <2> QED
    BY <1>2, <2>1, <2>2, <2>3
<1> QED
  BY <1>1, <1>3, <1>4

(* No message is longer than GC_MAX_MSG. *)
LEMMA EncodedFits ==
  ASSUME NEW f, Encodable(f)
  PROVE  IdLen(f) + (2 * Len(f.data)) + 4 <= GC_MAX_MSG
<1>1. /\ GC_MAX_MSG \in Nat /\ GC_MAX_MSG >= 12
      /\ Len(f.data) \in Nat /\ Len(f.data) <= (GC_MAX_MSG - 12) \div 2
  BY StreamAssumption DEF Encodable, CANFrame, MaxData
<1>2. (2 * Len(f.data)) + 12 <= GC_MAX_MSG
  BY <1>1, Fits
<1>3. IdLen(f) \in {4, 8}
  BY DEF IdLen
<1> QED
  BY <1>1, <1>2, <1>3

(* decodeGC accepts what encodeGC wrote. *)
LEMMA CanBeDecoded ==
  ASSUME NEW f, Encodable(f)
  PROVE  Decodable(EncodeGC(f))
<1> DEFINE c == EncodeGC(f)  n == IdLen(f)  m == 2 * Len(f.data)
<1>1. /\ f.ext \in BOOLEAN /\ Len(f.data) \in Nat /\ Len(f.data) <= MaxData
      /\ n \in {4, 8} /\ m \in Nat
  BY DEF Encodable, CANFrame, IdLen
<1>2. /\ c \in Seq(Char) /\ Len(c) = n + m + 4
      /\ c[1] = Start
      /\ c[2] = IF f.ext THEN Ext ELSE Std
      /\ c[n + 3] = IF f.rtr THEN Rtr ELSE Norm
      /\ c[n + m + 4] = End
  BY EncodedIs
<1>3. (\A i \in 1 .. n : c[2 + i] \in Hex) /\ \A i \in 1 .. m : c[n + 3 + i] \in Hex
  BY HexInside
<1>4. n + m + 4 <= GC_MAX_MSG
  BY EncodedFits
<1>5. /\ n = (IF c[2] = Ext THEN 8 ELSE 4)
      /\ c[2] \in {Std, Ext}
      /\ AfterId(c) = n + 3
  BY <1>1, <1>2 DEF IdLen, AfterId
<1>6. DataChars(c) = m
  <2> DEFINE l == Len(c)  k == AfterId(c)
  <2>1. l = n + m + 4 /\ k = n + 3
    BY <1>2, <1>5
  <2> HIDE DEF l, k, n, m
  <2>2. l - k - 1 = m
    BY <1>1, <2>1
  <2> QED
    BY <2>2 DEF DataChars, l, k
<1>7. m % 2 = 0 /\ m <= 2 * MaxData
  <2>1. GC_MAX_MSG \in Nat /\ MaxData \in Int
    BY StreamAssumption DEF MaxData
  <2> DEFINE l == Len(f.data)
  <2>2. l \in Nat /\ l <= MaxData /\ m = 2 * l
    BY <1>1
  <2> HIDE DEF l, m
  <2>3. (2 * l) % 2 = 0
    BY <2>2, SMT
  <2>4. m <= 2 * MaxData
    BY <2>1, <2>2
  <2> QED
    BY <2>2, <2>3, <2>4
<1>8. DOMAIN c = 1 .. n + m + 4
  BY <1>2
<1> HIDE DEF c, n, m
<1>9. AllHex(c, 3, n)
  <2>1. ASSUME NEW i \in 3 .. 3 + n - 1
        PROVE  i \in 1 .. n + m + 4 /\ c[i] \in Hex
    <3>1. i - 2 \in 1 .. n /\ 2 + (i - 2) = i /\ i \in 1 .. n + m + 4
      BY <1>1
    <3> QED
      BY <1>3, <3>1
  <2> QED
    BY <1>8, <2>1 DEF AllHex
<1>10. AllHex(c, n + 3 + 1, m)
  <2>1. ASSUME NEW i \in n + 3 + 1 .. n + 3 + 1 + m - 1
        PROVE  i \in 1 .. n + m + 4 /\ c[i] \in Hex
    <3>1. i - (n + 3) \in 1 .. m /\ n + 3 + (i - (n + 3)) = i /\ i \in 1 .. n + m + 4
      BY <1>1
    <3> QED
      BY <1>3, <3>1
  <2> QED
    BY <1>8, <2>1 DEF AllHex
<1>11. c[n + 3] \in {Norm, Rtr}
  BY <1>2
<1>12. Decodable(c)
  BY <1>2, <1>4, <1>5, <1>6, <1>7, <1>9, <1>10, <1>11 DEF Decodable
<1> QED
  BY <1>12 DEF c

(* The 29-bit identifier is read back. *)
LEMMA ExtIdDecoded ==
  ASSUME NEW id \in Nat, id < 2^29, NEW c, \A i \in 1 .. 8 : c[2 + i] = ExtDigits(id)[i]
  PROVE  ExtId(c) = id
<1> DEFINE s == (16 * (2 * ((id \div 2^18) % 8))) + ((id \div 2^16) % 4)
           a == id \div 2^21  e == (id \div 256) % 256  g == id % 256
<1>1. a \in 0 .. 255 /\ e \in 0 .. 255 /\ g \in 0 .. 255
  BY SMT
<1>2. (a * 2^21) + ((s \div 32) * 2^18) + ((s % 4) * 2^16) + (e * 256) + g = id
  BY ExtIdBack
<1>3. /\ c[3] = ExtDigits(id)[1] /\ c[4] = ExtDigits(id)[2]
      /\ c[5] = ExtDigits(id)[3] /\ c[6] = ExtDigits(id)[4]
      /\ c[7] = ExtDigits(id)[5] /\ c[8] = ExtDigits(id)[6]
      /\ c[9] = ExtDigits(id)[7] /\ c[10] = ExtDigits(id)[8]
  <2>1. c[2 + 1] = ExtDigits(id)[1] /\ c[2 + 2] = ExtDigits(id)[2]
    BY SMT
  <2>2. c[2 + 3] = ExtDigits(id)[3] /\ c[2 + 4] = ExtDigits(id)[4]
    BY SMT
  <2>3. c[2 + 5] = ExtDigits(id)[5] /\ c[2 + 6] = ExtDigits(id)[6]
    BY SMT
  <2>4. c[2 + 7] = ExtDigits(id)[7] /\ c[2 + 8] = ExtDigits(id)[8]
    BY SMT
  <2> QED
    BY <2>1, <2>2, <2>3, <2>4, SMT
<1>4. /\ c[3] = a \div 16 /\ c[4] = a % 16
      /\ (16 * c[5]) + c[6] = s
      /\ c[7] = e \div 16 /\ c[8] = e % 16
      /\ c[9] = g \div 16 /\ c[10] = g % 16
  <2>1. ExtDigits(id)[1] = a \div 16 /\ ExtDigits(id)[2] = a % 16
    BY ExtDigitsAre, SMTT(30)
  <2>2. ExtDigits(id)[5] = e \div 16 /\ ExtDigits(id)[6] = e % 16
    BY ExtDigitsAre, SMTT(30)
  <2>3. ExtDigits(id)[7] = g \div 16 /\ ExtDigits(id)[8] = g % 16
    BY ExtDigitsAre, SMTT(30)
  <2>4. (16 * ExtDigits(id)[3]) + ExtDigits(id)[4] = s
    <3>1. s = (16 * ExtTop(id)) + ExtNext(id)
      BY DEF ExtTop, ExtNext
    <3> HIDE DEF s, a, e, g
    <3> QED
      BY <3>1, ExtDigitsAre
  <2> HIDE DEF a, e, g, s
  <2> QED
    BY <1>3, <2>1, <2>2, <2>3, <2>4
<1> HIDE DEF a, e, g, s
<1>5. Byte(c, 3) = a /\ Byte(c, 7) = e /\ Byte(c, 9) = g
  BY <1>1, <1>4, ByteDigits DEF Byte
<1>6. Byte(c, 5) = s
  BY <1>4 DEF Byte
<1> QED
  BY <1>2, <1>5, <1>6 DEF ExtId

(* The 11-bit identifier is read back. *)
LEMMA StdIdDecoded ==
  ASSUME NEW id \in Nat, id < 2^11, NEW c, \A i \in 1 .. 4 : c[2 + i] = StdDigits(id)[i]
  PROVE  StdId(c) = id
<1> DEFINE a == (id * 32) \div 256  e == (id * 32) % 256
<1>1. a \in 0 .. 255 /\ e \in 0 .. 255
  BY SMT
<1>2. ((a * 256) + e) \div 32 = id
  BY SMT
<1>3. /\ c[3] = StdDigits(id)[1] /\ c[4] = StdDigits(id)[2]
      /\ c[5] = StdDigits(id)[3] /\ c[6] = StdDigits(id)[4]
  <2>1. c[2 + 1] = StdDigits(id)[1] /\ c[2 + 2] = StdDigits(id)[2]
    BY SMT
  <2>2. c[2 + 3] = StdDigits(id)[3] /\ c[2 + 4] = StdDigits(id)[4]
    BY SMT
  <2> QED
    BY <2>1, <2>2, SMT
<1>4. c[3] = a \div 16 /\ c[4] = a % 16 /\ c[5] = e \div 16 /\ c[6] = e % 16
  BY <1>3, StdDigitsAre
<1> HIDE DEF a, e
<1>5. Byte(c, 3) = a /\ Byte(c, 5) = e
  BY <1>1, <1>4, ByteDigits DEF Byte
<1> QED
  BY <1>2, <1>5 DEF StdId

(* What encodeGC writes for a frame, decodeGC accepts and makes the same    *)
(* frame of: every identifier of either width, remote or not, with any      *)
(* data that fits.                                                          *)
THEOREM RoundTripExact ==
  ASSUME NEW f, Encodable(f)
  PROVE  Decodable(EncodeGC(f)) /\ DecodeGC(EncodeGC(f)) = f
<1> DEFINE c == EncodeGC(f)  n == IdLen(f)  m == 2 * Len(f.data)
<1>1. /\ f \in CANFrame /\ f.ext \in BOOLEAN /\ f.rtr \in BOOLEAN
      /\ f.id \in Nat /\ f.data \in Seq(0 .. 255)
      /\ f.ext => f.id < 2^29
      /\ ~f.ext => f.id < 2^11
  BY DEF Encodable, CANFrame
<1>2. /\ Len(c) = n + m + 4
      /\ c[2] = IF f.ext THEN Ext ELSE Std
      /\ \A i \in 1 .. n : c[2 + i] = (IF f.ext THEN ExtDigits(f.id) ELSE StdDigits(f.id))[i]
      /\ c[n + 3] = IF f.rtr THEN Rtr ELSE Norm
      /\ \A i \in 1 .. m : c[n + 3 + i] = DataDigits(f.data)[i]
  BY EncodedIs
<1>3. m \in Nat /\ n \in {4, 8} /\ n \in Nat
  BY <1>1 DEF IdLen
<1>4. AfterId(c) = n + 3
  BY <1>1, <1>2 DEF AfterId, IdLen
<1>5. (c[2] = Ext) = f.ext
  BY <1>1, <1>2
<1>6. (c[AfterId(c)] = Rtr) = f.rtr
  BY <1>1, <1>2, <1>4
<1>7. DataChars(c) = m
  <2> DEFINE l == Len(c)  k == AfterId(c)
  <2>1. l = n + m + 4 /\ k = n + 3
    BY <1>2, <1>4
  <2> HIDE DEF l, k, n, m
  <2>2. l - k - 1 = m
    BY <1>3, <2>1
  <2> QED
    BY <2>2 DEF DataChars, l, k
<1>8. [i \in 1 .. DataChars(c) \div 2 |-> Byte(c, AfterId(c) + (2 * i) - 1)] = f.data
  <2> DEFINE k == n + 3
  <2>1. k \in Nat /\ \A i \in 1 .. 2 * Len(f.data) : c[k + i] = DataDigits(f.data)[i]
    BY <1>2, <1>3
  <2> HIDE DEF k
  <2>2. [i \in 1 .. (2 * Len(f.data)) \div 2 |-> Byte(c, k + (2 * i) - 1)] = f.data
    BY <1>1, <2>1, BytesBack
  <2> QED
    BY <1>4, <1>7, <2>2 DEF k
<1>9. (IF c[2] = Ext THEN ExtId(c) ELSE StdId(c)) = f.id
  <2>1. CASE f.ext
    <3>1. n = 8 /\ \A i \in 1 .. n : c[2 + i] = ExtDigits(f.id)[i]
      BY <1>2, <2>1 DEF IdLen
    <3> DEFINE id == f.id
    <3>2. id \in Nat /\ id < 2^29
      BY <1>1, <2>1
    <3> HIDE DEF id, c, n
    <3>3. \A i \in 1 .. 8 : c[2 + i] = ExtDigits(id)[i]
      BY <3>1 DEF id
    <3>4. ExtId(c) = id
      BY <3>2, <3>3, ExtIdDecoded
    <3> QED
      BY <1>5, <2>1, <3>4 DEF id
  <2>2. CASE ~f.ext
    <3>1. n = 4 /\ \A i \in 1 .. n : c[2 + i] = StdDigits(f.id)[i]
      BY <1>2, <2>2 DEF IdLen
    <3> DEFINE id == f.id
    <3>2. id \in Nat /\ id < 2^11
      BY <1>1, <2>2
    <3> HIDE DEF id, c, n
    <3>3. \A i \in 1 .. 4 : c[2 + i] = StdDigits(id)[i]
      BY <3>1 DEF id
    <3>4. StdId(c) = id
      BY <3>2, <3>3, StdIdDecoded
    <3> QED
      BY <1>5, <2>2, <3>4 DEF id
  <2> QED
    BY <1>1, <2>1, <2>2
<1>10. DecodeGC(c) = [ext |-> f.ext, id |-> f.id, rtr |-> f.rtr, data |-> f.data]
  BY <1>5, <1>6, <1>8, <1>9 DEF DecodeGC
<1>11. f = [ext |-> f.ext, id |-> f.id, rtr |-> f.rtr, data |-> f.data]
  BY <1>1 DEF CANFrame
<1> QED
  BY <1>10, <1>11, CanBeDecoded

(* The message of a frame, as the parser sees it. *)
LEMMA MessageIs ==
  ASSUME NEW f, Encodable(f)
  PROVE  LET c == EncodeGC(f) IN
         /\ c \in Seq(Char) /\ Len(c) \in Nat /\ Len(c) >= 8 /\ Len(c) <= GC_MAX_MSG
         /\ c[1] = Start /\ c[Len(c)] = End
         /\ \A i \in 2 .. Len(c) - 1 : c[i] # Start /\ c[i] # End
<1> DEFINE c == EncodeGC(f)  n == IdLen(f)  m == 2 * Len(f.data)  l == Len(c)
<1>1. Len(f.data) \in Nat /\ m \in Nat /\ n \in {4, 8} /\ f.ext \in BOOLEAN
  BY DEF Encodable, CANFrame, IdLen
<1>2. /\ c \in Seq(Char) /\ l = n + m + 4
      /\ c[1] = Start
      /\ c[2] = IF f.ext THEN Ext ELSE Std
      /\ c[n + 3] = IF f.rtr THEN Rtr ELSE Norm
      /\ c[n + m + 4] = End
  BY EncodedIs
<1>3. (\A i \in 1 .. n : c[2 + i] \in Hex) /\ \A i \in 1 .. m : c[n + 3 + i] \in Hex
  BY HexInside
<1>4. n + m + 4 <= GC_MAX_MSG
  BY EncodedFits
<1> HIDE DEF c, n, m, l
<1>5. ASSUME NEW i \in 2 .. l - 1
      PROVE  c[i] # Start /\ c[i] # End
  <2>1. CASE i = 2
    BY <1>2, <2>1
  <2>2. CASE i \in 3 .. n + 2
    <3>1. i - 2 \in 1 .. n /\ 2 + (i - 2) = i
      BY <1>1, <2>2
    <3> QED
      BY <1>3, <3>1
  <2>3. CASE i = n + 3
    BY <1>2, <2>3
  <2>4. CASE i \in n + 4 .. n + m + 3
    <3>1. i - (n + 3) \in 1 .. m /\ n + 3 + (i - (n + 3)) = i
      BY <1>1, <2>4
    <3> QED
      BY <1>3, <3>1
  <2>5. i = 2 \/ i \in 3 .. n + 2 \/ i = n + 3 \/ i \in n + 4 .. n + m + 3
    BY <1>1, <1>2
  <2> QED
    BY <2>1, <2>2, <2>3, <2>4, <2>5
<1>6. l \in Nat /\ l >= 8 /\ l <= GC_MAX_MSG
  BY <1>1, <1>2, <1>4
<1>7. c[l] = End
  BY <1>2
<1> QED
  BY <1>2, <1>5, <1>6, <1>7 DEF c, l

-----------------------------------------------------------------------------
(* Text cut into messages. *)

(* Between the characters a and b of t there is the message m, perhaps     *)
(* with a line feed before it.                                             *)
Piece(t, a, b, m) ==
  \E g \in {0, 1} :
    /\ b = a + g + Len(m) /\ b <= Len(t)
    /\ g = 1 => t[a + 1] = Other
    /\ \A i \in 1 .. Len(m) : t[a + g + i] = m[i]

(* The text t is that of the messages of w behind the first lo: the kth of *)
(* them ends at p[k].                                                      *)
Cuts(t, w, lo, p) ==
  /\ p \in [lo .. Len(w) -> Nat]
  /\ p[lo] = 0 /\ p[Len(w)] = Len(t)
  /\ \A k \in lo + 1 .. Len(w) : Piece(t, p[k - 1], p[k], EncodeGC(w[k]))
  /\ \A j, k \in lo .. Len(w) : j < k => p[j] < p[k]
  /\ \A i \in 1 .. Len(t) : \E k \in lo + 1 .. Len(w) : p[k - 1] < i /\ i <= p[k]

(* the delimiters of a piece: s is where its message starts *)
Delimited(t, a, s, b) ==
  /\ a < s /\ s < b
  /\ \A i \in a + 1 .. b : (t[i] = End <=> i = b) /\ (t[i] = Start <=> i = s)

(* A piece has one start and one end, and its message is between them. *)
LEMMA PieceDelimited ==
  ASSUME NEW t, NEW a \in Nat, NEW b \in Nat, NEW f, Encodable(f), Piece(t, a, b, EncodeGC(f))
  PROVE  \E s \in {a + 1, a + 2} :
           /\ Delimited(t, a, s, b)
           /\ s = a + 2 => t[a + 1] = Other
           /\ b = s + Len(EncodeGC(f)) - 1
           /\ \A i \in 1 .. Len(EncodeGC(f)) : t[s + i - 1] = EncodeGC(f)[i]
<1> DEFINE m == EncodeGC(f)  l == Len(m)
<1>1. /\ l \in Nat /\ l >= 8 /\ m[1] = Start /\ m[l] = End
      /\ \A i \in 2 .. l - 1 : m[i] # Start /\ m[i] # End
  BY MessageIs
<1>2. PICK g \in {0, 1} :
        /\ b = a + g + l
        /\ g = 1 => t[a + 1] = Other
        /\ \A i \in 1 .. l : t[a + g + i] = m[i]
  BY DEF Piece
<1> HIDE DEF m, l
<1> DEFINE s == a + g + 1
<1>3. s \in {a + 1, a + 2} /\ (s = a + 2 => g = 1) /\ b = s + l - 1 /\ a < s /\ s < b
  BY <1>1, <1>2
<1>4. ASSUME NEW i \in a + 1 .. b
      PROVE  (t[i] = End <=> i = b) /\ (t[i] = Start <=> i = s)
  <2>1. CASE i < s
    <3>1. g = 1 /\ i = a + 1
      BY <1>2, <2>1
    <3> QED
      BY <1>2, <1>3, <2>1, <3>1
  <2>2. CASE i >= s
    <3> DEFINE k == i - (a + g)
    <3>1. k \in 1 .. l /\ a + g + k = i /\ (k = 1 <=> i = s) /\ (k = l <=> i = b)
      BY <1>1, <1>2, <1>3, <2>2
    <3> HIDE DEF k
    <3>2. t[i] = m[k]
      BY <1>2, <3>1
    <3>3. k = 1 \/ k = l \/ k \in 2 .. l - 1
      BY <1>1, <3>1
    <3>4. (m[k] = End <=> k = l) /\ (m[k] = Start <=> k = 1)
      BY <1>1, <3>3
    <3> QED
      BY <3>1, <3>2, <3>4
  <2> QED
    BY <1>2, <2>1, <2>2
<1>5. \A i \in 1 .. l : t[s + i - 1] = m[i]
  <2>1. \A i \in 1 .. l : s + i - 1 = a + g + i
    BY <1>1, <1>2
  <2> QED
    BY <1>2, <2>1
<1>6. Delimited(t, a, s, b)
  BY <1>3, <1>4 DEF Delimited
<1> QED
  BY <1>2, <1>3, <1>5, <1>6 DEF m, l

(* The least of one number. *)
LEMMA LeastOfOne ==
  ASSUME NEW s \in Nat
  PROVE  Min({s}) = s
BY DEF Min

(* Within a piece, its own start is the only one open. *)
LEMMA OpenWithin ==
  ASSUME NEW t, NEW a \in Nat, NEW s \in Nat, NEW b \in Nat, Delimited(t, a, s, b),
         a = 0 \/ t[a] = End, NEW n \in Nat, a <= n, n < b
  PROVE  Open(t, n) = IF s <= n THEN {s} ELSE {}
<1>1. /\ a < s /\ s < b
      /\ \A i \in a + 1 .. b : (t[i] = End <=> i = b) /\ (t[i] = Start <=> i = s)
  BY DEF Delimited
<1>2. ASSUME NEW r \in Open(t, n)
      PROVE  r = s /\ s <= n
  <2>1. r \in 1 .. n /\ t[r] = Start /\ \A i \in r .. n : t[i] # End
    BY DEF Open
  <2>2. r > a
    <3>1. CASE a = 0
      BY <2>1, <3>1
    <3>2. CASE a # 0 /\ t[a] = End
      <4>1. ~(a \in r .. n)
        BY <2>1, <3>2
      <4> QED
        BY <2>1, <4>1
    <3> QED
      BY <3>1, <3>2
  <2>3. r \in a + 1 .. b
    BY <2>1, <2>2
  <2> QED
    BY <1>1, <2>1, <2>3
<1>3. ASSUME s <= n
      PROVE  s \in Open(t, n)
  <2>1. s \in 1 .. n /\ s \in a + 1 .. b
    BY <1>1, <1>3
  <2>2. ASSUME NEW i \in s .. n
        PROVE  t[i] # End
    <3>1. i \in a + 1 .. b /\ i # b
      BY <1>1
    <3> QED
      BY <1>1, <3>1
  <2> QED
    BY <1>1, <2>1, <2>2 DEF Open
<1> QED
  BY <1>2, <1>3

(* ... and its start is at st[k]. *)
Marked(t, w, lo, p, st) ==
  /\ p \in [lo .. Len(w) -> Nat] /\ st \in [lo + 1 .. Len(w) -> Nat]
  /\ p[lo] = 0 /\ p[Len(w)] = Len(t)
  /\ \A j, k \in lo .. Len(w) : j < k => p[j] < p[k]
  /\ \A i \in 1 .. Len(t) : \E k \in lo + 1 .. Len(w) : p[k - 1] < i /\ i <= p[k]
  /\ \A k \in lo + 1 .. Len(w) :
       /\ st[k] \in {p[k - 1] + 1, p[k - 1] + 2}
       /\ Delimited(t, p[k - 1], st[k], p[k])
       /\ st[k] = p[k - 1] + 2 => t[p[k - 1] + 1] = Other
       /\ p[k] = st[k] + Len(EncodeGC(w[k])) - 1
       /\ \A i \in 1 .. Len(EncodeGC(w[k])) : t[st[k] + i - 1] = EncodeGC(w[k])[i]

(* lo of the frames written have ended. *)
Written(w, lo) == Len(w) \in Nat /\ lo \in 0 .. Len(w) /\ \A k \in 1 .. Len(w) : Encodable(w[k])

(* Every piece has the place where its message starts. *)
LEMMA Marking ==
  ASSUME NEW t, NEW w, NEW lo, Written(w, lo), NEW p, Cuts(t, w, lo, p)
  PROVE  \E st : Marked(t, w, lo, p, st)
<1> DEFINE n == Len(w)
           Good0(k, s) ==
             /\ s \in {p[k - 1] + 1, p[k - 1] + 2}
             /\ Delimited(t, p[k - 1], s, p[k])
             /\ s = p[k - 1] + 2 => t[p[k - 1] + 1] = Other
             /\ p[k] = s + Len(EncodeGC(w[k])) - 1
             /\ \A i \in 1 .. Len(EncodeGC(w[k])) : t[s + i - 1] = EncodeGC(w[k])[i]
           st == [k \in lo + 1 .. n |-> CHOOSE s \in Nat : Good0(k, s)]
<1>1. /\ n \in Nat /\ lo \in 0 .. n /\ p \in [lo .. n -> Nat]
      /\ \A k \in lo + 1 .. n : Piece(t, p[k - 1], p[k], EncodeGC(w[k]))
      /\ \A k \in 1 .. n : Encodable(w[k])
  BY DEF Written, Cuts
<1>2. ASSUME NEW k \in lo + 1 .. n
      PROVE  \E s \in Nat : Good0(k, s)
  <2>1. /\ k \in lo .. n /\ k - 1 \in lo .. n /\ k \in 1 .. n
    BY <1>1
  <2>2. p[k] \in Nat /\ p[k - 1] \in Nat
    BY <1>1, <2>1
  <2>3. Encodable(w[k]) /\ Piece(t, p[k - 1], p[k], EncodeGC(w[k]))
    BY <1>1, <2>1
  <2> DEFINE a == p[k - 1]  b == p[k]  f == w[k]
  <2> HIDE DEF a, b, f
  <2>4. a \in Nat /\ b \in Nat /\ Encodable(f) /\ Piece(t, a, b, EncodeGC(f))
    BY <2>2, <2>3 DEF a, b, f
  <2>5. PICK s \in {a + 1, a + 2} :
           /\ Delimited(t, a, s, b)
           /\ s = a + 2 => t[a + 1] = Other
           /\ b = s + Len(EncodeGC(f)) - 1
           /\ \A i \in 1 .. Len(EncodeGC(f)) : t[s + i - 1] = EncodeGC(f)[i]
    BY <2>4, PieceDelimited
  <2>6. s \in Nat
    BY <2>4
  <2> QED
    BY <2>5, <2>6 DEF a, b, f
<1>3. \A k \in lo + 1 .. n : st[k] \in Nat /\ Good0(k, st[k])
  BY <1>2
<1>4. st \in [lo + 1 .. n -> Nat]
  BY <1>3
<1> HIDE DEF st
<1>5. \A k \in lo + 1 .. Len(w) :
        /\ st[k] \in {p[k - 1] + 1, p[k - 1] + 2}
        /\ Delimited(t, p[k - 1], st[k], p[k])
        /\ st[k] = p[k - 1] + 2 => t[p[k - 1] + 1] = Other
        /\ p[k] = st[k] + Len(EncodeGC(w[k])) - 1
        /\ \A i \in 1 .. Len(EncodeGC(w[k])) : t[st[k] + i - 1] = EncodeGC(w[k])[i]
  BY <1>3
<1> HIDE DEF Good0, n
<1>6. Marked(t, w, lo, p, st)
  <2>1. /\ p \in [lo .. Len(w) -> Nat] /\ st \in [lo + 1 .. Len(w) -> Nat]
        /\ p[lo] = 0 /\ p[Len(w)] = Len(t)
        /\ \A j, k \in lo .. Len(w) : j < k => p[j] < p[k]
        /\ \A i \in 1 .. Len(t) : \E k \in lo + 1 .. Len(w) : p[k - 1] < i /\ i <= p[k]
    BY <1>4 DEF Cuts, n
  <2> QED
    BY ONLY <1>5, <2>1 DEF Marked
<1> QED
  BY <1>6

(* What is known of the piece k. *)
LEMMA MarkedAt ==
  ASSUME NEW t, NEW w, NEW lo, Written(w, lo), NEW p, NEW st, Marked(t, w, lo, p, st),
         NEW k \in lo + 1 .. Len(w)
  PROVE  /\ k \in Nat /\ k - 1 \in lo .. Len(w) /\ k \in lo .. Len(w) /\ k \in 1 .. Len(w)
         /\ p[k - 1] \in Nat /\ p[k] \in Nat /\ st[k] \in Nat
         /\ p[k - 1] < st[k] /\ st[k] < p[k] /\ p[k] <= Len(t)
         /\ Delimited(t, p[k - 1], st[k], p[k])
         /\ p[k - 1] = 0 \/ t[p[k - 1]] = End
         /\ t[p[k]] = End
         /\ Encodable(w[k])
<1>1. Len(w) \in Nat /\ lo \in Nat /\ lo <= Len(w)
  BY DEF Written
<1>2. k \in Nat /\ k - 1 \in lo .. Len(w) /\ k \in lo .. Len(w) /\ k \in 1 .. Len(w)
  BY <1>1
<1>3. Encodable(w[k])
  BY <1>2 DEF Written
<1>4. p[k - 1] \in Nat /\ p[k] \in Nat /\ st[k] \in Nat
  BY <1>2 DEF Marked
<1>5. ASSUME NEW l \in lo + 1 .. Len(w)
      PROVE  /\ Delimited(t, p[l - 1], st[l], p[l])
             /\ p[l - 1] \in Nat /\ p[l] \in Nat /\ st[l] \in Nat
  <2>1. l - 1 \in lo .. Len(w) /\ l \in lo .. Len(w)
    BY <1>1
  <2>2. Delimited(t, p[l - 1], st[l], p[l])
    BY DEF Marked
  <2> QED
    BY <2>1, <2>2 DEF Marked
<1>6. ASSUME NEW l \in lo + 1 .. Len(w)
      PROVE  t[p[l]] = End
  <2>1. p[l] \in p[l - 1] + 1 .. p[l]
    BY <1>5 DEF Delimited
  <2> QED
    BY <1>5, <2>1 DEF Delimited
<1>7. p[k - 1] < st[k] /\ st[k] < p[k]
  BY <1>5 DEF Delimited
<1>8. p[k - 1] = 0 \/ t[p[k - 1]] = End
  <2>1. CASE k = lo + 1
    BY <1>1, <2>1 DEF Marked
  <2>2. CASE k # lo + 1
    <3>1. k - 1 \in lo + 1 .. Len(w)
      BY <1>1, <2>2
    <3> QED
      BY <1>6, <3>1
  <2> QED
    BY <2>1, <2>2
<1>9. p[k] <= Len(t)
  <2>1. CASE k = Len(w)
    BY <1>4, <2>1 DEF Marked
  <2>2. CASE k # Len(w)
    <3>1. k < Len(w) /\ Len(w) \in lo .. Len(w)
      BY <1>1, <1>2, <2>2
    <3>2. p[k] < p[Len(w)] /\ p[Len(w)] = Len(t) /\ p[Len(w)] \in Nat
      BY <1>2, <3>1 DEF Marked
    <3> QED
      BY <1>4, <3>2
  <2> QED
    BY <2>1, <2>2
<1> QED
  BY <1>2, <1>3, <1>4, <1>5, <1>6, <1>7, <1>8, <1>9

(* The characters before the end of piece k of which the start is known.   *)
LEMMA OpenIn ==
  ASSUME NEW t, NEW w, NEW lo, Written(w, lo), NEW p, NEW st, Marked(t, w, lo, p, st),
         NEW k \in lo + 1 .. Len(w), NEW n \in Nat, p[k - 1] <= n, n < p[k]
  PROVE  Open(t, n) = IF st[k] <= n THEN {st[k]} ELSE {}
<1> DEFINE a == p[k - 1]  s == st[k]  b == p[k]
<1>1. /\ a \in Nat /\ s \in Nat /\ b \in Nat /\ Delimited(t, a, s, b)
      /\ a = 0 \/ t[a] = End
      /\ a <= n /\ n < b
  BY MarkedAt
<1> HIDE DEF a, s, b
<1>2. Open(t, n) = IF s <= n THEN {s} ELSE {}
  BY <1>1, OpenWithin
<1> QED
  BY <1>2 DEF s

(* The last piece that ends among the first m characters. *)
LEMMA LastEnd ==
  ASSUME NEW t, NEW w, NEW lo, Written(w, lo), NEW p, NEW st, Marked(t, w, lo, p, st),
         Len(t) \in Nat, NEW m \in 0 .. Len(t)
  PROVE  \E j \in lo .. Len(w) :
           /\ p[j] \in Nat /\ p[j] <= m /\ j \in Nat
           /\ j < Len(w) => j + 1 \in lo + 1 .. Len(w) /\ m < p[j + 1] /\ p[j + 1] \in Nat
           /\ j = Len(w) => m = Len(t)
           /\ \A l \in lo .. Len(w) : p[l] <= m <=> l <= j
<1>1. /\ Len(w) \in Nat /\ lo \in Nat /\ lo <= Len(w)
      /\ p \in [lo .. Len(w) -> Nat]
      /\ p[lo] = 0 /\ p[Len(w)] = Len(t)
      /\ \A j, k \in lo .. Len(w) : j < k => p[j] < p[k]
  BY DEF Written, Marked
<1>2. CASE m = Len(t)
  <2>1. ASSUME NEW l \in lo .. Len(w)
        PROVE  p[l] <= m
    <3>1. Len(w) \in lo .. Len(w) /\ (l = Len(w) \/ l < Len(w))
      BY <1>1
    <3>2. p[l] \in Nat /\ p[Len(w)] \in Nat
      BY <1>1, <3>1
    <3> QED
      BY <1>1, <1>2, <3>1, <3>2
  <2>2. Len(w) \in lo .. Len(w) /\ p[Len(w)] \in Nat
    BY <1>1
  <2>3. \A l \in lo .. Len(w) : l <= Len(w)
    BY <1>1
  <2> QED
    BY <1>1, <1>2, <2>1, <2>2, <2>3
<1>3. CASE m # Len(t)
  <2>1. m + 1 \in 1 .. Len(t)
    BY <1>3
  <2>2. PICK k \in lo + 1 .. Len(w) : p[k - 1] < m + 1 /\ m + 1 <= p[k]
    BY <2>1 DEF Marked
  <2> DEFINE j == k - 1
  <2>3. /\ j \in lo .. Len(w) /\ j \in Nat /\ j + 1 = k /\ k \in lo .. Len(w) /\ j < Len(w)
    BY <1>1
  <2>4. p[j] \in Nat /\ p[k] \in Nat
    BY <1>1, <2>3
  <2>5. p[j] <= m /\ m < p[k]
    BY <2>2, <2>4
  <2>6. ASSUME NEW l \in lo .. Len(w)
        PROVE  p[l] <= m <=> l <= j
    <3>1. p[l] \in Nat
      BY <1>1
    <3>2. CASE l <= j
      <4>1. l = j \/ l < j
        BY <1>1, <2>3, <3>2
      <4>2. l < j => p[l] < p[j]
        BY <1>1, <2>3
      <4> QED
        BY <2>4, <2>5, <3>1, <3>2, <4>1, <4>2
    <3>3. CASE ~(l <= j)
      <4>1. l = k \/ k < l
        BY <1>1, <2>3, <3>3
      <4>2. k < l => p[k] < p[l]
        BY <1>1, <2>3
      <4> QED
        BY <2>4, <2>5, <3>1, <3>3, <4>1, <4>2
    <3> QED
      BY <3>2, <3>3
  <2> HIDE DEF j
  <2> QED
    BY <2>3, <2>4, <2>5, <2>6
<1> QED
  BY <1>2, <1>3

(* The first m characters have the same open starts as the whole text. *)
LEMMA PrefixIs ==
  ASSUME NEW t \in Seq(Char), NEW m \in 0 .. Len(t)
  PROVE  /\ SubSeq(t, 1, m) \in Seq(Char) /\ Len(SubSeq(t, 1, m)) = m
         /\ DOMAIN SubSeq(t, 1, m) = 1 .. m
         /\ \A i \in 1 .. m : SubSeq(t, 1, m)[i] = t[i]
         /\ \A n \in 0 .. m : Open(SubSeq(t, 1, m), n) = Open(t, n)
<1> DEFINE u == SubSeq(t, 1, m)
<1>1. u \in Seq(Char) /\ Len(u) = m /\ \A i \in 1 .. m : u[i] = t[i]
  <2>1. \A i \in 1 .. Len(t) : t[i] \in Char
    BY SMTT(30)
  <2>2. 1 \in Int /\ m \in Int /\ m \in Nat /\ \A i \in 1 .. m : i \in 1 .. Len(t)
    OBVIOUS
  <2>3. \A i \in 1 .. m : t[i] \in Char
    BY <2>1, <2>2
  <2>4. /\ u \in Seq(Char) /\ Len(u) = IF 1 <= m THEN m - 1 + 1 ELSE 0
        /\ \A i \in 1 .. m - 1 + 1 : u[i] = t[1 + i - 1]
    BY <2>2, <2>3, SubSeqProperties
  <2>5. m - 1 + 1 = m /\ (IF 1 <= m THEN m - 1 + 1 ELSE 0) = m /\ \A i \in 1 .. m : 1 + i - 1 = i
    BY <2>2
  <2> HIDE DEF u
  <2> QED
    BY <2>4, <2>5
<1>2. DOMAIN u = 1 .. m
  BY <1>1
<1> HIDE DEF u
<1>3. ASSUME NEW n \in 0 .. m
      PROVE  Open(u, n) = Open(t, n)
  <2>1. \A i \in 1 .. n : u[i] = t[i]
    BY <1>1
  <2>2. \A s \in 1 .. n : \A i \in s .. n : i \in 1 .. n
    OBVIOUS
  <2> QED
    BY <2>1, <2>2 DEF Open
<1> QED
  BY <1>1, <1>2, <1>3 DEF u

(* The last message that ends among the first m characters is j. *)
Last(t, w, lo, p, m, j) ==
  /\ j \in lo .. Len(w) /\ p[j] \in Nat /\ p[j] <= m /\ j \in Nat
  /\ j < Len(w) => j + 1 \in lo + 1 .. Len(w) /\ m < p[j + 1] /\ p[j + 1] \in Nat
  /\ j = Len(w) => m = Len(t)
  /\ \A l \in lo .. Len(w) : p[l] <= m <=> l <= j

(* Message k is found at its end. *)
Found(w, lo, p, st, m, u, k) ==
  /\ k \in lo + 1 .. Len(w)
  /\ p[k] \in 1 .. m /\ u[p[k]] = End
  /\ Open(u, p[k] - 1) = {st[k]}
  /\ Message(u, p[k]) = EncodeGC(w[k])

(* Among the first m characters, every message that ends is found. *)
LEMMA FoundAt ==
  ASSUME NEW t \in Seq(Char), NEW w, NEW lo, Written(w, lo),
         NEW p, NEW st, Marked(t, w, lo, p, st), NEW m \in 0 .. Len(t),
         NEW j, Last(t, w, lo, p, m, j), NEW k \in lo + 1 .. j,
         NEW u, u = SubSeq(t, 1, m)
  PROVE  Found(w, lo, p, st, m, u, k)
<1>1. /\ u \in Seq(Char) /\ Len(u) = m
      /\ \A i \in 1 .. m : u[i] = t[i]
      /\ \A n \in 0 .. m : Open(u, n) = Open(t, n)
  BY PrefixIs
<1>2. k \in lo + 1 .. Len(w) /\ k \in lo .. Len(w) /\ k <= j
  BY DEF Last, Written
<1>3. /\ p[k - 1] \in Nat /\ p[k] \in Nat /\ st[k] \in Nat
      /\ p[k - 1] < st[k] /\ st[k] < p[k] /\ t[p[k]] = End
      /\ Encodable(w[k])
  BY <1>2, MarkedAt
<1>4. p[k] <= m
  BY <1>2 DEF Last
<1>5. p[k] \in 1 .. m /\ p[k] - 1 \in 0 .. m /\ p[k] - 1 \in Nat
  BY <1>3, <1>4
<1>6. Open(u, p[k] - 1) = {st[k]}
  <2> DEFINE n == p[k] - 1
  <2>1. n \in Nat /\ p[k - 1] <= n /\ n < p[k] /\ st[k] <= n /\ n \in 0 .. m
    BY <1>3, <1>5
  <2> HIDE DEF n
  <2>2. Open(t, n) = {st[k]}
    <3>1. Open(t, n) = IF st[k] <= n THEN {st[k]} ELSE {}
      BY <1>2, <2>1, OpenIn
    <3> QED
      BY <2>1, <3>1
  <2>3. Open(u, n) = {st[k]}
    BY <1>1, <2>1, <2>2
  <2> QED
    BY <2>3 DEF n
<1>7. Message(u, p[k]) = EncodeGC(w[k])
  <2> DEFINE e == EncodeGC(w[k])  s == st[k]  b == p[k]
  <2>1. e \in Seq(Char) /\ Len(e) \in Nat
    BY <1>3, MessageIs
  <2>2. b = s + Len(e) - 1 /\ \A i \in 1 .. Len(e) : t[s + i - 1] = e[i]
    BY <1>2 DEF Marked
  <2>3. Message(u, b) = SubSeq(u, s, b)
    BY <1>3, <1>6, LeastOfOne DEF Message
  <2>4. s \in 1 .. m /\ b \in 1 .. m /\ s <= b
    BY <1>3, <1>5
  <2> HIDE DEF e, s, b
  <2>5. SubSeq(u, s, b) \in Seq(Char) /\ Len(SubSeq(u, s, b)) = Len(e)
    <3>1. SubSeq(u, s, b) \in Seq(Char) /\ Len(SubSeq(u, s, b)) = b - s + 1
      BY <1>1, <2>4
    <3>2. b - s + 1 = Len(e)
      BY <2>1, <2>2, <2>4
    <3> QED
      BY <3>1, <3>2
  <2>6. ASSUME NEW i \in 1 .. Len(e)
        PROVE  SubSeq(u, s, b)[i] = e[i]
    <3>1. s + i - 1 \in 1 .. m /\ i \in 1 .. b - s + 1
      BY <2>1, <2>2, <2>4
    <3>2. SubSeq(u, s, b)[i] = u[s + i - 1]
      BY <1>1, <2>4, <3>1
    <3> QED
      BY <1>1, <2>2, <3>1, <3>2
  <2>7. SubSeq(u, s, b) = e
    BY <2>1, <2>5, <2>6, SeqEqual
  <2> QED
    BY <2>3, <2>7 DEF e, b
<1>8. u[p[k]] = End
  BY <1>1, <1>3, <1>5
<1> QED
  BY <1>2, <1>5, <1>6, <1>7, <1>8 DEF Found

(* The ends are those of the messages, and every message is a frame. *)
Ended(lo, p, j) == {p[k] : k \in lo + 1 .. j}
AllFound(lo, p, j, u) == Ends(u) = Ended(lo, p, j) /\ Closings(u) = Ends(u) /\ Good(u) = Ends(u)

(* Nothing else ends there, and all that ends is decoded. *)
LEMMA EndsFound ==
  ASSUME NEW t \in Seq(Char), NEW w, NEW lo, Written(w, lo),
         NEW p, NEW st, Marked(t, w, lo, p, st), NEW m \in 0 .. Len(t),
         NEW j, Last(t, w, lo, p, m, j),
         NEW u, u = SubSeq(t, 1, m)
  PROVE  AllFound(lo, p, j, u)
<1>1. /\ DOMAIN u = 1 .. m
      /\ \A i \in 1 .. m : u[i] = t[i]
  BY PrefixIs
<1>2. ASSUME NEW k \in lo + 1 .. j
      PROVE  /\ k \in lo + 1 .. Len(w)
             /\ p[k] \in 1 .. m /\ u[p[k]] = End
             /\ Open(u, p[k] - 1) = {st[k]}
             /\ Message(u, p[k]) = EncodeGC(w[k])
  <2>1. Found(w, lo, p, st, m, u, k)
    BY FoundAt
  <2> QED
    BY <2>1 DEF Found
<1>3. ASSUME NEW e \in Ends(u)
      PROVE  \E k \in lo + 1 .. j : e = p[k]
  <2>1. e \in 1 .. m /\ t[e] = End /\ e \in 1 .. Len(t)
    BY <1>1 DEF Ends
  <2>2. PICK k \in lo + 1 .. Len(w) : p[k - 1] < e /\ e <= p[k]
    BY <2>1 DEF Marked
  <2>3. /\ p[k - 1] \in Nat /\ p[k] \in Nat /\ Delimited(t, p[k - 1], st[k], p[k])
        /\ k \in lo .. Len(w)
    BY MarkedAt
  <2>4. e = p[k]
    BY <2>1, <2>2, <2>3 DEF Delimited
  <2>5. k <= j
    BY <2>1, <2>3, <2>4 DEF Last
  <2>6. k \in lo + 1 .. j
    BY <2>5 DEF Written, Last
  <2> QED
    BY <2>4, <2>6
<1>4. \A k \in lo + 1 .. j : p[k] \in Ends(u)
  BY <1>1, <1>2 DEF Ends
<1>5. Ends(u) = {p[k] : k \in lo + 1 .. j}
  BY <1>3, <1>4
<1>6. \A k \in lo + 1 .. j : p[k] \in Closings(u)
  BY <1>2, <1>4 DEF Closings
<1>7. Closings(u) = Ends(u)
  BY <1>3, <1>6 DEF Closings
<1>8. ASSUME NEW k \in lo + 1 .. j
      PROVE  p[k] \in Good(u)
  <2>1. Encodable(w[k])
    BY <1>2, MarkedAt
  <2>2. Decodable(Message(u, p[k]))
    BY <1>2, <2>1, CanBeDecoded
  <2> QED
    BY <1>6, <2>2 DEF Good
<1>9. Good(u) = Ends(u)
  BY <1>3, <1>7, <1>8 DEF Good
<1> QED
  BY <1>5, <1>7, <1>9 DEF AllFound, Ended

(* The places q[a + 1] < ... < q[b] are b - a, and the ith of them is q[a + i]. *)
LEMMA CountPlaces ==
  ASSUME NEW a \in Nat, NEW b \in Nat, a <= b, NEW q, NEW places,
         \A k \in a + 1 .. b : q[k] \in Int,
         \A k, l \in a + 1 .. b : k < l => q[k] < q[l],
         places = {q[k] : k \in a + 1 .. b}
  PROVE  IsFiniteSet(places) /\ Cardinality(places) = b - a
<1> DEFINE S == a + 1 .. b
           F == [k \in S |-> q[k]]
<1>1. IsFiniteSet(S) /\ Cardinality(S) = b - a
  <2>1. a + 1 \in Int /\ b \in Int
    OBVIOUS
  <2>2. IsFiniteSet(S) /\ Cardinality(S) = IF a + 1 > b THEN 0 ELSE b - (a + 1) + 1
    BY <2>1, FS_Interval
  <2> QED
    BY <2>2
<1>2. \A k, l \in S : q[k] = q[l] => k = l
  <2>1. \A k, l \in S : k < l \/ l < k \/ k = l
    OBVIOUS
  <2> QED
    BY <2>1
<1> HIDE DEF S
<1>3. places = {q[k] : k \in S}
  BY DEF S
<1>4. F \in [S -> places]
  BY <1>3
<1>5. F \in Bijection(S, places)
  <2>1. \A k, l \in S : F[k] = F[l] => k = l
    BY <1>2
  <2>2. \A e \in places : \E k \in S : F[k] = e
    BY <1>3
  <2> HIDE DEF F
  <2> QED
    BY <1>4, <2>1, <2>2 DEF Bijection, Injection, Surjection, IsInjective
<1>6. ExistsBijection(S, places)
  BY <1>5 DEF ExistsBijection
<1> QED
  BY <1>1, <1>6, FS_Bijection

(* The places are q[a + 1] < ... < q[b]. *)
Rising(q, a, b, places) ==
  /\ \A k \in a + 1 .. b : q[k] \in Int
  /\ \A k, l \in a + 1 .. b : k < l => q[k] < q[l]
  /\ places = {q[k] : k \in a + 1 .. b}

(* The places can be told by their rank. *)
LEMMA NthPlace ==
  ASSUME NEW a \in Nat, NEW b \in Nat, a <= b, NEW q, NEW places,
         Rising(q, a, b, places),
         NEW i \in 1 .. b - a
  PROVE  Nth(places, i) = q[a + i]
<1>0. /\ \A k \in a + 1 .. b : q[k] \in Int
      /\ \A k, l \in a + 1 .. b : k < l => q[k] < q[l]
      /\ places = {q[k] : k \in a + 1 .. b}
  BY DEF Rising
<1>1. ASSUME NEW k \in a + 1 .. b
      PROVE  Cardinality({d \in places : d <= q[k]}) = k - a
  <2> DEFINE below == {d \in places : d <= q[k]}
  <2>1. k \in Nat /\ a <= k
    OBVIOUS
  <2>2. \A l \in a + 1 .. b : q[l] <= q[k] <=> l <= k
    <3>1. \A l \in a + 1 .. b : (l < k \/ l = k \/ k < l) /\ q[l] \in Int
      BY <1>0
    <3> QED
      BY <1>0, <3>1
  <2>3. \A l : l \in a + 1 .. k <=> l \in a + 1 .. b /\ l <= k
    OBVIOUS
  <2>4. below = {q[l] : l \in a + 1 .. k}
    BY <1>0, <2>2, <2>3
  <2> HIDE DEF below
  <2>5. /\ \A l \in a + 1 .. k : q[l] \in Int
        /\ \A x, y \in a + 1 .. k : x < y => q[x] < q[y]
    BY <1>0, <2>3
  <2>6. Cardinality(below) = k - a
    BY <2>1, <2>4, <2>5, CountPlaces
  <2> QED
    BY <2>6 DEF below
<1>2. a + i \in a + 1 .. b /\ (a + i) - a = i
  OBVIOUS
<1>3. q[a + i] \in places /\ Cardinality({d \in places : d <= q[a + i]}) = i
  BY <1>0, <1>1, <1>2
<1>4. ASSUME NEW e \in places, Cardinality({d \in places : d <= e}) = i
      PROVE  e = q[a + i]
  <2>1. PICK k \in a + 1 .. b : e = q[k]
    BY <1>0
  <2>2. k - a = i
    BY <1>1, <1>4, <2>1
  <2>3. k = a + i
    BY <2>2
  <2> QED
    BY <2>1, <2>3
<1> QED
  BY <1>3, <1>4 DEF Nth

(* The frames lo + 1 .. j of w. *)
Part(w, lo, j) == [i \in 1 .. j - lo |-> w[lo + i]]
Fetched(u, w, lo, j) == Extract(u) = Part(w, lo, j)

(* The frames among the first m characters are those of which these hold   *)
(* the end.                                                                *)
LEMMA Extracted ==
  ASSUME NEW t \in Seq(Char), NEW w, NEW lo, Written(w, lo),
         NEW p, NEW st, Marked(t, w, lo, p, st), NEW m \in 0 .. Len(t),
         NEW j, Last(t, w, lo, p, m, j),
         NEW u, u = SubSeq(t, 1, m)
  PROVE  Fetched(u, w, lo, j)
<1>1. Good(u) = {p[k] : k \in lo + 1 .. j}
  <2>1. AllFound(lo, p, j, u)
    BY EndsFound
  <2> QED
    BY <2>1 DEF AllFound, Ended
<1>2. lo \in Nat /\ j \in Nat /\ lo <= j /\ j <= Len(w) /\ Len(w) \in Nat
  BY DEF Last, Written
<1>3. /\ \A k \in lo + 1 .. j : p[k] \in Int
      /\ \A k, l \in lo + 1 .. j : k < l => p[k] < p[l]
  <2>1. \A k \in lo + 1 .. j : k \in lo .. Len(w)
    BY <1>2
  <2> QED
    BY <2>1 DEF Marked
<1>4. Cardinality(Good(u)) = j - lo
  BY <1>1, <1>2, <1>3, CountPlaces
<1>5. ASSUME NEW i \in 1 .. j - lo
      PROVE  DecodeGC(Message(u, Nth(Good(u), i))) = w[lo + i]
  <2>1. Nth(Good(u), i) = p[lo + i]
    <3> DEFINE places == Good(u)
    <3>1. places = {p[k] : k \in lo + 1 .. j}
      BY <1>1
    <3> HIDE DEF places
    <3>2. Rising(p, lo, j, places)
      BY <1>3, <3>1 DEF Rising
    <3>3. Nth(places, i) = p[lo + i]
      BY <1>2, <3>2, NthPlace
    <3> QED
      BY <3>3 DEF places
  <2> DEFINE k == lo + i
  <2>2. k \in lo + 1 .. j
    BY <1>2
  <2> HIDE DEF k
  <2>3. Found(w, lo, p, st, m, u, k)
    BY <2>2, FoundAt
  <2>4. Message(u, p[k]) = EncodeGC(w[k]) /\ k \in lo + 1 .. Len(w)
    BY <2>3 DEF Found
  <2>5. Encodable(w[k])
    BY <2>4, MarkedAt
  <2>6. DecodeGC(EncodeGC(w[k])) = w[k]
    BY <2>5, RoundTripExact
  <2> QED
    BY <2>1, <2>4, <2>6 DEF k
<1> QED
  BY <1>4, <1>5 DEF Extract, Part, Fetched

(* v is the text from n to m, and there is no end before it. *)
Behind(t, v, n, m) ==
  /\ v \in Seq(Char) /\ Len(v) = m - n /\ \A i \in 1 .. m - n : v[i] = t[n + i]
  /\ \A i \in 1 .. n : t[i] # End

(* Ends after the first n characters, counted from there. *)
LEMMA EndsBehind ==
  ASSUME NEW t \in Seq(Char), NEW w, NEW lo, Written(w, lo),
         NEW p, NEW st, Marked(t, w, lo, p, st), NEW m \in 0 .. Len(t),
         NEW j, Last(t, w, lo, p, m, j), NEW n \in 0 .. m,
         NEW v, Behind(t, v, n, m)
  PROVE  Cardinality(Ends(v)) = j - lo
<1>0. /\ v \in Seq(Char) /\ Len(v) = m - n /\ \A i \in 1 .. m - n : v[i] = t[n + i]
      /\ \A i \in 1 .. n : t[i] # End
  BY DEF Behind
<1> DEFINE u == SubSeq(t, 1, m)  q == [k \in lo + 1 .. j |-> p[k] - n]
<1>1. /\ Ends(u) = {p[k] : k \in lo + 1 .. j}
  <2>1. AllFound(lo, p, j, u)
    BY EndsFound
  <2> QED
    BY <2>1 DEF AllFound, Ended
<1>2. DOMAIN u = 1 .. m /\ \A i \in 1 .. m : u[i] = t[i]
  BY PrefixIs
<1> HIDE DEF u
<1>3. m \in Nat /\ n \in Nat /\ n <= m /\ DOMAIN v = 1 .. m - n
  BY <1>0
<1>4. lo \in Nat /\ j \in Nat /\ lo <= j /\ j <= Len(w) /\ Len(w) \in Nat
  BY DEF Last, Written
<1>5. /\ \A k \in lo + 1 .. j : p[k] \in Int
      /\ \A k, l \in lo + 1 .. j : k < l => p[k] < p[l]
  <2>1. \A k \in lo + 1 .. j : k \in lo .. Len(w)
    BY <1>4
  <2> QED
    BY <2>1 DEF Marked
<1>6. /\ \A k \in lo + 1 .. j : q[k] \in Int
      /\ \A k, l \in lo + 1 .. j : k < l => q[k] < q[l]
  BY <1>3, <1>5
<1>7. ASSUME NEW e \in Ends(v)
      PROVE  \E k \in lo + 1 .. j : e = q[k]
  <2>1. e \in 1 .. m - n /\ v[e] = End
    BY <1>3 DEF Ends
  <2>2. n + e \in 1 .. m
    BY <1>3, <2>1
  <2>3. t[n + e] = End
    BY <1>0, <2>1
  <2>4. n + e \in Ends(u)
    BY <1>2, <2>2, <2>3 DEF Ends
  <2>5. PICK k \in lo + 1 .. j : n + e = p[k]
    BY <1>1, <2>4
  <2>6. e = p[k] - n
    BY <1>3, <1>5, <2>1, <2>5
  <2> QED
    BY <2>6
<1>8. ASSUME NEW k \in lo + 1 .. j
      PROVE  q[k] \in Ends(v)
  <2>1. p[k] \in Ends(u)
    BY <1>1
  <2>2. p[k] \in 1 .. m /\ t[p[k]] = End
    BY <1>2, <2>1 DEF Ends
  <2>3. ~(p[k] \in 1 .. n)
    BY <1>0, <2>2
  <2>4. p[k] - n \in 1 .. m - n /\ n + (p[k] - n) = p[k]
    BY <1>3, <2>2, <2>3
  <2>5. v[p[k] - n] = End
    BY <1>0, <2>2, <2>4
  <2> QED
    BY <1>3, <2>4, <2>5 DEF Ends
<1>9. Ends(v) = {q[k] : k \in lo + 1 .. j}
  BY <1>7, <1>8
<1> HIDE DEF q
<1> QED
  BY <1>4, <1>6, <1>9, CountPlaces

(* Text may be cut at the end of a message, or behind the line feed after it. *)
CutPoint(w, p, st, j, x) ==
  /\ x \in {p[j], p[j] + 1}
  /\ x = p[j] + 1 => j < Len(w) /\ st[j + 1] = p[j] + 2

KeptFrom(t, w, p, st, j, m, kept) ==
  \E x \in 0 .. m : CutPoint(w, p, st, j, x) /\ kept = SubSeq(t, x + 1, m)

(* Behind the last of the characters there are none. *)
LEMMA NothingLeft ==
  ASSUME NEW t \in Seq(Char), NEW m \in 0 .. Len(t)
  PROVE  SubSeq(t, m + 1, m) = <<>>
OBVIOUS

(* A part of the beginning is a part of the whole. *)
LEMMA SubSeqOfPrefix ==
  ASSUME NEW t \in Seq(Char), NEW m \in 0 .. Len(t), NEW s \in 1 .. m,
         NEW u, u = SubSeq(t, 1, m)
  PROVE  SubSeq(u, s, m) = SubSeq(t, s, m)
<1>1. /\ 1 \in 1 .. Len(t) /\ m \in 1 .. Len(t) /\ s \in 1 .. m - 1 + 1 /\ m \in 1 .. m - 1 + 1
      /\ 1 + s - 1 = s /\ 1 + m - 1 = m
  OBVIOUS
<1>2. SubSeq(SubSeq(t, 1, m), s, m) = SubSeq(t, 1 + s - 1, 1 + m - 1)
  BY <1>1, SubSeqOfSubSeq
<1> QED
  BY <1>1, <1>2

(* What is kept is the text behind a cut. *)
LEMMA KeptIs ==
  ASSUME NEW t \in Seq(Char), NEW w, NEW lo, Written(w, lo),
         NEW p, NEW st, Marked(t, w, lo, p, st), NEW m \in 1 .. Len(t),
         NEW j, Last(t, w, lo, p, m, j), NEW u, u = SubSeq(t, 1, m),
         NEW buf, m = 1 /\ t[1] # Start => buf = <<>>
  PROVE  KeptFrom(t, w, p, st, j, m, Kept(u, buf))
<1>1. /\ u \in Seq(Char) /\ Len(u) = m /\ Open(u, m) = Open(t, m)
      /\ m \in 0 .. Len(t) /\ m \in Nat /\ Len(t) \in Nat
  BY PrefixIs
<1>2. /\ j \in lo .. Len(w) /\ p[j] \in Nat /\ p[j] <= m /\ j \in Nat
      /\ j < Len(w) => j + 1 \in lo + 1 .. Len(w) /\ m < p[j + 1] /\ p[j + 1] \in Nat
      /\ j = Len(w) => m = Len(t)
  BY DEF Last
<1>3. lo \in Nat /\ Len(w) \in Nat /\ lo <= j /\ j <= Len(w)
  BY <1>2 DEF Written
<1>4. CASE j < Len(w) /\ st[j + 1] <= m
  <2> DEFINE k == j + 1  s == st[k]
  <2>1. k \in lo + 1 .. Len(w) /\ k - 1 = j
    BY <1>2, <1>3, <1>4
  <2> HIDE DEF k
  <2>2. /\ s \in Nat /\ p[k] \in Nat /\ p[k - 1] < s /\ Encodable(w[k])
    BY <2>1, MarkedAt
  <2>3. m < p[k]
    BY <1>2, <1>4 DEF k
  <2>4. s <= m
    BY <1>4 DEF k
  <2>5. Open(t, m) = {s}
    <3>1. p[k - 1] <= m
      BY <1>2, <2>1
    <3>2. Open(t, m) = IF s <= m THEN {s} ELSE {}
      BY <1>1, <2>1, <2>3, <3>1, OpenIn
    <3> QED
      BY <2>4, <3>2
  <2>6. s \in {p[j] + 1, p[j] + 2} /\ p[k] = s + Len(EncodeGC(w[k])) - 1
    BY <2>1 DEF Marked
  <2>7. Len(EncodeGC(w[k])) \in Nat /\ Len(EncodeGC(w[k])) <= GC_MAX_MSG
    BY <2>2, MessageIs
  <2> HIDE DEF s
  <2>8. m - s < GC_MAX_MSG
    BY <1>1, <2>2, <2>3, <2>6, <2>7, StreamAssumption
  <2>9. Kept(u, buf) = SubSeq(u, s, m)
    BY <1>1, <2>2, <2>5, <2>8, LeastOfOne DEF Kept
  <2>10. s \in 1 .. m
    BY <1>1, <2>2, <2>4, <1>2, <2>1
  <2>11. SubSeq(u, s, m) = SubSeq(t, s, m)
    BY <1>1, <2>10, SubSeqOfPrefix
  <2> DEFINE x == s - 1
  <2>12. x \in 0 .. m /\ x + 1 = s
    BY <1>1, <2>10
  <2>13. x \in {p[j], p[j] + 1} /\ (x = p[j] + 1 => j < Len(w) /\ st[j + 1] = p[j] + 2)
    <3>1. x \in {p[j], p[j] + 1} /\ (x = p[j] + 1 => s = p[j] + 2)
      BY <1>2, <2>2, <2>6, SMTT(30)
    <3> QED
      BY <1>4, <3>1 DEF k, s
  <2>14. CutPoint(w, p, st, j, x)
    BY <2>13 DEF CutPoint
  <2> HIDE DEF x
  <2> QED
    BY <2>9, <2>11, <2>12, <2>14 DEF KeptFrom
<1>5. CASE ~(j < Len(w) /\ st[j + 1] <= m)
  <2>1. Open(t, m) = {} /\ CutPoint(w, p, st, j, m)
    <3>1. CASE j = Len(w)
      <4>1. p[j] = m
        BY <1>2, <3>1 DEF Marked
      <4>2. j # lo
        BY <1>1, <4>1 DEF Marked
      <4>3. j \in lo + 1 .. Len(w)
        BY <1>2, <1>3, <4>2
      <4>4. t[m] = End
        BY <4>1, <4>3, MarkedAt
      <4>5. Open(t, m) = {}
        BY <1>1, <4>4 DEF Open
      <4> QED
        BY <1>2, <4>1, <4>5 DEF CutPoint
    <3>2. CASE j < Len(w)
      <4> DEFINE k == j + 1
      <4>1. k \in lo + 1 .. Len(w) /\ k - 1 = j /\ ~(st[k] <= m)
        BY <1>2, <1>3, <1>5, <3>2
      <4>2. m < p[k] /\ p[k] \in Nat
        BY <1>2, <3>2
      <4> HIDE DEF k
      <4>3. st[k] \in Nat
        BY <4>1, MarkedAt
      <4>4. p[k - 1] <= m
        BY <1>2, <4>1
      <4>5. Open(t, m) = {}
        <5>1. Open(t, m) = IF st[k] <= m THEN {st[k]} ELSE {}
          BY <1>1, <4>1, <4>2, <4>4, OpenIn
        <5> QED
          BY <4>1, <5>1
      <4>6. st[k] \in {p[j] + 1, p[j] + 2}
        BY <4>1 DEF Marked
      <4>7. m \in {p[j], p[j] + 1} /\ (m = p[j] + 1 => st[k] = p[j] + 2)
        BY <1>1, <1>2, <4>1, <4>3, <4>6
      <4> QED
        <5>1. m = p[j] + 1 => j < Len(w) /\ st[j + 1] = p[j] + 2
          BY <3>2, <4>7 DEF k
        <5>2. CutPoint(w, p, st, j, m)
          BY <4>7, <5>1 DEF CutPoint
        <5> QED
          BY <4>5, <5>2
    <3>3. j = Len(w) \/ j < Len(w)
      BY <1>2, <1>3
    <3> QED
      BY <3>1, <3>2, <3>3
  <2>2. Kept(u, buf) = <<>>
    <3>1. Open(u, m) = {}
      BY <1>1, <2>1
    <3>2. CASE j > lo
      <4>1. j \in lo + 1 .. j /\ j \in lo + 1 .. Len(w)
        BY <1>2, <1>3, <3>2
      <4>2. Found(w, lo, p, st, m, u, j) /\ AllFound(lo, p, j, u)
        BY <1>1, <4>1, FoundAt, EndsFound
      <4>3. p[j] \in Closings(u)
        BY <4>1, <4>2 DEF AllFound, Ended
      <4>4. Message(u, p[j]) = EncodeGC(w[j])
        BY <4>2 DEF Found
      <4>5. Encodable(w[j])
        BY <4>1, MarkedAt
      <4>6. Len(Message(u, p[j])) <= GC_MAX_MSG
        BY <4>4, <4>5, MessageIs
      <4> QED
        BY <1>1, <3>1, <4>3, <4>6 DEF Kept
    <3>3. CASE j = lo
      <4>1. p[j] = 0
        BY <3>3 DEF Marked
      <4>2. m = 1
        BY <1>1, <2>1, <4>1 DEF CutPoint
      <4>3. j < Len(w) /\ st[j + 1] = 2
        BY <2>1, <4>1, <4>2 DEF CutPoint
      <4> DEFINE k == j + 1
      <4>4. k \in lo + 1 .. Len(w) /\ st[k] = p[k - 1] + 2 /\ p[k - 1] = 0
        BY <1>2, <1>3, <4>1, <4>3
      <4> HIDE DEF k
      <4>5. t[1] = Other
        <5>1. t[p[k - 1] + 1] = Other
          BY <4>4 DEF Marked
        <5> QED
          BY <4>4, <5>1
      <4>6. buf = <<>>
        BY <4>2, <4>5
      <4> QED
        BY <1>1, <3>1, <4>6 DEF Kept
    <3> QED
      BY <1>2, <1>3, <3>2, <3>3
  <2>3. SubSeq(t, m + 1, m) = <<>>
    BY <1>1, NothingLeft
  <2> QED
    <3>1. m \in 0 .. m
      BY <1>1
    <3>2. Kept(u, buf) = SubSeq(t, m + 1, m)
      BY <2>2, <2>3
    <3> QED
      BY <2>1, <3>1, <3>2 DEF KeptFrom
<1> QED
  BY <1>4, <1>5

(* The text rest is that of t from x on. *)
Remains(t, rest, x) == Len(rest) \in Nat /\ \A i \in 1 .. Len(rest) : rest[i] = t[x + i]

(* The message m stands at s .. b of t, at most a line feed behind a. *)
Stands(t, m, a, s, b) ==
  /\ s \in {a + 1, a + 2}
  /\ s = a + 2 => t[a + 1] = Other
  /\ Len(m) \in Nat /\ Len(m) >= 1 /\ b = s + Len(m) - 1
  /\ \A i \in 1 .. Len(m) : t[s + i - 1] = m[i]

(* A piece of the text t is a piece of what remains of t behind x. *)
LEMMA PieceShifted ==
  ASSUME NEW t, NEW rest, NEW m, NEW x \in Nat, NEW a \in Nat, NEW s \in Nat, NEW b \in Nat,
         Remains(t, rest, x), Stands(t, m, x + a, s, b), b - x <= Len(rest)
  PROVE  Piece(rest, a, b - x, m)
<1> DEFINE len == Len(rest)  l == Len(m)
<1>0. /\ len \in Nat /\ l \in Nat /\ l >= 1 /\ b - x <= len
      /\ \A i \in 1 .. len : rest[i] = t[x + i]
      /\ s \in {x + a + 1, x + a + 2} /\ b = s + l - 1
      /\ s = x + a + 2 => t[x + a + 1] = Other
      /\ \A i \in 1 .. l : t[s + i - 1] = m[i]
  BY DEF Remains, Stands
<1> HIDE DEF len, l
<1> DEFINE g == s - (x + a + 1)
<1>1. g \in {0, 1} /\ b - x = a + g + l
  BY <1>0
<1>2. ASSUME g = 1
      PROVE  rest[a + 1] = Other
  <2>1. a + 1 \in 1 .. len /\ x + (a + 1) = x + a + 1
    BY <1>0, <1>1, <1>2
  <2>2. s = x + a + 2
    BY <1>2
  <2> QED
    BY <1>0, <2>1, <2>2
<1>3. ASSUME NEW i \in 1 .. l
      PROVE  rest[a + g + i] = m[i]
  <2>1. a + g + i \in 1 .. len /\ x + (a + g + i) = s + i - 1
    BY <1>0, <1>1
  <2>2. rest[a + g + i] = t[x + (a + g + i)]
    BY <1>0, <2>1
  <2> QED
    BY <1>0, <2>1, <2>2
<1> HIDE DEF g
<1> QED
  BY <1>0, <1>1, <1>2, <1>3 DEF Piece, len, l

(* The text rest is what is left of t behind x. *)
Rest(t, rest, x) ==
  /\ rest \in Seq(Char) /\ Len(rest) = Len(t) - x
  /\ \A i \in 1 .. Len(rest) : rest[i] = t[x + i]

(* What remains behind a cut is the text of the messages that remain. *)
LEMMA CutBehind ==
  ASSUME NEW t \in Seq(Char), NEW w, NEW lo, Written(w, lo),
         NEW p, NEW st, Marked(t, w, lo, p, st), NEW m \in 0 .. Len(t),
         NEW j, Last(t, w, lo, p, m, j), NEW x, CutPoint(w, p, st, j, x),
         NEW rest, Rest(t, rest, x)
  PROVE  \E q : Cuts(rest, w, j, q)
<1>0. /\ rest \in Seq(Char) /\ Len(rest) = Len(t) - x
      /\ \A i \in 1 .. Len(rest) : rest[i] = t[x + i]
  BY DEF Rest
<1> DEFINE n == Len(w)  len == Len(rest)
           q == [k \in j .. n |-> IF k = j THEN 0 ELSE p[k] - x]
<1>1. n \in Nat /\ lo \in Nat /\ j \in Nat /\ lo <= j /\ j <= n /\ p[j] \in Nat /\ len \in Nat
  BY <1>0 DEF Written, Last
<1>2. x \in {p[j], p[j] + 1} /\ (x = p[j] + 1 => j < n /\ st[j + 1] = p[j] + 2) /\ x \in Nat
  BY <1>1 DEF CutPoint
<1>3. ASSUME NEW k \in j + 1 .. n
      PROVE  /\ k \in lo + 1 .. n /\ k - 1 \in j .. n
             /\ p[k] \in Nat /\ p[k - 1] \in Nat /\ st[k] \in Nat
             /\ st[k] \in {p[k - 1] + 1, p[k - 1] + 2} /\ st[k] < p[k] /\ x < st[k]
             /\ p[j] <= p[k - 1] /\ p[k] <= Len(t)
             /\ k > j + 1 => x <= p[k - 1]
  <2>1. k \in lo + 1 .. n /\ k - 1 \in j .. n /\ k - 1 \in lo .. n /\ k - 1 \in Nat
    BY <1>1
  <2>2. /\ p[k] \in Nat /\ p[k - 1] \in Nat /\ st[k] \in Nat
        /\ st[k] < p[k] /\ p[k] <= Len(t)
    BY <2>1, MarkedAt
  <2>3. st[k] \in {p[k - 1] + 1, p[k - 1] + 2}
    BY <2>1 DEF Marked
  <2>4. p[j] <= p[k - 1] /\ (k > j + 1 => p[j] < p[k - 1])
    <3>1. CASE k = j + 1
      BY <1>1, <3>1
    <3>2. CASE k # j + 1
      <4>1. j \in lo .. n /\ j < k - 1
        BY <1>1, <3>2
      <4>2. \A y, z \in lo .. n : y < z => p[y] < p[z]
        BY DEF Marked
      <4>3. p[j] < p[k - 1]
        BY <2>1, <4>1, <4>2
      <4> QED
        BY <1>1, <2>2, <4>3
    <3> QED
      BY <3>1, <3>2
  <2>5. k > j + 1 => x <= p[k - 1]
    BY <1>1, <1>2, <2>2, <2>4, SMTT(30)
  <2>6. x < st[k]
    <3>1. CASE k = j + 1
      BY <1>1, <1>2, <2>2, <2>3, <3>1, SMTT(30)
    <3>2. CASE k # j + 1
      <4>1. k > j + 1
        BY <1>1, <3>2
      <4> QED
        BY <1>2, <2>2, <2>3, <2>5, <4>1
    <3> QED
      BY <3>1, <3>2
  <2> QED
    BY <2>1, <2>2, <2>3, <2>4, <2>5, <2>6
<1>4. \A k \in j + 1 .. n : q[k] = p[k] - x /\ k \in j .. n
  BY <1>1
<1>5. q[j] = 0
  BY <1>1
<1>6. q \in [j .. n -> Nat]
  <2>1. ASSUME NEW k \in j .. n
        PROVE  q[k] \in Nat
    <3>1. k = j \/ k \in j + 1 .. n
      BY <1>1
    <3> HIDE DEF q
    <3>2. k \in j + 1 .. n => p[k] - x \in Nat
      BY <1>2, <1>3
    <3> QED
      BY <1>4, <1>5, <3>1, <3>2
  <2> QED
    BY <2>1
<1> HIDE DEF q
<1>7. q[n] = len
  <2>1. CASE j = n
    <3>1. x = p[j] /\ p[j] = Len(t)
      BY <1>2, <1>1, <2>1 DEF Marked
    <3> QED
      BY <1>0, <1>1, <1>5, <2>1, <3>1
  <2>2. CASE j # n
    <3>1. n \in j + 1 .. n
      BY <1>1, <2>2
    <3>2. p[n] = Len(t)
      BY DEF Marked
    <3> QED
      BY <1>0, <1>4, <3>1, <3>2
  <2> QED
    BY <2>1, <2>2
<1>8. ASSUME NEW k \in j + 1 .. n
      PROVE  Piece(rest, q[k - 1], q[k], EncodeGC(w[k]))
  <2> DEFINE a == q[k - 1]  s == st[k]  b == p[k]  c == EncodeGC(w[k])  l == Len(c)
  <2>1. /\ k \in lo + 1 .. n /\ k - 1 \in j .. n /\ a \in Nat /\ s \in Nat /\ b \in Nat
        /\ b <= Len(t)
    BY <1>3, <1>6
  <2>2. /\ b = s + l - 1
        /\ s = p[k - 1] + 2 => t[p[k - 1] + 1] = Other
        /\ \A i \in 1 .. l : t[s + i - 1] = c[i]
    BY <2>1 DEF Marked
  <2>3. Encodable(w[k])
    BY <2>1, MarkedAt
  <2>4. l \in Nat /\ l >= 1
    BY <2>3, MessageIs
  <2>5. s \in {x + a + 1, x + a + 2} /\ (s = x + a + 2 => t[x + a + 1] = Other)
    <3>1. CASE k = j + 1
      <4>1. a = 0 /\ k - 1 = j
        BY <1>1, <1>5, <3>1
      <4>2. s \in {p[j] + 1, p[j] + 2} /\ (s = p[j] + 2 => t[p[j] + 1] = Other)
        BY <1>3, <2>2, <4>1
      <4>3. x < s /\ (x = p[j] + 1 => s = p[j] + 2)
        BY <1>2, <1>3, <3>1
      <4>4. s \in {x + 1, x + 2} /\ (s = x + 2 => x = p[j] /\ s = p[j] + 2)
        <5> DEFINE e == p[j]
        <5>1. e \in Nat /\ (x = e \/ x = e + 1) /\ (s = e + 1 \/ s = e + 2)
          BY <1>1, <1>2, <4>2
        <5>2. x < s /\ (x = e + 1 => s = e + 2) /\ s \in Nat /\ x \in Nat
          BY <1>2, <2>1, <4>3
        <5> HIDE DEF e, s
        <5>3. (s = x + 1 \/ s = x + 2) /\ (s = x + 2 => x = e /\ s = e + 2)
          BY <5>1, <5>2
        <5> QED
          BY <5>3 DEF e
      <4>5. s \in {x + 1, x + 2} /\ (s = x + 2 => t[x + 1] = Other)
        BY <4>2, <4>4
      <4> QED
        BY <1>2, <4>1, <4>5
    <3>2. CASE k # j + 1
      <4>1. k - 1 \in j + 1 .. n
        BY <1>1, <3>2
      <4>2. a = p[k - 1] - x /\ p[k - 1] \in Nat
        BY <1>3, <1>4, <4>1
      <4>3. x + a = p[k - 1]
        BY <1>2, <4>2
      <4> QED
        BY <1>3, <2>2, <4>3
    <3> QED
      BY <3>1, <3>2
  <2>6. b - x <= len
    BY <1>0, <1>2, <2>1
  <2>7. q[k] = b - x
    BY <1>4
  <2> HIDE DEF a, s, b, c, l, len
  <2>8. Piece(rest, a, b - x, c)
    <3>1. Remains(t, rest, x)
      BY <1>0, <1>1 DEF Remains, len
    <3> DEFINE d == x + a
    <3>2. s \in {d + 1, d + 2} /\ (s = d + 2 => t[d + 1] = Other)
      BY <2>5
    <3> HIDE DEF d
    <3>3. Stands(t, c, d, s, b)
      BY <2>2, <2>4, <3>2 DEF Stands, l
    <3>4. Stands(t, c, x + a, s, b)
      BY <3>3 DEF d
    <3>5. b - x <= Len(rest)
      BY <2>6 DEF len
    <3> QED
      BY <1>2, <2>1, <3>1, <3>4, <3>5, PieceShifted
  <2> QED
    BY <2>7, <2>8 DEF a, c
<1>9. ASSUME NEW k \in j .. n, NEW l \in j .. n, k < l
      PROVE  q[k] < q[l]
  <2>1. l \in j + 1 .. n /\ k \in lo .. n /\ l \in lo .. n
    BY <1>1, <1>9
  <2>2. q[l] = p[l] - x /\ x < p[l] /\ p[l] \in Nat
    BY <1>2, <1>3, <1>4, <2>1
  <2>3. CASE k = j
    BY <1>2, <1>5, <2>2, <2>3
  <2>4. CASE k # j
    <3>1. k \in j + 1 .. n
      BY <1>1, <2>4
    <3>2. q[k] = p[k] - x /\ p[k] \in Nat
      BY <1>3, <1>4, <3>1
    <3>3. p[k] < p[l]
      BY <1>9, <2>1 DEF Marked
    <3> QED
      BY <1>2, <2>2, <3>2, <3>3
  <2> QED
    BY <2>3, <2>4
<1>10. ASSUME NEW i \in 1 .. len
       PROVE  \E k \in j + 1 .. n : q[k - 1] < i /\ i <= q[k]
  <2>1. x + i \in 1 .. Len(t)
    BY <1>0, <1>2
  <2>2. PICK k \in lo + 1 .. n : p[k - 1] < x + i /\ x + i <= p[k]
    BY <2>1 DEF Marked
  <2>3. k \in lo .. n /\ p[k] \in Nat /\ k \in Nat
    BY MarkedAt
  <2>4. k > j
    <3>1. SUFFICES ASSUME k <= j
                   PROVE  FALSE
      BY <1>1, <2>3
    <3>2. p[k] <= p[j]
      <4>1. k = j \/ k < j
        BY <1>1, <2>3, <3>1
      <4>2. k < j => p[k] < p[j]
        <5>1. j \in lo .. n
          BY <1>1
        <5> QED
          BY <2>3, <5>1 DEF Marked
      <4> QED
        BY <1>1, <2>3, <4>1, <4>2
    <3> QED
      BY <1>1, <1>2, <2>2, <2>3, <3>2, SMTT(30)
  <2>5. k \in j + 1 .. n
    BY <1>1, <2>3, <2>4
  <2>6. i <= q[k]
    BY <1>2, <1>4, <2>2, <2>3, <2>5
  <2>7. q[k - 1] < i
    <3>1. CASE k = j + 1
      BY <1>1, <1>5, <3>1
    <3>2. CASE k # j + 1
      <4>1. k - 1 \in j + 1 .. n
        BY <1>1, <2>5, <3>2
      <4>2. q[k - 1] = p[k - 1] - x /\ p[k - 1] \in Nat
        BY <1>3, <1>4, <4>1
      <4> QED
        BY <1>2, <2>2, <4>2
    <3> QED
      BY <3>1, <3>2
  <2> QED
    BY <2>5, <2>6, <2>7
<1>11. Cuts(rest, w, j, q)
  BY <1>5, <1>6, <1>7, <1>8, <1>9, <1>10 DEF Cuts
<1> QED
  BY <1>11

(* The text longer is t and, perhaps behind a line feed, the message m.    *)
Lengthened(t, m, longer) ==
  \E g \in {0, 1} :
    /\ longer \in Seq(Char) /\ Len(longer) = Len(t) + g + Len(m)
    /\ \A i \in 1 .. Len(t) : longer[i] = t[i]
    /\ g = 1 => longer[Len(t) + 1] = Other
    /\ \A i \in 1 .. Len(m) : longer[Len(t) + g + i] = m[i]

(* What a client has written, perhaps with a line feed, lengthens the       *)
(* text.                                                                    *)
LEMMA Lengthening ==
  ASSUME NEW t \in Seq(Char), NEW m \in Seq(Char), NEW before \in {<<>>, <<Other>>}
  PROVE  Lengthened(t, m, (t \o before) \o m) /\ (t \o before) \o m \in Seq(Char)
<1>1. CASE before = <<>>
  <2>1. t \o before = t
    BY <1>1, ConcatEmptySeq
  <2> DEFINE r == t \o m
  <2>2. /\ r \in Seq(Char) /\ Len(r) = Len(t) + Len(m)
        /\ \A i \in 1 .. Len(t) : r[i] = t[i]
        /\ \A i \in 1 .. Len(m) : r[Len(t) + i] = m[i]
    BY Joined
  <2> HIDE DEF r
  <2>3. Len(t) \in Nat /\ Len(m) \in Nat
    OBVIOUS
  <2>4. Lengthened(t, m, r)
    <3>1. 0 \in {0, 1} /\ Len(r) = Len(t) + 0 + Len(m) /\ \A i \in 1 .. Len(m) : Len(t) + 0 + i = Len(t) + i
      BY <2>2, <2>3
    <3>2. \A i \in 1 .. Len(m) : r[Len(t) + 0 + i] = m[i]
      BY <2>2, <3>1
    <3> QED
      BY <2>2, <3>1, <3>2 DEF Lengthened
  <2> QED
    BY <2>1, <2>2, <2>4 DEF r
<1>2. CASE before = <<Other>>
  <2> DEFINE v == Cat(t, before)  r == Cat(v, m)  n == Len(t)  l == Len(m)
  <2>1. Line(before, 1) /\ before[1] = Other
    BY <1>2 DEF Line
  <2>a. Line(t, n) /\ Line(m, l) /\ n \in Nat /\ l \in Nat
    BY DEF Line
  <2> HIDE DEF n, l
  <2>2. /\ Line(v, n + 1)
        /\ \A i \in 1 .. n : v[i] = t[i]
        /\ \A i \in 1 .. 1 : v[n + i] = before[i]
    BY <2>1, <2>a, LinesJoined
  <2> HIDE DEF v
  <2> DEFINE k == n + 1
  <2>b. k \in Nat /\ Line(v, k)
    BY <2>2, <2>a
  <2> HIDE DEF k
  <2>c. /\ Line(r, k + l)
        /\ \A i \in 1 .. k : r[i] = v[i]
        /\ \A i \in 1 .. l : r[k + i] = m[i]
    BY <2>a, <2>b, LinesJoined
  <2> HIDE DEF r
  <2>3. r \in Seq(Char) /\ Len(r) = k + l
    BY <2>c DEF Line
  <2>4. v[n + 1] = Other /\ k = n + 1
    <3>1. 1 \in 1 .. 1
      OBVIOUS
    <3>2. v[n + 1] = before[1]
      BY <2>2, <3>1
    <3> QED
      BY <2>1, <3>2 DEF k
  <2>6. r[n + 1] = Other /\ \A i \in 1 .. n : r[i] = t[i]
    <3>1. n + 1 \in 1 .. k /\ \A i \in 1 .. n : i \in 1 .. k
      BY <2>4, <2>a
    <3> QED
      BY <2>2, <2>c, <2>4, <3>1
  <2>7. Len(r) = n + 1 + l
    BY <2>3, <2>4
  <2>8. \A i \in 1 .. l : r[n + 1 + i] = m[i]
    BY <2>c, <2>4
  <2>9. Lengthened(t, m, r)
    BY <2>3, <2>6, <2>7, <2>8 DEF Lengthened, n, l
  <2> QED
    BY <2>3, <2>9 DEF r, v, Cat
<1> QED
  BY <1>1, <1>2

(* A message written behind the text is one more piece. *)
LEMMA CutLonger ==
  ASSUME NEW t \in Seq(Char), NEW w \in Seq(Frames), NEW lo \in 0 .. Len(w),
         NEW p, Cuts(t, w, lo, p), NEW f \in Frames,
         NEW longer, Lengthened(t, EncodeGC(f), longer),
         NEW more, more = Append(w, f)
  PROVE  \E q : Cuts(longer, more, lo, q)
<1> DEFINE n == Len(w)  c == EncodeGC(f)
           q == [k \in lo .. n + 1 |-> IF k = n + 1 THEN Len(longer) ELSE p[k]]
<1>1. PICK g \in {0, 1} :
        /\ longer \in Seq(Char) /\ Len(longer) = Len(t) + g + Len(c)
        /\ \A i \in 1 .. Len(t) : longer[i] = t[i]
        /\ g = 1 => longer[Len(t) + 1] = Other
        /\ \A i \in 1 .. Len(c) : longer[Len(t) + g + i] = c[i]
  BY DEF Lengthened
<1>2. n \in Nat /\ lo \in Nat /\ lo <= n
  OBVIOUS
<1>3. Len(more) = n + 1 /\ more[n + 1] = f /\ \A k \in 1 .. n : more[k] = w[k]
  OBVIOUS
<1>4. Encodable(f)
  BY StreamAssumption
<1>5. Len(c) \in Nat /\ Len(c) >= 8
  BY <1>4, MessageIs
<1>6. Len(t) \in Nat /\ Len(longer) \in Nat /\ Len(t) < Len(longer)
  BY <1>1, <1>5
<1>7. /\ p \in [lo .. n -> Nat] /\ p[lo] = 0 /\ p[n] = Len(t)
      /\ \A k \in lo + 1 .. n : Piece(t, p[k - 1], p[k], EncodeGC(w[k]))
      /\ \A j, k \in lo .. n : j < k => p[j] < p[k]
      /\ \A i \in 1 .. Len(t) : \E k \in lo + 1 .. n : p[k - 1] < i /\ i <= p[k]
  BY DEF Cuts
<1>8. /\ q \in [lo .. n + 1 -> Nat]
      /\ q[n + 1] = Len(longer)
      /\ \A k \in lo .. n : q[k] = p[k] /\ k \in lo .. n + 1
  <2>1. \A k \in lo .. n : k \in lo .. n + 1 /\ k # n + 1
    BY <1>2
  <2>2. \A k \in lo .. n + 1 : k = n + 1 \/ k \in lo .. n
    BY <1>2
  <2>3. n + 1 \in lo .. n + 1
    BY <1>2
  <2> QED
    BY <1>6, <1>7, <2>1, <2>2, <2>3
<1> HIDE DEF q, c
<1>9. q[lo] = 0
  BY <1>2, <1>7, <1>8
<1>10. q[n] = Len(t) /\ n \in lo .. n
  BY <1>2, <1>7, <1>8
<1>11. ASSUME NEW k \in lo + 1 .. n + 1
       PROVE  Piece(longer, q[k - 1], q[k], EncodeGC(more[k]))
  <2>1. CASE k = n + 1
    <3>1. Piece(longer, Len(t), Len(longer), c)
      <4>1. Len(longer) <= Len(longer)
        BY <1>6
      <4> QED
        BY <1>1, <4>1 DEF Piece
    <3>2. k - 1 = n
      BY <1>2, <2>1
    <3> QED
      BY <1>3, <1>8, <1>10, <2>1, <3>1, <3>2 DEF c
  <2>2. CASE k # n + 1
    <3>1. k \in lo + 1 .. n /\ k \in lo .. n /\ k - 1 \in lo .. n /\ k \in 1 .. n
      BY <1>2, <2>2
    <3> DEFINE a == p[k - 1]  b == p[k]  m == EncodeGC(w[k])
    <3>2. a \in Nat /\ b \in Nat /\ Piece(t, a, b, m)
      BY <1>7, <3>1
    <3>3. Encodable(w[k])
      BY <3>1, StreamAssumption
    <3>4. Len(m) \in Nat
      BY <3>3, MessageIs
    <3> HIDE DEF a, b, m
    <3>5. PICK h \in {0, 1} :
            /\ b = a + h + Len(m) /\ b <= Len(t)
            /\ h = 1 => t[a + 1] = Other
            /\ \A i \in 1 .. Len(m) : t[a + h + i] = m[i]
      BY <3>2 DEF Piece
    <3>6. \A i \in 1 .. Len(m) : a + h + i \in 1 .. Len(t)
      BY <1>6, <3>2, <3>4, <3>5
    <3>7. h = 1 => a + 1 \in 1 .. Len(t)
      BY <1>6, <3>2, <3>4, <3>5
    <3>8. b <= Len(longer)
      BY <1>6, <3>2, <3>5
    <3>9. h = 1 => longer[a + 1] = Other
      BY <1>1, <3>5, <3>7
    <3>10. \A i \in 1 .. Len(m) : longer[a + h + i] = m[i]
      BY <1>1, <3>5, <3>6
    <3>11. Piece(longer, a, b, m)
      BY <3>5, <3>8, <3>9, <3>10 DEF Piece
    <3> QED
      BY <1>3, <1>8, <3>1, <3>11 DEF a, b, m
  <2> QED
    BY <2>1, <2>2
<1>12. ASSUME NEW j \in lo .. n + 1, NEW k \in lo .. n + 1, j < k
       PROVE  q[j] < q[k]
  <2>1. j \in lo .. n
    BY <1>2, <1>12
  <2>2. CASE k = n + 1
    <3>1. p[j] \in Nat /\ p[n] = Len(t) /\ (j = n \/ j < n)
      BY <1>2, <1>7, <2>1, SMTT(30)
    <3>2. p[j] <= Len(t)
      BY <1>6, <1>7, <1>10, <2>1, <3>1
    <3> QED
      BY <1>6, <1>8, <2>1, <2>2, <3>1, <3>2
  <2>3. CASE k # n + 1
    <3>1. k \in lo .. n
      BY <1>2, <2>3
    <3> QED
      BY <1>7, <1>8, <1>12, <2>1, <3>1
  <2> QED
    BY <2>2, <2>3
<1>13. ASSUME NEW i \in 1 .. Len(longer)
       PROVE  \E k \in lo + 1 .. n + 1 : q[k - 1] < i /\ i <= q[k]
  <2>1. CASE i \in 1 .. Len(t)
    <3>1. PICK k \in lo + 1 .. n : p[k - 1] < i /\ i <= p[k]
      BY <1>7, <2>1
    <3>2. k \in lo .. n /\ k - 1 \in lo .. n /\ k \in lo + 1 .. n + 1
      BY <1>2
    <3> QED
      BY <1>8, <3>1, <3>2
  <2>2. CASE ~(i \in 1 .. Len(t))
    <3>1. Len(t) < i /\ n + 1 \in lo + 1 .. n + 1 /\ (n + 1) - 1 = n
      BY <1>2, <1>6, <2>2
    <3> QED
      BY <1>8, <1>10, <3>1
  <2> QED
    BY <2>1, <2>2
<1>14. Cuts(longer, more, lo, q)
  BY <1>3, <1>8, <1>9, <1>11, <1>12, <1>13 DEF Cuts
<1> QED
  BY <1>14

(* A nonempty set of numbers has a least one, and Min is it. *)
LEMMA LeastIs ==
  ASSUME NEW S \in SUBSET Nat, S # {}
  PROVE  Min(S) \in S
<1> DEFINE R == OpToRel(<, Nat)
<1>1. IsWellFoundedOn(R, Nat)
  BY NatLessThanWellFounded
<1> HIDE DEF R
<1>2. \E x \in S : \A y \in S : ~(<<y, x>> \in R)
  BY <1>1, WFMin
<1>3. PICK x \in S : \A y \in S : ~(<<y, x>> \in R)
  BY <1>2
<1>4. ASSUME NEW y \in S PROVE x <= y
  <2>1. x \in Nat /\ y \in Nat /\ <<y, x>> \in Nat \X Nat
    OBVIOUS
  <2>2. y < x => <<y, x>> \in R
    BY <2>1 DEF R, OpToRel
  <2>3. ~(y < x)
    BY <1>3, <2>2, Zenon
  <2> QED
    BY <2>1, <2>3
<1> QED
  BY <1>4 DEF Min

(* A message without its end, or nothing. *)
Partial(b) ==
  /\ b \in Seq(Char \ {End}) /\ Len(b) <= GC_MAX_MSG
  /\ b # <<>> => Head(b) = Start

(* What is kept is a message without its end, or nothing. *)
LEMMA KeptPartial ==
  ASSUME NEW text \in Seq(Char), NEW b, Partial(b)
  PROVE  Partial(Kept(text, b))
<1> DEFINE n == Len(text)  open == Open(text, n)  s == Min(open)
<1>1. n \in Nat /\ GC_MAX_MSG \in Nat
  BY StreamAssumption
<1>2. CASE open # {} /\ n - s < GC_MAX_MSG
  <2>1. open \in SUBSET Nat
    BY <1>1 DEF Open
  <2>2. s \in open
    BY <1>2, <2>1, LeastIs
  <2>3. s \in 1 .. n /\ text[s] = Start /\ \A i \in s .. n : text[i] # End
    BY <2>2 DEF Open
  <2>4. Kept(text, b) = SubSeq(text, s, n)
    BY <1>2 DEF Kept
  <2> HIDE DEF open, s, n
  <2>5. s \in Int /\ n \in Int /\ s <= n
    BY <1>1, <2>3
  <2>6. \A i \in s .. n : text[i] \in Char \ {End}
    <3>1. \A i \in s .. n : i \in 1 .. Len(text)
      BY <1>1, <2>3 DEF n
    <3>2. \A i \in 1 .. Len(text) : text[i] \in Char
      BY SMTT(30)
    <3> QED
      BY <2>3, <3>1, <3>2
  <2> DEFINE y == SubSeq(text, s, n)
  <2>7. /\ y \in Seq(Char \ {End}) /\ Len(y) = IF s <= n THEN n - s + 1 ELSE 0
        /\ \A i \in 1 .. n - s + 1 : y[i] = text[s + i - 1]
    BY <2>5, <2>6, SubSeqProperties
  <2> HIDE DEF y
  <2>8. Len(y) <= GC_MAX_MSG
    BY <1>1, <1>2, <2>5, <2>7
  <2>9. Head(y) = Start
    <3>1. y[1] = text[s]
      <4>1. 1 \in 1 .. n - s + 1 /\ s + 1 - 1 = s
        BY <2>5
      <4> QED
        BY <2>7, <4>1
    <3> QED
      BY <2>3, <2>5, <2>7, <3>1
  <2> QED
    BY <2>4, <2>7, <2>8, <2>9 DEF Partial, y
<1>3. CASE ~(open # {} /\ n - s < GC_MAX_MSG)
  <2>1. Kept(text, b) = <<>> \/ Kept(text, b) = b
    BY <1>3 DEF Kept
  <2>2. Partial(<<>>)
    BY <1>1 DEF Partial
  <2> QED
    BY <2>1, <2>2
<1> QED
  BY <1>2, <1>3

(* The ends in a text can be counted. *)
LEMMA EndsCounted ==
  ASSUME NEW text \in Seq(Char)
  PROVE  Cardinality(Ends(text)) \in Nat
<1>1. Len(text) \in Nat /\ DOMAIN text = 1 .. Len(text)
  OBVIOUS
<1>2. IsFiniteSet(1 .. Len(text))
  BY <1>1, FS_Interval
<1>3. Ends(text) \subseteq 1 .. Len(text)
  BY <1>1 DEF Ends
<1> QED
  BY <1>2, <1>3, FS_Subset, FS_CardinalityType

-----------------------------------------------------------------------------
(* The inductive invariant.  Nothing is unread of a client without         *)
(* callbacks.  And while nothing has disturbed the stream: what the parser *)
(* keeps, with what TCP has yet to deliver, is exactly the text of the     *)
(* messages that have not ended.                                           *)

Pending(c) == IF recvState = "accepted" THEN unread[c] ELSE bufferRecv \o unread[c]
Aligned(c) == \E p : Cuts(Pending(c), written, ended, p)

Silent == \A c \in Clients \ live : unread[c] = <<>>

Following ==
  ~disturbed =>
    /\ ended \in 0 .. Len(written) /\ queued = SubSeq(written, 1, ended)
    /\ recvState \in {"none", "closing"} => live = {}
    /\ recvState \in {"accepted", "received"} => \E c \in Clients : live = {c} /\ Aligned(c)

StreamTypes == TypeOK /\ written \in Seq(Frames)

StreamIInv == StreamTypes /\ Silent /\ Following

(* Before anything happens. *)
LEMMA StreamStarts == StreamInit => StreamIInv
<1> SUFFICES ASSUME StreamInit PROVE StreamIInv
  OBVIOUS
<1>1. GC_MAX_MSG \in Nat /\ MaxAllocFails \in Nat
  BY StreamAssumption
<1>2. StreamTypes
  <2>1. bufferRecv \in Seq(Char \ {End}) /\ Len(bufferRecv) <= GC_MAX_MSG /\ bufferRecv = <<>>
    BY <1>1 DEF StreamInit
  <2>2. unread \in [Clients -> Seq(Char)]
    BY DEF StreamInit
  <2>3. written \in Seq(Frames) /\ ended \in Nat /\ allocFails \in 0 .. MaxAllocFails
    BY <1>1 DEF StreamInit
  <2>4. /\ recvState = "none" /\ disturbed \in BOOLEAN
        /\ live \subseteq Clients /\ fresh \subseteq Clients \ live
    BY DEF StreamInit
  <2> QED
    BY <2>1, <2>2, <2>3, <2>4 DEF StreamTypes, TypeOK
<1>3. Silent
  BY DEF Silent, StreamInit
<1>4. Following
  <2>1. ended \in 0 .. Len(written)
    BY DEF StreamInit
  <2>2. queued = SubSeq(written, 1, ended)
    BY DEF StreamInit
  <2> QED
    BY <2>1, <2>2 DEF Following, StreamInit
<1> QED
  BY <1>2, <1>3, <1>4 DEF StreamIInv

(* One action's types. *)
LEMMA AcceptTypes ==
  ASSUME StreamTypes, NEW c \in Clients, ServerAccept(c)
  PROVE  StreamTypes'
BY DEF StreamTypes, TypeOK, ServerAccept, Alone

LEMMA WriteTypes ==
  ASSUME StreamTypes, NEW c \in Clients, NEW f \in Frames, ClientWrites(c, f)
  PROVE  StreamTypes'
<1>1. Encodable(f)
  BY StreamAssumption
<1>2. EncodeGC(f) \in Seq(Char)
  BY <1>1, MessageIs
<1>3. unread[c] \in Seq(Char)
  BY DEF StreamTypes, TypeOK
<1>4. PICK before \in {<<>>, <<Other>>} :
        unread' = [unread EXCEPT ![c] = @ \o before \o EncodeGC(f)]
  BY DEF ClientWrites
<1> DEFINE m == EncodeGC(f)  r == unread[c]
<1>5. (r \o before) \o m \in Seq(Char)
  <2> HIDE DEF m, r
  <2>1. r \in Seq(Char) /\ m \in Seq(Char)
    BY <1>2, <1>3 DEF m, r
  <2> QED
    BY <2>1, Lengthening
<1> DEFINE z == (r \o before) \o m
<1>6. unread' = [unread EXCEPT ![c] = z]
  BY <1>4
<1> HIDE DEF z
<1>7. unread' \in [Clients -> Seq(Char)]
  BY <1>5, <1>6 DEF StreamTypes, TypeOK, z
<1>8. written' \in Seq(Frames)
  BY DEF ClientWrites, StreamTypes
<1> QED
  BY <1>7, <1>8 DEF StreamTypes, TypeOK, ClientWrites

(* A segment and what is left unread behind it. *)
LEMMA DeliveredIs ==
  ASSUME StreamTypes, NEW c \in Clients, NEW n \in DOMAIN unread[c]
  PROVE  /\ n \in Nat /\ n >= 1 /\ n <= Len(unread[c]) /\ unread[c] \in Seq(Char)
         /\ Delivered(c, n) \in Seq(Char) /\ Len(Delivered(c, n)) = n
         /\ \A i \in 1 .. n : Delivered(c, n)[i] = unread[c][i]
         /\ SubSeq(unread[c], n + 1, Len(unread[c])) \in Seq(Char)
         /\ Len(SubSeq(unread[c], n + 1, Len(unread[c]))) = Len(unread[c]) - n
         /\ \A i \in 1 .. Len(unread[c]) - n :
              SubSeq(unread[c], n + 1, Len(unread[c]))[i] = unread[c][n + i]
<1> DEFINE r == unread[c]  l == Len(r)
<1>1. r \in Seq(Char)
  BY DEF StreamTypes, TypeOK
<1> HIDE DEF r
<1>2. n \in 1 .. l /\ l \in Nat
  BY <1>1 DEF r
<1>3. \A i \in 1 .. l : r[i] \in Char
  BY <1>1, SMTT(30)
<1> HIDE DEF l
<1>4. 1 \in Int /\ n \in Int /\ n + 1 \in Int /\ l \in Int /\ 1 <= n
  BY <1>2
<1>5. /\ SubSeq(r, 1, n) \in Seq(Char) /\ Len(SubSeq(r, 1, n)) = IF 1 <= n THEN n - 1 + 1 ELSE 0
      /\ \A i \in 1 .. n - 1 + 1 : SubSeq(r, 1, n)[i] = r[1 + i - 1]
  <2>1. \A i \in 1 .. n : r[i] \in Char
    BY <1>2, <1>3
  <2> QED
    BY <1>4, <2>1, SubSeqProperties
<1>6. /\ SubSeq(r, n + 1, l) \in Seq(Char)
      /\ Len(SubSeq(r, n + 1, l)) = IF n + 1 <= l THEN l - (n + 1) + 1 ELSE 0
      /\ \A i \in 1 .. l - (n + 1) + 1 : SubSeq(r, n + 1, l)[i] = r[(n + 1) + i - 1]
  <2>1. \A i \in n + 1 .. l : r[i] \in Char
    BY <1>2, <1>3
  <2> QED
    BY <1>4, <2>1, SubSeqProperties
<1>7. n - 1 + 1 = n /\ \A i \in 1 .. n : 1 + i - 1 = i
  BY <1>2
<1>8. /\ l - (n + 1) + 1 = l - n /\ (IF n + 1 <= l THEN l - (n + 1) + 1 ELSE 0) = l - n
      /\ \A i \in 1 .. l - n : (n + 1) + i - 1 = n + i
  BY <1>2
<1>9. \A i \in 1 .. n : SubSeq(r, 1, n)[i] = r[i]
  BY <1>5, <1>7
<1>10. \A i \in 1 .. l - n : SubSeq(r, n + 1, l)[i] = r[n + i]
  BY <1>6, <1>8
<1> QED
  BY <1>1, <1>2, <1>4, <1>5, <1>6, <1>7, <1>8, <1>9, <1>10, SMTT(30) DEF Delivered, r, l

(* What is parsed is text. *)
LEMMA TextIs ==
  ASSUME StreamTypes, NEW segment \in Seq(Char)
  PROVE  Text(segment) \in Seq(Char)
<1>1. bufferRecv \in Seq(Char)
  BY DEF StreamTypes, TypeOK
<1> QED
  BY <1>1, Joined DEF Text

LEMMA RecvTypes ==
  ASSUME StreamTypes, NEW c \in Clients, NEW n \in DOMAIN unread[c], Recv(c, n)
  PROVE  StreamTypes'
<1>1. Delivered(c, n) \in Seq(Char) /\ SubSeq(unread[c], n + 1, Len(unread[c])) \in Seq(Char)
  BY DeliveredIs
<1>2. Text(Delivered(c, n)) \in Seq(Char)
  BY <1>1, TextIs
<1>3. Partial(bufferRecv)
  BY DEF StreamTypes, TypeOK, Partial
<1>4. Partial(bufferRecv')
  BY <1>2, <1>3, KeptPartial DEF Recv
<1>5. ended' \in Nat
  <2>1. Cardinality(Ends(Delivered(c, n))) \in Nat
    BY <1>1, EndsCounted
  <2>2. ended \in Nat
    BY DEF StreamTypes, TypeOK
  <2> QED
    BY <2>1, <2>2 DEF Recv
<1>6. unread' \in [Clients -> Seq(Char)]
  BY <1>1 DEF Recv, StreamTypes, TypeOK
<1>7. disturbed' \in BOOLEAN
  BY DEF Recv, StreamTypes, TypeOK, Stale
<1> QED
  BY <1>4, <1>5, <1>6, <1>7 DEF Recv, StreamTypes, TypeOK, Partial

LEMMA NoMemoryTypes ==
  ASSUME StreamTypes, NEW c \in Clients, NoMemory(c)
  PROVE  StreamTypes'
<1>1. unread[c] \in Seq(Char) /\ ended \in Nat
  BY DEF StreamTypes, TypeOK
<1>2. ended' \in Nat
  <2>1. Cardinality(Ends(unread[c])) \in Nat
    BY <1>1, EndsCounted
  <2> QED
    BY <1>1, <2>1 DEF NoMemory
<1>3. unread' \in [Clients -> Seq(Char)]
  BY DEF NoMemory, StreamTypes, TypeOK
<1>4. allocFails' \in 0 .. MaxAllocFails
  BY StreamAssumption DEF NoMemory, StreamTypes, TypeOK
<1> QED
  BY <1>2, <1>3, <1>4 DEF NoMemory, StreamTypes, TypeOK

LEMMA TrashTypes ==
  ASSUME StreamTypes, NEW c \in Clients, NEW n \in DOMAIN unread[c], Trash(c, n)
  PROVE  StreamTypes'
<1>1. SubSeq(unread[c], n + 1, Len(unread[c])) \in Seq(Char)
  BY DeliveredIs
<1>2. unread' \in [Clients -> Seq(Char)]
  BY <1>1 DEF Trash, StreamTypes, TypeOK
<1> QED
  BY <1>2 DEF Trash, StreamTypes, TypeOK

LEMMA CloseTypes ==
  ASSUME StreamTypes, NEW c \in Clients, ClientCloses(c)
  PROVE  StreamTypes'
BY DEF StreamTypes, TypeOK, ClientCloses

LEMMA StutterTypes ==
  ASSUME StreamTypes, UNCHANGED streamVars
  PROVE  StreamTypes'
BY DEF StreamTypes, TypeOK, streamVars

(* No action breaks the types. *)
LEMMA TypesKept == StreamTypes /\ [StreamNext]_streamVars => StreamTypes'
<1> SUFFICES ASSUME StreamTypes, [StreamNext]_streamVars
             PROVE  StreamTypes'
  OBVIOUS
<1>1. CASE UNCHANGED streamVars
  BY <1>1, StutterTypes
<1>2. CASE StreamNext
  <2>1. PICK c \in Clients :
          \/ ServerAccept(c)
          \/ \E f \in Frames : ClientWrites(c, f)
          \/ \E n \in DOMAIN unread[c] : Recv(c, n) \/ Trash(c, n)
          \/ NoMemory(c)
          \/ ClientCloses(c)
    BY <1>2 DEF StreamNext
  <2> QED
    BY <2>1, AcceptTypes, WriteTypes, RecvTypes, TrashTypes, NoMemoryTypes, CloseTypes
<1> QED
  BY <1>1, <1>2

(* The rest of a text. *)
LEMMA TailIs ==
  ASSUME NEW t \in Seq(Char), NEW x \in 0 .. Len(t), NEW rest, rest = SubSeq(t, x + 1, Len(t))
  PROVE  /\ rest \in Seq(Char) /\ Len(rest) = Len(t) - x
         /\ \A i \in 1 .. Len(rest) : rest[i] = t[x + i]
<1> DEFINE l == Len(t)
<1>1. l \in Nat /\ x \in 0 .. l
  OBVIOUS
<1>2. \A i \in x + 1 .. l : t[i] \in Char
  <2>1. \A i \in x + 1 .. l : i \in 1 .. l
    BY <1>1
  <2>2. \A i \in 1 .. Len(t) : t[i] \in Char
    BY SMTT(30)
  <2> QED
    BY <2>1, <2>2
<1>3. rest = SubSeq(t, x + 1, l)
  OBVIOUS
<1> HIDE DEF l
<1>4. x + 1 \in Int /\ l \in Int
  BY <1>1
<1>5. /\ rest \in Seq(Char) /\ Len(rest) = IF x + 1 <= l THEN l - (x + 1) + 1 ELSE 0
      /\ \A i \in 1 .. l - (x + 1) + 1 : rest[i] = t[(x + 1) + i - 1]
  BY <1>2, <1>3, <1>4, SubSeqProperties
<1>6. /\ l - (x + 1) + 1 = l - x /\ (IF x + 1 <= l THEN l - (x + 1) + 1 ELSE 0) = l - x
      /\ \A i \in 1 .. l - x : (x + 1) + i - 1 = x + i
  BY <1>1
<1>7. rest \in Seq(Char) /\ Len(rest) = l - x /\ \A i \in 1 .. l - x : rest[i] = t[x + i]
  BY <1>5, <1>6
<1> QED
  BY <1>7 DEF l

(* Texts with the same characters are the same. *)
LEMMA SameText ==
  ASSUME NEW y \in Seq(Char), NEW z \in Seq(Char), NEW l \in Nat, Len(y) = l, Len(z) = l,
         \A i \in 1 .. l : y[i] = z[i]
  PROVE  y = z
<1>1. Len(y) = Len(z) /\ \A i \in 1 .. Len(y) : y[i] = z[i]
  OBVIOUS
<1> QED
  BY <1>1, SeqEqual

(* The text parsed is the beginning of the text pending; of this, off      *)
(* characters are in the receive buffer.                                   *)
Ahead == IF recvState = "accepted" THEN 0 ELSE Len(bufferRecv)

PendingParts(c, n) ==
  /\ Ahead \in Nat
  /\ Pending(c) \in Seq(Char) /\ Len(Pending(c)) = Ahead + Len(unread[c])
  /\ \A i \in 1 .. Len(unread[c]) : Pending(c)[Ahead + i] = unread[c][i]
  /\ \A i \in 1 .. Ahead : Pending(c)[i] # End
  /\ Text(Delivered(c, n)) = SubSeq(Pending(c), 1, Ahead + n)
  /\ SubSeq(unread[c], n + 1, Len(unread[c])) = SubSeq(Pending(c), Ahead + n + 1, Len(Pending(c)))

(* The text pending is what is parsed and what is left unread. *)
LEMMA PartsOfPending ==
  ASSUME StreamTypes, NEW c \in Clients, NEW n \in DOMAIN unread[c]
  PROVE  PendingParts(c, n)
<1> DEFINE r == unread[c]  d == Delivered(c, n)  b == bufferRecv  l == Len(r)  k == Len(b)
           e == SubSeq(r, n + 1, l)
<1>1. /\ n \in Nat /\ n >= 1 /\ n <= l /\ r \in Seq(Char)
      /\ d \in Seq(Char) /\ Len(d) = n
      /\ \A i \in 1 .. n : d[i] = r[i]
      /\ e \in Seq(Char)
      /\ Len(e) = l - n
      /\ \A i \in 1 .. l - n : e[i] = r[n + i]
  BY DeliveredIs
<1>2. b \in Seq(Char \ {End})
  BY DEF StreamTypes, TypeOK
<1>3. b \in Seq(Char) /\ k \in Nat /\ l \in Nat /\ \A i \in 1 .. k : b[i] # End
  BY <1>1, <1>2
<1>4. CASE recvState = "accepted"
  <2>1. Ahead = 0 /\ Pending(c) = r /\ Text(d) = d
    BY <1>4 DEF Ahead, Pending, Text
  <2>2. d = SubSeq(r, 1, 0 + n) /\ e = SubSeq(r, 0 + n + 1, l)
    BY <1>1 DEF Delivered
  <2>3. \A i \in 1 .. l : r[0 + i] = r[i]
    BY <1>3
  <2>4. l = 0 + l
    BY <1>3
  <2> HIDE DEF r, d, e, b, k
  <2>5. /\ 0 \in Nat /\ r \in Seq(Char) /\ l = 0 + l
        /\ \A i \in 1 .. l : r[0 + i] = r[i]
        /\ \A i \in 1 .. 0 : r[i] # End
    BY <1>1, <2>3, <2>4
  <2> QED
    BY <2>1, <2>2, <2>5 DEF PendingParts, r, d, e
<1>5. CASE recvState # "accepted"
  <2> DEFINE t == Cat(b, r)
  <2>1. Ahead = k /\ Pending(c) = t /\ Text(d) = Cat(b, d)
    BY <1>5 DEF Ahead, Pending, Text, Cat
  <2> HIDE DEF d, e, l, k, b, r
  <2>2. Line(b, k) /\ Line(r, l) /\ Line(d, n)
    BY <1>1, <1>3 DEF Line, k, l
  <2>3. /\ Line(t, k + l)
        /\ \A i \in 1 .. k : t[i] = b[i]
        /\ \A i \in 1 .. l : t[k + i] = r[i]
    BY <1>3, <2>2, LinesJoined
  <2> DEFINE u == Cat(b, d)
  <2>4. /\ Line(u, k + n)
        /\ \A i \in 1 .. k : u[i] = b[i]
        /\ \A i \in 1 .. n : u[k + i] = d[i]
    BY <1>1, <1>3, <2>2, LinesJoined
  <2> HIDE DEF t, u
  <2>5. t \in Seq(Char) /\ Len(t) = k + l /\ u \in Seq(Char) /\ Len(u) = k + n
    BY <2>3, <2>4 DEF Line
  <2>6. k + n \in 0 .. Len(t) /\ k + n \in Nat
    BY <1>1, <1>3, <2>5
  <2>7. u = SubSeq(t, 1, k + n)
    <3> DEFINE m == k + n  z == SubSeq(t, 1, m)
    <3>1. z \in Seq(Char) /\ Len(z) = m /\ \A i \in 1 .. m : z[i] = t[i]
      BY <2>5, <2>6, PrefixIs
    <3> HIDE DEF z
    <3>2. ASSUME NEW i \in 1 .. m
          PROVE  u[i] = t[i]
      <4>1. CASE i <= k
        <5>1. i \in 1 .. k
          BY <1>3, <4>1
        <5> QED
          BY <2>3, <2>4, <5>1
      <4>2. CASE i > k
        <5> DEFINE h == i - k
        <5>1. h \in 1 .. n /\ h \in 1 .. l /\ k + h = i
          BY <1>1, <1>3, <4>2
        <5> HIDE DEF h
        <5>2. u[k + h] = d[h] /\ t[k + h] = r[h] /\ d[h] = r[h]
          BY <1>1, <2>3, <2>4, <5>1
        <5> QED
          BY <5>1, <5>2
      <4>3. i <= k \/ i > k
        BY <1>3
      <4> QED
        BY <4>1, <4>2, <4>3
    <3>3. m \in Nat /\ Len(u) = m
      BY <2>5, <2>6
    <3>4. \A i \in 1 .. m : u[i] = z[i]
      BY <3>1, <3>2
    <3> HIDE DEF m
    <3>5. u = z
      BY <2>5, <3>1, <3>3, <3>4, SameText
    <3> QED
      BY <3>5 DEF z, m
  <2>8. e = SubSeq(t, k + n + 1, Len(t))
    <3> DEFINE m == k + n  z == SubSeq(t, m + 1, Len(t))
    <3>1. z \in Seq(Char) /\ Len(z) = Len(t) - m /\ \A i \in 1 .. Len(z) : z[i] = t[m + i]
      BY <2>5, <2>6, TailIs, ZenonT(30)
    <3> HIDE DEF z
    <3>2. Len(z) = l - n /\ l - n \in Nat
      BY <1>1, <1>3, <2>5, <3>1
    <3>3. ASSUME NEW i \in 1 .. l - n
          PROVE  e[i] = z[i]
      <4> DEFINE h == n + i
      <4>1. h \in 1 .. l /\ m + i = k + h
        BY <1>1, <1>3
      <4> HIDE DEF h
      <4>2. z[i] = t[k + h] /\ t[k + h] = r[h]
        BY <2>3, <3>1, <3>2, <4>1
      <4> QED
        BY <1>1, <4>2 DEF h
    <3> DEFINE y == l - n
    <3>4. Len(z) = y /\ y \in Nat /\ Len(e) = y /\ \A i \in 1 .. y : e[i] = z[i]
      BY <1>1, <3>2, <3>3
    <3> HIDE DEF y
    <3>5. e = z
      BY <1>1, <3>1, <3>4, SameText
    <3> QED
      BY <3>5 DEF z
  <2>9. \A i \in 1 .. k : t[i] # End
    BY <1>3, <2>3
  <2> QED
    BY <1>3, <2>1, <2>3, <2>5, <2>7, <2>8, <2>9 DEF PendingParts, u, r, d, e, l
<1> QED
  BY <1>4, <1>5

(* What a segment leaves: the messages up to j have ended, and the text    *)
(* pending is that of the others.                                          *)
Onward(c, n, w, lo, j) ==
  /\ j \in lo .. Len(w)
  /\ Extract(Text(Delivered(c, n))) = Part(w, lo, j)
  /\ Cardinality(Ends(Delivered(c, n))) = j - lo
  /\ \E q : Cuts(Kept(Text(Delivered(c, n)), bufferRecv) \o SubSeq(unread[c], n + 1, Len(unread[c])), w, j, q)

(* From a text cut into messages, a segment leaves a text cut into          *)
(* messages.                                                                *)
LEMMA GoesOn ==
  ASSUME StreamTypes, NEW c \in Clients, NEW n \in DOMAIN unread[c],
         NEW w, NEW lo, Written(w, lo),
         NEW p, Cuts(Pending(c), w, lo, p), ~Stale(Delivered(c, n))
  PROVE  \E j \in lo .. Len(w) : Onward(c, n, w, lo, j)
<1> DEFINE t == Pending(c)  a == Ahead  m == a + n  u == Text(Delivered(c, n))
           r == unread[c]  d == Delivered(c, n)
<1>1. /\ n \in Nat /\ n >= 1 /\ n <= Len(r) /\ r \in Seq(Char)
      /\ d \in Seq(Char) /\ Len(d) = n
      /\ \A i \in 1 .. n : d[i] = r[i]
  BY DeliveredIs
<1>2. /\ a \in Nat
      /\ t \in Seq(Char) /\ Len(t) = a + Len(r)
      /\ \A i \in 1 .. Len(r) : t[a + i] = r[i]
      /\ \A i \in 1 .. a : t[i] # End
      /\ u = SubSeq(t, 1, m)
      /\ SubSeq(r, n + 1, Len(r)) = SubSeq(t, m + 1, Len(t))
  BY PartsOfPending DEF PendingParts
<1>3. Cuts(t, w, lo, p)
  OBVIOUS
<1>4. m = 1 /\ t[1] # Start => bufferRecv = <<>>
  <2> SUFFICES ASSUME m = 1, t[1] # Start
               PROVE  bufferRecv = <<>>
    OBVIOUS
  <2>1. a = 0 /\ n = 1
    BY <1>1, <1>2
  <2>2. CASE recvState = "accepted"
    <3>1. \A i \in DOMAIN d : d[i] # Start
      <4>1. DOMAIN d = {1}
        BY <1>1, <2>1
      <4>2. 1 \in 1 .. n /\ 1 \in 1 .. Len(r) /\ a + 1 = 1
        BY <1>1, <2>1
      <4>3. d[1] = t[1]
        BY <1>1, <1>2, <4>2
      <4> QED
        BY <4>1, <4>3
    <3> QED
      BY <2>2, <3>1 DEF Stale
  <2>3. CASE recvState # "accepted"
    <3>1. Len(bufferRecv) = 0
      BY <2>1, <2>3 DEF Ahead
    <3> QED
      BY <3>1 DEF StreamTypes, TypeOK
  <2> QED
    BY <2>2, <2>3
<1> HIDE DEF t, a, u, r, d
<1>5. m \in 1 .. Len(t) /\ m \in 0 .. Len(t) /\ a \in 0 .. m /\ Len(t) \in Nat
  BY <1>1, <1>2
<1>6. n = m - a
  BY <1>1, <1>2
<1> HIDE DEF m
<1>7. PICK st : Marked(t, w, lo, p, st)
  BY <1>2, <1>3, Marking
<1>8. PICK j : Last(t, w, lo, p, m, j)
  <2>1. \E j \in lo .. Len(w) :
           /\ p[j] \in Nat /\ p[j] <= m /\ j \in Nat
           /\ j < Len(w) => j + 1 \in lo + 1 .. Len(w) /\ m < p[j + 1] /\ p[j + 1] \in Nat
           /\ j = Len(w) => m = Len(t)
           /\ \A l \in lo .. Len(w) : p[l] <= m <=> l <= j
    BY <1>5, <1>7, LastEnd
  <2> QED
    BY <2>1 DEF Last
<1>9. j \in lo .. Len(w)
  BY <1>8 DEF Last
<1>10. Extract(u) = Part(w, lo, j)
  <2>1. Fetched(u, w, lo, j)
    BY <1>2, <1>5, <1>7, <1>8, Extracted
  <2> QED
    BY <2>1 DEF Fetched
<1>11. Cardinality(Ends(d)) = j - lo
  <2>1. ASSUME NEW i \in 1 .. m - a
        PROVE  d[i] = t[a + i]
    <3>1. i \in 1 .. n /\ i \in 1 .. Len(r)
      BY <1>1, <1>6
    <3> QED
      BY <1>1, <1>2, <3>1
  <2>2. d \in Seq(Char) /\ Len(d) = m - a
    BY <1>1, <1>6
  <2>3. Behind(t, d, a, m)
    BY <1>2, <2>1, <2>2 DEF Behind
  <2> QED
    BY <1>2, <1>5, <1>7, <1>8, <2>3, EndsBehind
<1>12. KeptFrom(t, w, p, st, j, m, Kept(u, bufferRecv))
  BY <1>2, <1>4, <1>5, <1>7, <1>8, KeptIs
<1>13. PICK x \in 0 .. m : CutPoint(w, p, st, j, x) /\ Kept(u, bufferRecv) = SubSeq(t, x + 1, m)
  BY <1>12 DEF KeptFrom
<1> DEFINE rest == SubSeq(t, x + 1, Len(t))
<1>14. SubSeq(t, x + 1, m) \o SubSeq(t, m + 1, Len(t)) = rest
  <2>1. x + 1 \in 1 .. Len(t) + 1 /\ m \in (x + 1) - 1 .. Len(t) /\ Len(t) \in m .. Len(t)
    BY <1>5
  <2> QED
    BY <1>2, <2>1, ConcatAdjacentSubSeq
<1>15. /\ rest \in Seq(Char) /\ Len(rest) = Len(t) - x
       /\ \A i \in 1 .. Len(rest) : rest[i] = t[x + i]
  <2>1. x \in 0 .. Len(t)
    BY <1>5
  <2> QED
    BY <1>2, <2>1, TailIs, SMTT(30)
<1>16. Kept(u, bufferRecv) \o SubSeq(r, n + 1, Len(r)) = rest
  BY <1>2, <1>13, <1>14
<1> HIDE DEF rest
<1>17. \E q : Cuts(rest, w, j, q)
  <2>1. Rest(t, rest, x)
    BY <1>15 DEF Rest
  <2> QED
    BY <1>2, <1>5, <1>7, <1>8, <1>13, <2>1, CutBehind
<1> QED
  BY <1>9, <1>10, <1>11, <1>16, <1>17 DEF Onward, u, r, d

(* Frames put behind those put before. *)
LEMMA PartJoined ==
  ASSUME NEW w \in Seq(Frames), NEW lo \in 0 .. Len(w), NEW j \in lo .. Len(w)
  PROVE  SubSeq(w, 1, lo) \o Part(w, lo, j) = SubSeq(w, 1, j)
<1> DEFINE l == Len(w)  y == Part(w, lo, j)  z == SubSeq(w, lo + 1, j)  h == j - lo
<1>1. l \in Nat /\ lo \in Nat /\ j \in Nat /\ lo <= j /\ j <= l /\ h \in Nat /\ lo + h = j
  OBVIOUS
<1>2. \A i \in 1 .. l : w[i] \in Frames
  OBVIOUS
<1>3. \A i \in 1 .. h : lo + i \in 1 .. l
  BY <1>1
<1>4. y \in Seq(Frames) /\ Len(y) = h /\ \A i \in 1 .. h : y[i] = w[lo + i]
  <2>1. y \in [1 .. h -> Frames]
    BY <1>2, <1>3 DEF Part
  <2>2. \A i \in 1 .. h : y[i] = w[lo + i]
    BY DEF Part
  <2> HIDE DEF y, h
  <2> QED
    BY <1>1, <2>1, <2>2
<1>5. z \in Seq(Frames) /\ Len(z) = h /\ \A i \in 1 .. h : z[i] = w[lo + i]
  <2>1. \A i \in lo + 1 .. j : w[i] \in Frames
    BY <1>1, <1>2
  <2>2. lo + 1 \in Int /\ j \in Int
    BY <1>1
  <2>3. /\ z \in Seq(Frames) /\ Len(z) = IF lo + 1 <= j THEN j - (lo + 1) + 1 ELSE 0
        /\ \A i \in 1 .. j - (lo + 1) + 1 : z[i] = w[(lo + 1) + i - 1]
    BY <2>1, <2>2, SubSeqProperties
  <2>4. /\ j - (lo + 1) + 1 = h /\ (IF lo + 1 <= j THEN j - (lo + 1) + 1 ELSE 0) = h
        /\ \A i \in 1 .. h : (lo + 1) + i - 1 = lo + i
    BY <1>1
  <2> HIDE DEF z, h
  <2> QED
    BY <2>3, <2>4
<1>6. y = z
  <2> HIDE DEF y, z, h
  <2>1. Len(y) = Len(z) /\ \A i \in 1 .. Len(y) : y[i] = z[i]
    BY <1>4, <1>5
  <2> QED
    BY <1>4, <1>5, <2>1, SeqEqual
<1>7. 1 \in 1 .. Len(w) + 1 /\ lo \in 1 - 1 .. Len(w) /\ j \in lo .. Len(w)
  BY <1>1
<1>8. SubSeq(w, 1, lo) \o SubSeq(w, lo + 1, j) = SubSeq(w, 1, j)
  BY <1>7, ConcatAdjacentSubSeq
<1> QED
  BY <1>6, <1>8

(* What is written can be encoded. *)
LEMMA WrittenIs ==
  ASSUME NEW w \in Seq(Frames), NEW lo \in 0 .. Len(w)
  PROVE  Written(w, lo)
<1>1. \A k \in 1 .. Len(w) : w[k] \in Frames
  OBVIOUS
<1>2. Len(w) \in Nat
  OBVIOUS
<1> QED
  BY <1>1, <1>2, StreamAssumption DEF Written

(* A client that is served, while nothing has disturbed the stream. *)
LEMMA Served ==
  ASSUME StreamIInv, ~disturbed, NEW c \in Clients, c \in live
  PROVE  /\ live = {c} /\ Aligned(c) /\ recvState \in {"accepted", "received"}
         /\ ended \in 0 .. Len(written) /\ queued = SubSeq(written, 1, ended)
         /\ written \in Seq(Frames) /\ unread[c] \in Seq(Char)
         /\ bufferRecv \in Seq(Char)
<1>1. /\ ended \in 0 .. Len(written) /\ queued = SubSeq(written, 1, ended)
      /\ recvState \in {"none", "closing"} => live = {}
      /\ recvState \in {"accepted", "received"} => \E e \in Clients : live = {e} /\ Aligned(e)
  BY DEF StreamIInv, Following
<1>2. /\ recvState \in {"none", "accepted", "received", "closing"}
      /\ written \in Seq(Frames) /\ unread[c] \in Seq(Char) /\ bufferRecv \in Seq(Char)
  BY DEF StreamIInv, StreamTypes, TypeOK
<1>3. recvState \in {"accepted", "received"}
  BY <1>1, <1>2
<1>4. PICK e \in Clients : live = {e} /\ Aligned(e)
  BY <1>1, <1>3
<1>5. e = c
  BY <1>4
<1> QED
  BY <1>1, <1>2, <1>3, <1>4, <1>5

(* No action breaks the rest of the invariant, beginning with a new         *)
(* client.                                                                  *)
LEMMA AcceptFollows ==
  ASSUME StreamIInv, NEW c \in Clients, ServerAccept(c)
  PROVE  Following' /\ Silent'
<1>1. Silent'
  BY DEF StreamIInv, Silent, ServerAccept
<1>2. ASSUME ~disturbed'
      PROVE  /\ ended' \in 0 .. Len(written') /\ queued' = SubSeq(written', 1, ended')
             /\ live' = {c} /\ recvState' = "accepted" /\ Aligned(c)'
  <2>1. live = {} /\ live' = {c} /\ recvState' = "accepted"
    BY <1>2 DEF ServerAccept, Alone
  <2>2. unread[c] = <<>> /\ unread' = unread
    BY <2>1 DEF StreamIInv, Silent, ServerAccept
  <2>3. written' = <<>> /\ ended' = 0 /\ queued' = <<>>
    BY DEF ServerAccept
  <2>4. Pending(c)' = <<>>
    BY <2>1, <2>2 DEF Pending
  <2> DEFINE p == [k \in 0 .. 0 |-> 0]
  <2>5. Cuts(<<>>, <<>>, 0, p)
    <3>1. /\ p \in [0 .. Len(<<>>) -> Nat] /\ p[0] = 0 /\ p[Len(<<>>)] = Len(<<>>)
      OBVIOUS
    <3> HIDE DEF p
    <3>2. \A k \in 0 + 1 .. Len(<<>>) : FALSE
      OBVIOUS
    <3>3. \A j, k \in 0 .. Len(<<>>) : ~(j < k)
      OBVIOUS
    <3>4. \A i \in 1 .. Len(<<>>) : FALSE
      OBVIOUS
    <3> QED
      BY <3>1, <3>2, <3>3, <3>4 DEF Cuts
  <2> HIDE DEF p
  <2>6. \E q : Cuts(Pending(c)', written', ended', q)
    BY <2>3, <2>4, <2>5
  <2>7. ended' \in 0 .. Len(written') /\ queued' = SubSeq(written', 1, ended')
    BY <2>3
  <2> QED
    BY <2>1, <2>6, <2>7 DEF Aligned
<1> QED
  BY <1>1, <1>2 DEF Following

LEMMA WriteFollows ==
  ASSUME StreamIInv, NEW c \in Clients, NEW f \in Frames, ClientWrites(c, f)
  PROVE  Following' /\ Silent'
<1>1. Silent'
  <2>1. c \in live /\ live' = live /\ \A d \in Clients \ {c} : unread'[d] = unread[d]
    BY DEF ClientWrites, StreamIInv, StreamTypes, TypeOK
  <2> QED
    BY <2>1 DEF StreamIInv, Silent
<1>2. ASSUME ~disturbed'
      PROVE  /\ ended' \in 0 .. Len(written') /\ queued' = SubSeq(written', 1, ended')
             /\ live' = {c} /\ recvState' \in {"accepted", "received"} /\ Aligned(c)'
  <2>1. ~disturbed /\ c \in live
    BY <1>2 DEF ClientWrites
  <2>2. /\ live = {c} /\ Aligned(c) /\ recvState \in {"accepted", "received"}
        /\ ended \in 0 .. Len(written) /\ queued = SubSeq(written, 1, ended)
        /\ written \in Seq(Frames) /\ unread[c] \in Seq(Char)
        /\ bufferRecv \in Seq(Char)
    BY <2>1, Served
  <2>3. /\ live' = live /\ recvState' = recvState /\ ended' = ended /\ queued' = queued
        /\ bufferRecv' = bufferRecv /\ written' = Append(written, f)
    BY DEF ClientWrites
  <2> DEFINE m == EncodeGC(f)  r == unread[c]  t == Pending(c)
  <2>4. PICK before \in {<<>>, <<Other>>} : unread' = [unread EXCEPT ![c] = @ \o before \o m]
    BY DEF ClientWrites
  <2>5. m \in Seq(Char)
    <3>1. Encodable(f)
      BY StreamAssumption
    <3> QED
      BY <3>1, MessageIs
  <2>6. unread'[c] = (r \o before) \o m
    BY <2>4 DEF StreamIInv, StreamTypes, TypeOK
  <2>7. t \in Seq(Char) /\ Pending(c)' = (t \o before) \o m
    <3>1. CASE recvState = "accepted"
      BY <2>2, <2>3, <2>6, <3>1 DEF Pending
    <3>2. CASE recvState # "accepted"
      <4> DEFINE b == bufferRecv
      <4>1. t = b \o r /\ Pending(c)' = b \o ((r \o before) \o m)
        BY <2>3, <2>6, <3>2 DEF Pending
      <4>2. before \in Seq(Char)
        <5>1. <<>> \in Seq(Char) /\ <<Other>> \in Seq(Char)
          OBVIOUS
        <5> QED
          BY <5>1
      <4> HIDE DEF b, r, m, t
      <4>3. b \in Seq(Char) /\ r \in Seq(Char) /\ m \in Seq(Char)
        BY <2>2, <2>5 DEF b, r
      <4> DEFINE y == r \o before  z == b \o r
      <4>4. y \in Seq(Char) /\ z \in Seq(Char)
        BY <4>2, <4>3
      <4>5. z \o before = b \o y
        BY <4>2, <4>3, ConcatAssociative
      <4> HIDE DEF y
      <4>6. (b \o y) \o m = b \o (y \o m)
        BY <4>3, <4>4, ConcatAssociative
      <4> QED
        BY <4>1, <4>4, <4>5, <4>6 DEF y
    <3> QED
      BY <3>1, <3>2
  <2> DEFINE longer == (t \o before) \o m
  <2>8. Lengthened(t, m, longer)
    <3> HIDE DEF t, m
    <3> QED
      BY <2>5, <2>7, Lengthening
  <2>9. PICK p : Cuts(t, written, ended, p)
    BY <2>2 DEF Aligned
  <2> HIDE DEF t, longer
  <2>10. \E q : Cuts(longer, Append(written, f), ended, q)
    BY <2>2, <2>7, <2>8, <2>9, CutLonger
  <2>11. Aligned(c)'
    BY <2>3, <2>7, <2>10 DEF Aligned, longer
  <2>12. ended' \in 0 .. Len(written') /\ queued' = SubSeq(written', 1, ended')
    <3> DEFINE w == written  w2 == Append(w, f)
    <3>1. /\ w2 \in Seq(Frames) /\ Len(w2) = Len(w) + 1 /\ Len(w) \in Nat
          /\ \A i \in 1 .. Len(w) : w2[i] = w[i]
      BY <2>2
    <3>2. ended \in 0 .. Len(w2) /\ ended \in Nat
      BY <2>2, <3>1
    <3> HIDE DEF w2
    <3>3. SubSeq(w, 1, ended) = SubSeq(w2, 1, ended)
      <4>1. /\ SubSeq(w, 1, ended) \in Seq(Frames) /\ Len(SubSeq(w, 1, ended)) = ended
            /\ \A i \in 1 .. ended : SubSeq(w, 1, ended)[i] = w[i]
        BY <2>2
      <4>2. /\ SubSeq(w2, 1, ended) \in Seq(Frames) /\ Len(SubSeq(w2, 1, ended)) = ended
            /\ \A i \in 1 .. ended : SubSeq(w2, 1, ended)[i] = w2[i]
        BY <3>1, <3>2
      <4> DEFINE y == SubSeq(w, 1, ended)  z == SubSeq(w2, 1, ended)
      <4>3. \A i \in 1 .. ended : i \in 1 .. Len(w)
        BY <2>2, <3>1
      <4> HIDE DEF y, z
      <4>4. \A i \in 1 .. ended : y[i] = z[i]
        BY <3>1, <4>1, <4>2, <4>3 DEF y, z
      <4>5. y \in Seq(Frames) /\ z \in Seq(Frames) /\ Len(y) = Len(z) /\ \A i \in 1 .. Len(y) : y[i] = z[i]
        BY <4>1, <4>2, <4>4 DEF y, z
      <4>6. y = z
        BY <4>5, SeqEqual
      <4> QED
        BY <4>6 DEF y, z
    <3> QED
      BY <2>2, <2>3, <3>2, <3>3 DEF w2
  <2> QED
    BY <2>2, <2>3, <2>11, <2>12
<1> QED
  BY <1>1, <1>2 DEF Following

LEMMA RecvFollows ==
  ASSUME StreamIInv, NEW c \in Clients, NEW n \in DOMAIN unread[c], Recv(c, n)
  PROVE  Following' /\ Silent'
<1>1. Silent'
  <2>1. c \in live /\ live' = live /\ \A d \in Clients \ {c} : unread'[d] = unread[d]
    BY DEF Recv, StreamIInv, StreamTypes, TypeOK
  <2> QED
    BY <2>1 DEF StreamIInv, Silent
<1>2. ASSUME ~disturbed'
      PROVE  /\ ended' \in 0 .. Len(written') /\ queued' = SubSeq(written', 1, ended')
             /\ live' = {c} /\ recvState' = "received" /\ Aligned(c)'
  <2>1. ~disturbed /\ c \in live /\ ~Stale(Delivered(c, n))
    BY <1>2 DEF Recv
  <2>2. /\ live = {c} /\ Aligned(c)
        /\ ended \in 0 .. Len(written) /\ queued = SubSeq(written, 1, ended)
        /\ written \in Seq(Frames)
    BY <2>1, Served
  <2>3. PICK p : Cuts(Pending(c), written, ended, p)
    BY <2>2 DEF Aligned
  <2>4. Written(written, ended)
    BY <2>2, WrittenIs
  <2>5. StreamTypes
    BY DEF StreamIInv
  <2>6. PICK j \in ended .. Len(written) : Onward(c, n, written, ended, j)
    BY <2>1, <2>3, <2>4, <2>5, GoesOn
  <2>7. /\ live' = live /\ recvState' = "received" /\ written' = written
        /\ queued' = queued \o Extract(Text(Delivered(c, n)))
        /\ ended' = ended + Cardinality(Ends(Delivered(c, n)))
        /\ bufferRecv' = Kept(Text(Delivered(c, n)), bufferRecv)
    BY DEF Recv
  <2>8. unread'[c] = SubSeq(unread[c], n + 1, Len(unread[c]))
    BY DEF Recv, StreamIInv, StreamTypes, TypeOK
  <2>9. ended' = j
    BY <2>2, <2>6, <2>7 DEF Onward
  <2>10. queued' = SubSeq(written, 1, j)
    <3>1. queued' = SubSeq(written, 1, ended) \o Part(written, ended, j)
      BY <2>2, <2>6, <2>7 DEF Onward
    <3> QED
      BY <2>2, <3>1, PartJoined
  <2>11. Pending(c)' = Kept(Text(Delivered(c, n)), bufferRecv) \o SubSeq(unread[c], n + 1, Len(unread[c]))
    BY <2>7, <2>8 DEF Pending
  <2>12. \E q : Cuts(Pending(c)', written', ended', q)
    BY <2>6, <2>7, <2>9, <2>11 DEF Onward
  <2>13. j \in 0 .. Len(written)
    BY <2>2
  <2> QED
    BY <2>2, <2>7, <2>9, <2>10, <2>12, <2>13 DEF Aligned
<1> QED
  BY <1>1, <1>2 DEF Following

LEMMA NoMemoryFollows ==
  ASSUME StreamIInv, NEW c \in Clients, NoMemory(c)
  PROVE  Following' /\ Silent'
<1>1. disturbed' = TRUE
  BY DEF NoMemory
<1>2. c \in live /\ live' = live /\ \A d \in Clients \ {c} : unread'[d] = unread[d]
  BY DEF NoMemory, StreamIInv, StreamTypes, TypeOK
<1> QED
  BY <1>1, <1>2 DEF StreamIInv, Silent, Following

LEMMA TrashFollows ==
  ASSUME StreamIInv, NEW c \in Clients, NEW n \in DOMAIN unread[c], Trash(c, n)
  PROVE  Following' /\ Silent'
<1>1. /\ c \in live /\ live' = live /\ recvState = "closing"
      /\ \A d \in Clients \ {c} : unread'[d] = unread[d]
  BY DEF Trash, StreamIInv, StreamTypes, TypeOK
<1>2. disturbed /\ disturbed' = disturbed
  BY <1>1 DEF Trash, StreamIInv, Following
<1> QED
  BY <1>1, <1>2 DEF StreamIInv, Silent, Following

LEMMA CloseFollows ==
  ASSUME StreamIInv, NEW c \in Clients, ClientCloses(c)
  PROVE  Following' /\ Silent'
<1>1. /\ unread'[c] = <<>> /\ \A d \in Clients \ {c} : unread'[d] = unread[d]
      /\ live' = live \ {c}
  BY DEF ClientCloses, StreamIInv, StreamTypes, TypeOK
<1>2. Silent'
  BY <1>1 DEF StreamIInv, Silent
<1>3. ASSUME ~disturbed'
      PROVE  /\ ended' \in 0 .. Len(written') /\ queued' = SubSeq(written', 1, ended')
             /\ live' = {} /\ recvState' = "closing"
  <2>1. ~disturbed /\ c \in live
    BY <1>3 DEF ClientCloses
  <2>2. live = {c} /\ ended \in 0 .. Len(written) /\ queued = SubSeq(written, 1, ended)
    BY <2>1, Served
  <2> QED
    BY <1>1, <2>2 DEF ClientCloses
<1> QED
  BY <1>2, <1>3 DEF Following

LEMMA StutterFollows ==
  ASSUME StreamIInv, UNCHANGED streamVars
  PROVE  Following' /\ Silent'
BY DEF StreamIInv, Following, Silent, Aligned, Pending, streamVars

(* The invariant is inductive. *)
LEMMA StreamInductive == StreamIInv /\ [StreamNext]_streamVars => StreamIInv'
<1> SUFFICES ASSUME StreamIInv, [StreamNext]_streamVars
             PROVE  StreamIInv'
  OBVIOUS
<1>1. StreamTypes'
  BY TypesKept DEF StreamIInv
<1>2. Following' /\ Silent'
  <2>1. CASE UNCHANGED streamVars
    BY <2>1, StutterFollows
  <2>2. CASE StreamNext
    <3>1. PICK c \in Clients :
            \/ ServerAccept(c)
            \/ \E f \in Frames : ClientWrites(c, f)
            \/ \E n \in DOMAIN unread[c] : Recv(c, n) \/ Trash(c, n)
            \/ NoMemory(c)
            \/ ClientCloses(c)
      BY <2>2 DEF StreamNext
    <3>2. CASE ServerAccept(c)
      BY <3>2, AcceptFollows
    <3>3. ASSUME NEW f \in Frames, ClientWrites(c, f)
          PROVE  Following' /\ Silent'
      BY <3>3, WriteFollows
    <3>4. ASSUME NEW n \in DOMAIN unread[c], Recv(c, n)
          PROVE  Following' /\ Silent'
      BY <3>4, RecvFollows
    <3>5. ASSUME NEW n \in DOMAIN unread[c], Trash(c, n)
          PROVE  Following' /\ Silent'
      BY <3>5, TrashFollows
    <3>6. CASE NoMemory(c)
      BY <3>6, NoMemoryFollows
    <3>7. CASE ClientCloses(c)
      BY <3>7, CloseFollows
    <3> QED
      BY <3>1, <3>2, <3>3, <3>4, <3>5, <3>6, <3>7
  <2> QED
    BY <2>1, <2>2
<1> QED
  BY <1>1, <1>2 DEF StreamIInv

(* What is kept between segments is at most a message, starts with the     *)
(* delimiter that starts one and does not hold the one that ends it,       *)
(* whatever the clients do and whatever fails.                             *)
THEOREM StreamTypeCorrect == StreamSpec => []TypeOK
<1>1. StreamTypes => TypeOK
  BY DEF StreamTypes
<1>2. StreamInit => StreamTypes
  BY StreamStarts DEF StreamIInv
<1> QED
  BY <1>1, <1>2, TypesKept, PTL DEF StreamSpec

(* However TCP cuts the text, the frames queued for the node are those the *)
(* client has sent to the end, whole, once and in order, unless a failed   *)
(* allocation, a second client at the same time or a stale partial message *)
(* has disturbed the stream.                                               *)
THEOREM QueuedExactly == StreamSpec => []AllQueued
<1>1. StreamIInv => AllQueued
  BY DEF StreamIInv, Following, AllQueued
<1> QED
  BY <1>1, StreamStarts, StreamInductive, PTL DEF StreamSpec
=============================================================================
