------------------------------ MODULE Gateway ------------------------------
(***************************************************************************)
(* The message loop process() with its three queues, and the sending half  *)
(* of the GridConnect server, to which it forwards the frames it takes     *)
(* from the CAN bus.  The server's callbacks come from lwIP at any point   *)
(* of the loop outside the lock that serverSend() holds.                   *)
(*                                                                         *)
(* A frame of the bus or of the client is its number; one that the node    *)
(* sends itself is minus its number.  A connection is the number of its    *)
(* control block, in order of connecting; 0 is nullptr.  A message in      *)
(* GridConnect text takes one unit of TCP's send buffer.                   *)
(***************************************************************************)
EXTENDS Integers, Sequences

CONSTANTS RingSize,       \* frames the CAN receive ring holds
          SndBuf,         \* messages TCP's send buffer holds
          MaxCan,         \* bound: frames received from the bus
          MaxGc,          \* bound: frames received from the client
          MaxOwn,         \* bound: frames the node sends of its own
          MaxConns,       \* bound: connections
          MaxPoolFails    \* bound: failures of tcp_write with room in its buffer

ASSUME GatewayAssumption ==
    /\ RingSize \in Nat \ {0} /\ SndBuf \in Nat \ {0}
    /\ {MaxCan, MaxGc, MaxOwn, MaxConns, MaxPoolFails} \subseteq Nat

Pcb == 1 .. MaxConns
Null == 0
NoFrame == 0

VARIABLES
    ring,         \* the receive ring
    gcq, coe,     \* m_pCANBuffer; the frames of coe_buff
    pc,           \* the loop: "idle", "pull" after canSend(), "handle" with a frame
                  \* to parse and answer, "write" before the lock
    hand, tpcb,   \* the frame and the control block serverSend() is called with
    after,        \* where the loop goes on when it returns
    pClientCB, clientState, bufferSent,   \* of m_tcpServer
    listening,    \* m_pServerCB is not null
    nullSnd,      \* what canSend() makes of a null client, the same every time
    alive,        \* control blocks lwIP has not freed
    installed,    \* of these, the ones with serverSent as a callback
    inflight,     \* the messages in each one's send buffer
    arrived, fromClient, own, conns, poolFails,   \* histories, counted
    departed,     \* history: the connections whose client has closed its side
    refused,      \* history: TCP had no memory for a message
    due,          \* history, while Smooth: the frames serverSend() is called with
    wire,         \* history, while Smooth: the messages TCP took
    wild          \* history: a freed or null control block was written through

loop == <<ring, gcq, coe, pc, hand, tpcb, after>>
server == <<pClientCB, clientState, listening, nullSnd>>
tcp == <<alive, installed, inflight>>
saving == <<bufferSent, poolFails, refused, wire, wild>>
counts == <<arrived, fromClient, own, conns>>
vars == <<loop, server, tcp, saving, counts, departed, due>>

Init ==
    /\ ring = <<>> /\ gcq = <<>> /\ coe = <<>>
    /\ pc = "idle" /\ hand = NoFrame /\ tpcb = Null /\ after = "idle"
    /\ pClientCB = Null /\ clientState = "none" /\ bufferSent = NoFrame
    /\ listening = TRUE /\ nullSnd \in BOOLEAN
    /\ alive = {} /\ installed = {} /\ inflight = [k \in Pcb |-> <<>>]
    /\ arrived = 0 /\ fromClient = 0 /\ own = 0 /\ conns = 0 /\ poolFails = 0
    /\ departed = {} /\ refused = FALSE /\ due = <<>> /\ wire = <<>> /\ wild = FALSE

(* one client, and TCP has had memory for every message *)
Smooth == conns = 1 /\ ~refused

Room(k) == Len(inflight[k]) < SndBuf

-----------------------------------------------------------------------------
(* serverSend(k, f), under the lock.  When TCP has no memory the frame is  *)
(* saved for serverPoll, over the one saved before.  k was read before the *)
(* lock was taken, and may have been freed since.                          *)
ServerSend(k, f) ==
    \/ /\ k \in alive /\ Room(k)
       /\ inflight' = [inflight EXCEPT ![k] = Append(@, f)]
       /\ wire' = IF Smooth THEN Append(wire, f) ELSE wire
       /\ UNCHANGED <<bufferSent, poolFails, refused, wild>>
    \/ /\ k \in alive /\ ~Room(k)
       /\ bufferSent' = f /\ refused' = TRUE
       /\ UNCHANGED <<inflight, poolFails, wire, wild>>
    \/ /\ k \in alive /\ Room(k) /\ poolFails < MaxPoolFails
       /\ bufferSent' = f /\ refused' = TRUE /\ poolFails' = poolFails + 1
       /\ UNCHANGED <<inflight, wire, wild>>
    \/ /\ k \notin alive
       /\ bufferSent' \in {bufferSent, f}
       /\ wild' = TRUE
       /\ UNCHANGED <<inflight, poolFails, refused, wire>>

(* sendCANFrame(f) up to the call of serverSend(), with a client *)
Hand(f, goOn) ==
    /\ pClientCB # Null
    /\ pc' = "write" /\ hand' = f /\ tpcb' = pClientCB /\ after' = goOn
    /\ due' = IF Smooth THEN Append(due, f) ELSE due

-----------------------------------------------------------------------------
(* The sources of frames. *)

(* notify_cb: a full ring drops its oldest frame *)
CanFrame ==
    /\ arrived < MaxCan
    /\ arrived' = arrived + 1
    /\ ring' = Append(IF Len(ring) < RingSize THEN ring ELSE Tail(ring), arrived + 1)
    /\ UNCHANGED <<gcq, coe, pc, hand, tpcb, after, server, tcp, saving, fromClient, own,
                   conns, departed, due>>

(* serverRecv, of text that holds one frame *)
GcFrame ==
    /\ fromClient < MaxGc
    /\ clientState = "open" /\ alive \ departed # {}
    /\ fromClient' = fromClient + 1
    /\ gcq' = Append(gcq, fromClient + 1)
    /\ UNCHANGED <<ring, coe, pc, hand, tpcb, after, server, tcp, saving, arrived, own,
                   conns, departed, due>>

(* sendMessage() when the transmitter has room, by FLiMSWCheck() or         *)
(* processEnumeration() between two frames or as the answer to the frame    *)
(* in hand; without asking canSend().                                       *)
OwnFrame ==
    /\ pc \in {"idle", "handle"} /\ own < MaxOwn
    /\ own' = own + 1
    /\ Hand(- own', pc)
    /\ UNCHANGED <<ring, gcq, coe, server, tcp, saving, arrived, fromClient, conns, departed>>

(* sendEventWithData() in the application or its handlers: queued for the  *)
(* node itself, then sent in the same way if the transmitter has room.     *)
OwnEvent ==
    /\ pc \in {"idle", "handle"} /\ own < MaxOwn
    /\ own' = own + 1
    /\ coe' = Append(coe, - own')
    /\ \/ UNCHANGED <<pc, hand, tpcb, after, due>>
       \/ Hand(- own', pc)
    /\ UNCHANGED <<ring, gcq, server, tcp, saving, arrived, fromClient, conns, departed>>

-----------------------------------------------------------------------------
(* The loop of process(). *)

TakeCoe ==
    /\ pc = "idle" /\ coe # <<>>
    /\ coe' = Tail(coe) /\ pc' = "handle"
    /\ UNCHANGED <<ring, gcq, hand, tpcb, after, server, tcp, saving, counts, departed, due>>

TakeGc ==
    /\ pc = "idle" /\ coe = <<>> /\ gcq # <<>>
    /\ gcq' = Tail(gcq) /\ pc' = "handle"
    /\ UNCHANGED <<ring, coe, hand, tpcb, after, server, tcp, saving, counts, departed, due>>

(* mutant: a buffer with exactly no room left will do *)
CanSendFull ==
    IF pClientCB = Null THEN nullSnd
    ELSE pClientCB \in alive => Len(inflight[pClientCB]) <= SndBuf

(* canSend(): of a freed control block, anything; of a null one, what      *)
(* happens to be at that address.                                          *)
CanSend ==
    IF pClientCB = Null THEN nullSnd
    ELSE pClientCB \in alive => Room(pClientCB)

(* While canSend() says no, the turn is used up and nothing changes. *)
CheckSend ==
    /\ pc = "idle" /\ coe = <<>> /\ gcq = <<>> /\ ring # <<>>
    /\ CanSend
    /\ pc' = "pull"
    /\ UNCHANGED <<ring, gcq, coe, hand, tpcb, after, server, tcp, saving, counts, departed, due>>

(* getNextMessage(), and sendCANFrame() up to the call of serverSend() *)
Pull ==
    /\ pc = "pull"
    /\ ring' = Tail(ring)
    /\ IF pClientCB = Null
       THEN pc' = "handle" /\ UNCHANGED <<hand, tpcb, after, due>>
       ELSE Hand(Head(ring), "handle")
    /\ UNCHANGED <<gcq, coe, server, tcp, saving, counts, departed>>

Write ==
    /\ pc = "write"
    /\ ServerSend(tpcb, hand)
    /\ pc' = after /\ hand' = NoFrame /\ tpcb' = Null /\ after' = "idle"
    /\ UNCHANGED <<ring, gcq, coe, server, alive, installed, counts, departed, due>>

(* the handlers and parseCBUSMsg() are done with the frame *)
Handled ==
    /\ pc = "handle"
    /\ pc' = "idle"
    /\ UNCHANGED <<ring, gcq, coe, hand, tpcb, after, server, tcp, saving, counts, departed, due>>

Loop == TakeCoe \/ TakeGc \/ CheckSend \/ Pull \/ Write \/ Handled

-----------------------------------------------------------------------------
(* The callbacks of lwIP. *)

(* lwIP frees control blocks, and what is in their buffers *)
Freed(ks) ==
    /\ alive' = alive \ ks /\ installed' = installed \ ks
    /\ inflight' = [k \in Pcb |-> IF k \in ks THEN <<>> ELSE inflight[k]]

(* serverCloseConn(k): the server forgets its client, whichever it is *)
CloseConn(k) == Freed({k}) /\ pClientCB' = Null

(* serverShutdown(), after lwIP has freed a control block: the client is    *)
(* closed, through whatever pointer the server has, and the listener for    *)
(* good.                                                                    *)
Shutdown(freed) ==
    /\ Freed({freed, pClientCB})
    /\ pClientCB' = Null
    /\ listening' = FALSE
    /\ wild' = (wild \/ (pClientCB # Null /\ pClientCB \notin alive \ {freed}))

(* serverAccept: nothing of the previous client is reset *)
Accept ==
    /\ listening /\ conns < MaxConns
    /\ conns' = conns + 1
    /\ pClientCB' = conns + 1 /\ alive' = alive \cup {conns + 1}
    /\ clientState' = "open"
    /\ UNCHANGED <<loop, saving, listening, nullSnd, installed, inflight, arrived,
                   fromClient, own, departed, due>>

(* serverAccept, called with an error: lwIP has no memory for the client *)
AcceptFails ==
    /\ listening /\ conns < MaxConns
    /\ Shutdown(Null)
    /\ UNCHANGED <<loop, clientState, nullSnd, bufferSent, poolFails, refused, wire, counts,
                   departed, due>>

(* mutant: an acknowledgement never clears the saved message *)
AckKeeps(k, n) ==
    /\ k \in alive /\ n \in DOMAIN inflight[k]
    /\ inflight' = [inflight EXCEPT ![k] = SubSeq(@, n + 1, Len(@))]
    /\ UNCHANGED <<loop, server, saving, alive, installed, counts, departed, due>>

(* The client acknowledges n messages.  serverSent counts the bytes since  *)
(* the last call of serverSend() and takes enough of any for the saved     *)
(* message's own; a part of them shorter than it is not enough.            *)
Ack(k, n) ==
    /\ k \in alive /\ n \in DOMAIN inflight[k]
    /\ inflight' = [inflight EXCEPT ![k] = SubSeq(@, n + 1, Len(@))]
    /\ \/ k \in installed /\ bufferSent' = NoFrame
       \/ /\ k \in installed => bufferSent \notin {inflight[k][i] : i \in 1 .. n}
          /\ UNCHANGED bufferSent
    /\ UNCHANGED <<loop, server, alive, installed, poolFails, refused, wire, wild, counts,
                   departed, due>>

(* mutant: serverSent is not installed *)
PollUninstalled(k) ==
    /\ k \in alive
    /\ \/ /\ bufferSent # NoFrame
          /\ UNCHANGED installed
          /\ ServerSend(pClientCB, bufferSent)
          /\ UNCHANGED <<server, alive>>
       \/ /\ bufferSent = NoFrame /\ clientState = "closing"
          /\ CloseConn(k)
          /\ UNCHANGED <<saving, clientState, listening, nullSnd>>
    /\ UNCHANGED <<loop, counts, departed, due>>

(* serverPoll: the saved message is sent again, at every poll until some   *)
(* acknowledgement clears it.                                              *)
Poll(k) ==
    /\ k \in alive
    /\ \/ /\ bufferSent # NoFrame
          /\ installed' = installed \cup (alive \cap {pClientCB})
          /\ ServerSend(pClientCB, bufferSent)
          /\ UNCHANGED <<server, alive>>
       \/ /\ bufferSent = NoFrame /\ clientState = "closing"
          /\ CloseConn(k)
          /\ UNCHANGED <<saving, clientState, listening, nullSnd>>
    /\ UNCHANGED <<loop, counts, departed, due>>

(* serverRecv without data: the client has closed its side, which makes    *)
(* the state of the server's only record of one "closing" whoever it was.  *)
RemoteClose(k) ==
    /\ k \in alive \ departed
    /\ departed' = departed \cup {k}
    /\ clientState' = "closing"
    /\ IF bufferSent = NoFrame
       THEN CloseConn(k) /\ UNCHANGED <<saving, listening, nullSnd>>
       ELSE /\ ServerSend(k, bufferSent)
            /\ UNCHANGED <<pClientCB, alive, installed, listening, nullSnd>>
    /\ UNCHANGED <<loop, counts, due>>

(* serverErr(ERR_ABRT): lwIP has given up on the client and freed its      *)
(* control block; the server keeps the pointer.                            *)
Abort(k) ==
    /\ k \in alive
    /\ Freed({k})
    /\ UNCHANGED <<loop, server, saving, counts, departed, due>>

(* serverErr(ERR_RST): the same, but serverShutdown() closes the client,   *)
(* already freed, and the listener.                                        *)
Reset(k) ==
    /\ k \in alive
    /\ Shutdown(k)
    /\ UNCHANGED <<loop, clientState, nullSnd, bufferSent, poolFails, refused, wire, counts,
                   departed, due>>

(* After a write through a stale pointer anything may happen: the model     *)
(* stops there.                                                            *)
Next ==
    /\ ~wild
    /\ \/ CanFrame \/ GcFrame \/ OwnFrame \/ OwnEvent \/ Loop
       \/ Accept \/ AcceptFails
       \/ \E k \in Pcb : \/ \E n \in 1 .. SndBuf : Ack(k, n)
                         \/ Poll(k) \/ RemoteClose(k) \/ Abort(k) \/ Reset(k)

(* process() is called from loop() for ever, lwIP polls a connection every *)
(* half second, and TCP acknowledges what it delivers or gives up.         *)
Fairness ==
    /\ WF_vars(~wild /\ Loop)
    /\ \A k \in Pcb : WF_vars(~wild /\ Poll(k)) /\ WF_vars(~wild /\ \E n \in 1 .. SndBuf : Ack(k, n))

Spec == Init /\ [][Next]_vars /\ Fairness

-----------------------------------------------------------------------------
(* canSend() asked before a frame is taken is enough for the frames of the *)
(* bus, whatever callbacks fall between the question and the write: TCP    *)
(* refuses the one client's messages only after a frame of the node's own, *)
(* which asks nobody, or when its pools run out.  And until it refuses one *)
(* the client gets each frame the loop takes from the bus and each of the  *)
(* node's own once and in order, and nothing is saved to be sent again.    *)
ForwardedInOrder ==
    (conns = 1 /\ pClientCB \in alive) =>
        /\ refused => own > 0 \/ poolFails > 0
        /\ ~refused =>
             /\ bufferSent = NoFrame
             /\ wire = IF pc = "write" /\ tpcb = pClientCB
                       THEN SubSeq(due, 1, Len(due) - 1) ELSE due

(* The forwarding does not make the node deaf to the bus: if the server    *)
(* does not keep the pointer of an aborted client, and reads room through  *)
(* a null one, the loop empties the ring, even if own frames and saved     *)
(* ones compete for the send buffer.                                       *)
Usable == pClientCB \in alive \/ (pClientCB = Null /\ nullSnd)
BusHeard == (<>[](Usable /\ ~wild)) => <>[](ring = <<>>)

(* A client that has closed its side, with or without a message saved for  *)
(* it, gets its connection closed, unless another client has connected     *)
(* meanwhile or the server has written through a stale pointer.            *)
ClosesBehind ==
    \A k \in Pcb :
        (k \in alive /\ clientState = "closing")
            ~> (k \notin alive \/ clientState # "closing" \/ wild)
=============================================================================
