---------------------------- MODULE GridStream ----------------------------
(***************************************************************************)
(* The receiving half of the GridConnect server: TCP delivers the text a   *)
(* client writes in segments cut anywhere, and serverRecv() with           *)
(* extractAndQueueGC() make frames of it.  There is one receive buffer for *)
(* all connections.  The ring the frames are put in is CircularBuffer; here *)
(* it is the history of what was put.                                      *)
(***************************************************************************)
EXTENDS GridText, FiniteSetsExt

CONSTANTS Clients,        \* connections, each used once
          Frames,         \* frames a client sends
          MaxFrames,      \* bound: frames written by all clients together
          MaxUnread,      \* bound: text in flight when a client writes more
          MaxAllocFails   \* bound: failures of pbuf_alloc

ASSUME StreamAssumption ==
    /\ GC_MAX_MSG \in Nat /\ GC_MAX_MSG >= 12
    /\ MaxFrames \in Nat /\ MaxUnread \in Nat /\ MaxAllocFails \in Nat
    /\ \A f \in Frames : Encodable(f)

VARIABLES recvState,     \* clientState of the server, whichever client is meant
          bufferRecv,    \* the partial message kept between segments
          live,          \* clients whose callbacks are installed
          fresh,         \* clients that have not connected yet
          unread,        \* what a client has written and TCP not delivered
          total,         \* history: frames written by all clients
          written,       \* history: frames written since the latest client connected
          ended,         \* history: of these, how many were delivered to their end
          queued,        \* history: frames put since that client connected
          allocFails,    \* history: failures of pbuf_alloc
          disturbed      \* history: see Alone, Stale and NoMemory

streamVars == <<recvState, bufferRecv, live, fresh, unread, total, written, ended, queued,
          allocFails, disturbed>>

StreamInit ==
    /\ recvState = "none" /\ bufferRecv = <<>>
    /\ live = {} /\ fresh = Clients
    /\ unread = [c \in Clients |-> <<>>]
    /\ total = 0 /\ written = <<>> /\ ended = 0 /\ queued = <<>>
    /\ allocFails = 0 /\ disturbed = FALSE

-----------------------------------------------------------------------------
(* extractAndQueueGC looks for a start, then for the next end, and goes on *)
(* behind it: a message ends at each end with a start behind the end       *)
(* before, and begins at the first such start.                             *)

Ends(p) == {e \in DOMAIN p : p[e] = End}

(* the starts in the first n characters of p with no end behind them *)
Open(p, n) == {s \in 1 .. n : p[s] = Start /\ \A i \in s .. n : p[i] # End}

Closings(p) == {e \in Ends(p) : Open(p, e - 1) # {}}
Message(p, e) == SubSeq(p, Min(Open(p, e - 1)), e)

(* the frames in the text p, in order *)
Good(p) == {e \in Closings(p) : Decodable(Message(p, e))}
Nth(places, i) == CHOOSE e \in places : Cardinality({d \in places : d <= e}) = i
Extract(p) == [i \in 1 .. Cardinality(Good(p)) |-> DecodeGC(Message(p, Nth(Good(p), i)))]

(* The receive buffer afterwards: a message without its end yet; empty     *)
(* after one that was copied to it.  One that is too long, or text without *)
(* a start, leaves the buffer as it is.                                    *)
Kept(p, buf) ==
    IF Open(p, Len(p)) # {} /\ Len(p) - Min(Open(p, Len(p))) < GC_MAX_MSG
      THEN SubSeq(p, Min(Open(p, Len(p))), Len(p))
    ELSE IF \E e \in Closings(p) : Len(Message(p, e)) <= GC_MAX_MSG THEN <<>>
    ELSE buf

(* mutant: the first segment is parsed with what the buffer holds *)
TextAlways(segment) == bufferRecv \o segment

(* serverRecv: the first segment of a connection is parsed by itself, the  *)
(* later ones with the partial message in front.                           *)
Text(segment) == IF recvState = "accepted" THEN segment ELSE bufferRecv \o segment

-----------------------------------------------------------------------------
(* The clients and TCP. *)

(* A client writes a frame, perhaps with a line feed before it.            *)
(* Bound: the texts of two clients are not in flight at the same time.     *)
ClientWrites(c, f) ==
    /\ c \in live /\ total < MaxFrames /\ Len(unread[c]) <= MaxUnread
    /\ \A d \in Clients \ {c} : unread[d] = <<>>
    /\ \E before \in {<<>>, <<Other>>} :
           unread' = [unread EXCEPT ![c] = @ \o before \o EncodeGC(f)]
    /\ written' = Append(written, f) /\ total' = total + 1
    /\ UNCHANGED <<recvState, bufferRecv, live, fresh, ended, queued, allocFails, disturbed>>

(* Alone: no other client is connected *)
Alone == live = {}

(* serverAccept: a second client replaces the first in the server's state, *)
(* but the first one's callbacks stay.  The buffers are not reset.         *)
ServerAccept(c) ==
    /\ c \in fresh
    /\ fresh' = fresh \ {c} /\ live' = live \cup {c}
    /\ recvState' = "accepted"
    /\ disturbed' = (disturbed \/ ~Alone)
    /\ written' = <<>> /\ ended' = 0 /\ queued' = <<>>
    /\ UNCHANGED <<bufferRecv, unread, total, allocFails>>

Delivered(c, n) == SubSeq(unread[c], 1, n)

(* Stale: the first segment leaves the previous connection's partial message *)
Stale(segment) == recvState = "accepted" /\ bufferRecv # <<>> /\ \A i \in DOMAIN segment : segment[i] # Start

(* mutant: text in which no frame was found is kept from its beginning *)
RecvUnsearched(c, n) ==
    LET text == Text(Delivered(c, n)) IN
    /\ c \in live /\ recvState \in {"accepted", "received"}
    /\ bufferRecv' = IF Extract(text) = <<>> THEN text ELSE Kept(text, bufferRecv)
    /\ queued' = queued \o Extract(text)
    /\ recvState' = "received"
    /\ ended' = ended + Cardinality(Ends(Delivered(c, n)))
    /\ unread' = [unread EXCEPT ![c] = SubSeq(@, n + 1, Len(@))]
    /\ UNCHANGED <<live, fresh, total, written, allocFails, disturbed>>

(* serverRecv: the next n characters of client c *)
Recv(c, n) ==
    /\ c \in live /\ recvState \in {"accepted", "received"}
    /\ bufferRecv' = Kept(Text(Delivered(c, n)), bufferRecv)
    /\ queued' = queued \o Extract(Text(Delivered(c, n)))
    /\ disturbed' = (disturbed \/ Stale(Delivered(c, n)))
    /\ recvState' = "received"
    /\ ended' = ended + Cardinality(Ends(Delivered(c, n)))
    /\ unread' = [unread EXCEPT ![c] = SubSeq(@, n + 1, Len(@))]
    /\ UNCHANGED <<live, fresh, total, written, allocFails>>

(* NoMemory: no buffer to chain the segment to; the segment is dropped and *)
(* the partial message kept.  Bound: the segment is all that is in flight. *)
NoMemory(c) ==
    /\ c \in live /\ recvState = "received" /\ bufferRecv # <<>> /\ unread[c] # <<>>
    /\ allocFails < MaxAllocFails
    /\ allocFails' = allocFails + 1
    /\ unread' = [unread EXCEPT ![c] = <<>>]
    /\ ended' = ended + Cardinality(Ends(unread[c]))
    /\ disturbed' = TRUE
    /\ UNCHANGED <<recvState, bufferRecv, live, fresh, total, written, queued>>

(* serverRecv in the closing state, entered when any client has closed *)
Trash(c, n) ==
    /\ c \in live /\ recvState = "closing"
    /\ unread' = [unread EXCEPT ![c] = SubSeq(@, n + 1, Len(@))]
    /\ UNCHANGED <<recvState, bufferRecv, live, fresh, total, written, ended, queued,
                   allocFails, disturbed>>

(* The client closes, perhaps in the middle of a message it was writing:   *)
(* serverRecv without data.  Its callbacks go, now or in serverPoll.       *)
ClientCloses(c) ==
    /\ c \in live
    /\ recvState' = "closing"
    /\ live' = live \ {c}
    /\ unread' = [unread EXCEPT ![c] = <<>>]
    /\ UNCHANGED <<bufferRecv, fresh, total, written, ended, queued, allocFails, disturbed>>

StreamNext ==
    \E c \in Clients :
        \/ ServerAccept(c)
        \/ \E f \in Frames : ClientWrites(c, f)
        \/ \E n \in DOMAIN unread[c] : Recv(c, n) \/ Trash(c, n)
        \/ NoMemory(c)
        \/ ClientCloses(c)

StreamSpec == StreamInit /\ [][StreamNext]_streamVars

-----------------------------------------------------------------------------
(* However TCP cuts the text, the frames queued for the node are those the *)
(* client has sent to the end, whole, once and in order.  Only three       *)
(* things break it: a failed allocation, a second client at the same time, *)
(* and a connection whose first segment holds no start of a message while  *)
(* the one before it ended inside a message.                               *)
AllQueued == ~disturbed => queued = SubSeq(written, 1, ended)

(* What is kept between segments is at most a message, starts with the     *)
(* delimiter that starts one and does not hold the one that ends it.       *)
TypeOK ==
    /\ recvState \in {"none", "accepted", "received", "closing"}
    /\ live \subseteq Clients /\ fresh \subseteq Clients \ live
    /\ unread \in [Clients -> Seq(Char)]
    /\ bufferRecv \in Seq(Char \ {End}) /\ Len(bufferRecv) <= GC_MAX_MSG
    /\ bufferRecv # <<>> => Head(bufferRecv) = Start
    /\ ended \in Nat /\ allocFails \in 0 .. MaxAllocFails /\ disturbed \in BOOLEAN
=============================================================================
