--------------------------- MODULE LongMessageEx ---------------------------
(* Long messages, extended (CBUSLongMessageEx in src/CBUSLongMessage.cpp):    *)
(* nodes that send several messages at a time from send contexts, a bus that  *)
(* may lose frames, and a receiving node that assembles several at a time in  *)
(* receive contexts. A message has whatever CRC its bytes have, 0 too, and    *)
(* other bytes have any, the same one too. Which contexts have waited long    *)
(* enough, to send or to give up, is a choice. Messages have fewer than 256   *)
(* fragments, so that neither the sequence number nor the length is cut:      *)
(* LongMessage shows what happens to those that have more.                    *)
EXTENDS LongFrame

CONSTANTS Nodes,       \* CAN IDs of the senders
          Messages,    \* messages: length, position of the first zero byte (0: none), CRC
          Crcs,        \* values of a CRC: of 16 bits
          NumTx,       \* _num_send_contexts
          NumRx,       \* _num_receive_contexts
          Checks       \* whether the receiver uses the CRC: the senders may differ

\* crc16() of no bytes is 0.
ASSUME ExAssumption == /\ Checks \subseteq BOOLEAN /\ 0 \in Crcs
                       /\ Messages \subseteq [len : Nat, nul : Nat, crc : Crcs]
                       /\ \A m \in Messages : m.len = 0 => m.crc = 0
                       /\ NumTx \in Nat \ {0} /\ NumRx \in Nat \ {0}

VARIABLES
  sendCtx, \* per node, _send_context
  turn,    \* per node, `context` of process(): the one whose turn it is
  halted,  \* nodes that used a context beyond their array
  recvCtx, \* _receive_context
  useCrc,  \* _use_crc at the senders and at the receiver
  msgs,    \* history: the messages sent
  fate,    \* history: what became of each: the status _messagehandler was called with
  losses,  \* history: frames lost
  calm,    \* history: no receive context has timed out
  stale    \* history: messages still in a receive context when their sender
           \* began another one on their stream

exVars == <<sendCtx, turn, halted, recvCtx, useCrc, msgs, fate, losses, calm, stale>>

NoCrc == 0
FreeTx == [used |-> FALSE, stream |-> 0, id |-> 0, index |-> 0, seq |-> 0]
FreeRx == [used |-> FALSE, stream |-> 0, canid |-> 0, id |-> 0, length |-> 0, crc |-> NoCrc,
           buffer |-> <<>>, expected |-> 0]

\* allocateContexts(), and use_crc() called or not at either end.
ExInit == /\ sendCtx = [n \in Nodes |-> [c \in 1..NumTx |-> FreeTx]]
          /\ turn = [n \in Nodes |-> 1]
          /\ halted = {}
          /\ recvCtx = [c \in 1..NumRx |-> FreeRx]
          /\ useCrc \in [sender : BOOLEAN, receiver : Checks]
          /\ msgs = <<>>
          /\ fate = [id \in 1..MaxMessages |-> "NONE"]
          /\ losses = 0
          /\ calm = TRUE
          /\ stale = {}

Message(id) == Content(id, msgs[id].len)
\* strdup() copies up to and including the first zero byte; what is sent from
\* beyond it is whatever lies behind the copy.
Copied(id) == [i \in 1..msgs[id].len |-> IF msgs[id].nul > 0 /\ i > msgs[id].nul
                                         THEN Garbage ELSE Message(id)[i]]

-----------------------------------------------------------------------------
(* The receiver.                                                              *)

Lowest(S) == CHOOSE c \in S : \A d \in S : c <= d
FreeContexts == {c \in 1..NumRx : ~recvCtx[c].used}
\* mutant: the sender is not looked at.
MatchingStream(f) == {c \in 1..NumRx : recvCtx[c].used /\ recvCtx[c].stream = f.stream}
Matching(f) == {c \in 1..NumRx : /\ recvCtx[c].used
                                 /\ recvCtx[c].stream = f.stream /\ recvCtx[c].canid = f.canid}

\* The handler is called and the context is free again.
Close(c, status) == /\ recvCtx' = [recvCtx EXCEPT ![c] = FreeRx]
                    /\ fate' = [fate EXCEPT ![recvCtx[c].id] = status]

\* mutant: calculated also for a message that came without one.
CalculatedAlways(c, data) == IF ~useCrc.receiver THEN {NoCrc}
                             ELSE IF data = Message(recvCtx[c].id) THEN {msgs[recvCtx[c].id].crc} ELSE Crcs
\* The CRC of the bytes received, calculated only if both ends have one: a CRC
\* of 0 is taken for none.
Calculated(c, data) == IF ~useCrc.receiver \/ recvCtx[c].crc = NoCrc THEN {NoCrc}
                       ELSE IF data = Message(recvCtx[c].id) THEN {msgs[recvCtx[c].id].crc} ELSE Crcs

\* The whole message has been read, and the CRCs are compared in any case.
\* History tells what is COMPLETE by the code but not the message that was sent.
Complete(c, data) ==
  \E crc \in Calculated(c, data) :
    Close(c, IF recvCtx[c].crc # crc THEN "CRC_ERROR"
             ELSE IF data = Message(recvCtx[c].id) THEN "COMPLETE" ELSE "OTHER_DATA")

\* The bytes still to come: the length is looked at once a byte is stored.
ExNeed(c) == IF recvCtx[c].length = 0 THEN 1 ELSE recvCtx[c].length - Len(recvCtx[c].buffer)
ExRoom(c) == BufLen - Len(recvCtx[c].buffer)

\* The bytes of a fragment go into the context's buffer until the message is
\* complete or, failing that, the buffer is full.
ExTake(c, f) ==
  \/ /\ ExNeed(c) <= Frag /\ ExNeed(c) <= ExRoom(c)
     /\ Complete(c, recvCtx[c].buffer \o SubSeq(f.bytes, 1, ExNeed(c)))
  \/ /\ ExRoom(c) <= Frag /\ ExRoom(c) < ExNeed(c)
     /\ Close(c, "TRUNCATED")
  \/ /\ Frag < ExNeed(c) /\ Frag < ExRoom(c)
     /\ recvCtx' = [recvCtx EXCEPT ![c].buffer = @ \o f.bytes, ![c].expected = @ + 1]
     /\ UNCHANGED fate

Opened(f) == [used |-> TRUE, stream |-> f.stream, canid |-> f.canid, id |-> f.id,
              length |-> f.len, crc |-> f.crc, buffer |-> <<>>, expected |-> 1]
\* A header takes the first free context, also when one is in use for the same
\* stream and sender. Without one the message is not received.
ReceiveHeader(f) ==
  LET taken == f.stream \in Subscribed /\ FreeContexts # {}
  IN \/ /\ taken
        /\ recvCtx' = [recvCtx EXCEPT ![Lowest(FreeContexts)] = Opened(f)]
        /\ fate' = [fate EXCEPT ![f.id] = "ACCEPTED"]
     \/ ~taken /\ UNCHANGED <<recvCtx, fate>>

\* A fragment goes to the first context with its stream and sender.
ReceiveFragment(f) ==
  \/ /\ Matching(f) = {}
     /\ UNCHANGED <<recvCtx, fate>>
  \/ /\ Matching(f) # {}
     /\ LET c == Lowest(Matching(f))
        IN \/ f.seq = recvCtx[c].expected /\ ExTake(c, f)
           \/ f.seq # recvCtx[c].expected /\ Close(c, "SEQUENCE_ERROR")

\* A frame reaches the receiver, or is lost on the bus or in the sender's full
\* transmit buffer: the sender goes on all the same.
Lose == /\ losses < MaxLost
        /\ losses' = losses + 1
        /\ UNCHANGED <<recvCtx, fate>>

-----------------------------------------------------------------------------
(* The senders.                                                               *)

Busy(n) == {c \in 1..NumTx : sendCtx[n][c].used}

\* mutant: only contexts are looked at, not what they send.
AcceptsAny(n, stream) == n \notin halted /\ Len(msgs) < MaxMessages
\* sendLongMessage() is refused if the stream is already sending.
Accepts(n, stream) == /\ n \notin halted /\ Len(msgs) < MaxMessages
                      /\ \A c \in Busy(n) : sendCtx[n][c].stream # stream

\* The receive contexts in use for a stream of a sender.
InUse(n, stream) == {c \in 1..NumRx : /\ recvCtx[c].used
                                      /\ recvCtx[c].stream = stream /\ recvCtx[c].canid = n}

\* The message is copied into the first free context and its header is sent.
ExSend(n, stream, m) ==
  LET id == Len(msgs) + 1
      header == [stream |-> stream, canid |-> n, id |-> id, len |-> m.len,
                 crc |-> IF useCrc.sender THEN m.crc ELSE NoCrc]
  IN /\ Accepts(n, stream) /\ Busy(n) # 1..NumTx
     /\ msgs' = Append(msgs, m)
     /\ sendCtx' = [sendCtx EXCEPT ![n][Lowest((1..NumTx) \ Busy(n))] =
                 [used |-> TRUE, stream |-> stream, id |-> id, index |-> 0, seq |-> 1]]
     /\ \/ ReceiveHeader(header) /\ UNCHANGED losses
        \/ Lose
     /\ stale' = stale \cup {recvCtx[c].id : c \in InUse(n, stream)}
     /\ UNCHANGED <<turn, halted, useCrc, calm>>

\* With every context in use the search stops at the count, which the test
\* `i > _num_send_contexts` lets through: the pointer behind the array is used.
SendBeyond(n, stream) ==
  /\ Accepts(n, stream) /\ Busy(n) = 1..NumTx
  /\ halted' = halted \cup {n}
  /\ UNCHANGED <<sendCtx, turn, recvCtx, useCrc, msgs, fate, losses, calm, stale>>

\* mutant: the round robin does not wrap.
NextTurnNoWrap(c) == c + 1
NextTurn(c) == (c % NumTx) + 1

\* process(), second half: the context whose turn it is may send a fragment,
\* and is released with its last one.
ExSendFragment(n) ==
  LET c == turn[n]
      x == sendCtx[n][c]
      index == After(Copied(x.id), x.index)
      f == [stream |-> x.stream, canid |-> n, seq |-> x.seq, bytes |-> Payload(Copied(x.id), x.index)]
  IN /\ n \notin halted /\ x.used
     /\ sendCtx' = [sendCtx EXCEPT ![n][c] = IF index = msgs[x.id].len THEN FreeTx
                                   ELSE [x EXCEPT !.index = index, !.seq = @ + 1]]
     /\ turn' = [turn EXCEPT ![n] = NextTurn(c)]
     /\ \/ ReceiveFragment(f) /\ UNCHANGED losses
        \/ Lose
     /\ UNCHANGED <<halted, useCrc, msgs, calm, stale>>

\* Its context is free or the delay is not over: the turn passes.
PassTurn(n) == /\ n \notin halted
               /\ turn' = [turn EXCEPT ![n] = NextTurn(@)]
               /\ UNCHANGED <<sendCtx, halted, recvCtx, useCrc, msgs, fate, losses, calm, stale>>

\* process(), first half, on the receiving node.
ExTimeout(c) == /\ recvCtx[c].used
                /\ Close(c, "TIMEOUT_ERROR")
                /\ calm' = FALSE
                /\ UNCHANGED <<sendCtx, turn, halted, useCrc, msgs, losses, stale>>

ExNext == \/ \E n \in Nodes : \/ \E s \in Streams, m \in Messages : ExSend(n, s, m)
                              \/ \E s \in Streams : SendBeyond(n, s)
                              \/ ExSendFragment(n)
                              \/ PassTurn(n)
          \/ \E c \in 1..NumRx : ExTimeout(c)

ExSpec == ExInit /\ [][ExNext]_exVars

-----------------------------------------------------------------------------
\* A context in use has room left and bytes to come: the copy loop, which checks
\* after storing (662), never stores beyond the buffer.
ExTypeOK == /\ \A c \in 1..NumRx : recvCtx[c].used => ExNeed(c) > 0 /\ Len(recvCtx[c].buffer) < BufLen
            /\ \A n \in Nodes : \A c \in Busy(n) :
                 sendCtx[n][c].index = 0 \/ sendCtx[n][c].index \in 1..(msgs[sendCtx[n][c].id].len - 1)
            /\ turn \in [Nodes -> 1..NumTx] /\ halted \subseteq Nodes
            /\ \A c \in 1..NumTx, n \in Nodes : ~sendCtx[n][c].used => sendCtx[n][c] = FreeTx

\* A message the code can deliver: it has a byte, and strdup() copies all of it.
Intact(id) == msgs[id].len > 0 /\ Copied(id) = Message(id)

\* A receive context holds bytes of no message but the one its header announced,
\* without a hole (489 to 537, against the first match of 638 and the numbers of
\* 651): what is reported COMPLETE is that message, byte for byte, with or
\* without the CRC and whatever is lost, late or interleaved. What breaks it: a
\* context of the stream still in use when its sender begins the next message,
\* which takes its fragments; a zero byte in the message (453); no byte in it,
\* which is COMPLETE with one (662 to 668).
CompleteIsExact == \A id \in DOMAIN msgs : fate[id] = "OTHER_DATA" => id \in stale \/ ~Intact(id)

Calm == losses = 0 /\ calm
Finished(id) == \A n \in Nodes : \A c \in Busy(n) : sendCtx[n][c].id # id

\* While nothing is lost and nothing times out, streams do not disturb each
\* other: every message with a byte, no zero byte inside, that fits the buffer and
\* found a context is reported COMPLETE and exact by the time it is sent, from
\* whichever of the interleaved contexts (lines 489 to 556 and 580 to 701).
StreamsApart ==
  Calm /\ (useCrc.sender => useCrc.receiver)
    => \A id \in DOMAIN msgs :
         Finished(id) /\ fate[id] # "NONE" /\ msgs[id].len <= BufLen /\ Intact(id)
           => fate[id] = "COMPLETE"

\* While nothing is lost and nothing times out, no two receive contexts serve
\* one stream of one sender: the first match (638) is the only one, although a
\* header never looks for a context already in use for its stream.
OneContext ==
  Calm => \A c, d \in 1..NumRx :
              /\ recvCtx[c].used /\ recvCtx[c].stream = recvCtx[d].stream
              /\ recvCtx[d].used /\ recvCtx[c].canid = recvCtx[d].canid
            => c = d
=============================================================================
