---------------------------- MODULE LongMessage ----------------------------
(* Long messages, lite (CBUSLongMessage in src/CBUSLongMessage.cpp): nodes    *)
(* that send one message at a time, a bus that may lose frames, and one       *)
(* receiving node, which follows one message at a time and sees every frame   *)
(* of every sender. Time is abstract: the pause before a fragment is any      *)
(* pause, and the receive timeout may be over whenever no frame has come.     *)
EXTENDS LongFrame

CONSTANTS Senders,     \* CAN IDs of the senders
          Lengths,     \* lengths of messages, in bytes
          SeqMod,      \* sequence numbers are sent modulo this: 256
          LenMod       \* and lengths modulo this: 65536

ASSUME LongAssumption == /\ Lengths \subseteq Nat
                         /\ SeqMod \in Nat \ {0} /\ LenMod \in Nat \ {0}

VARIABLES
  tx,       \* per sender: its message (its number, stream, length), _send_buffer_index, _send_sequence_num
  rx,       \* the receiver's members
  expired,  \* _last_fragment_received is at least _receive_timeout ago
  report,   \* the last call of _messagehandler: status and data
  lost,     \* history: frames lost
  clean,    \* history: the senders whose message has come through undisturbed so far
  mistaken  \* history: the latest message received began with a fragment read as a
            \* header, or with one whose two bytes cannot state its message's length

vars == <<tx, rx, expired, report, lost, clean, mistaken>>

Idle == [active |-> FALSE, stream |-> 0, canid |-> 0, length |-> 0, received |-> 0,
         buffer |-> <<>>, expected |-> 0]

Init == /\ tx = [s \in Senders |-> [n |-> 0, stream |-> 0, len |-> 0, index |-> 0, seq |-> 0]]
        /\ rx = Idle
        /\ expired = TRUE
        /\ report = [status |-> "NONE", data |-> <<>>]
        /\ lost = 0
        /\ clean = {}
        /\ mistaken = FALSE

IsSending(s) == tx[s].index < tx[s].len
Whole(s) == Content(<<s, tx[s].n>>, tx[s].len)

-----------------------------------------------------------------------------
(* The receiver. `f` is a frame: canid, stream, seq, and len for a header or  *)
(* bytes for a fragment; of a header also whether its two bytes state the     *)
(* length of its message (history), which for 0 is as good as stating none.   *)
States(len) == len \in 1..(LenMod - 1)

\* The lengths a frame states if it is read as a header: its own for a header;
\* for a fragment, whose number has wrapped to 0, whatever its payload says.
Stated(f) == IF f.header THEN {f.len} ELSE {len % LenMod : len \in Lengths}

\* mutant: the expected number starts at 1 and is incremented all the same.
OpenTwice(f, len) == [Idle EXCEPT !.active = TRUE, !.stream = f.stream, !.canid = f.canid,
                                  !.length = len, !.expected = 2]
\* A header accepted. The number expected is set to 0 and incremented at the end.
Open(f, len) == [Idle EXCEPT !.active = TRUE, !.stream = f.stream, !.canid = f.canid,
                             !.length = len, !.expected = 1]

\* mutant: the sender is not looked at.
MineAnySender(f) == rx.active /\ f.stream = rx.stream
Mine(f) == rx.active /\ f.canid = rx.canid /\ f.stream = rx.stream

\* Room in the user's buffer, and bytes still to come (one is always taken).
Room == BufLen - Len(rx.buffer)
Need == IF rx.received < rx.length THEN rx.length - rx.received ELSE 1

\* A number is spent on every frame, whoever it is from.
Counted == [rx EXCEPT !.expected = @ + 1]

\* mutant: the buffer is handed over only when a fragment finds it full.
FillsBeyond == Room = 0 /\ Room < Need
\* The buffer fills up inside this fragment, before the message is complete.
Fills == Room < Need /\ Room < Frag

\* The next fragment of the message. A full buffer is handed over and the
\* rest of the fragment is dropped. A message said to have no bytes has them all
\* with the first one, and is never closed: line 276 asks for a length.
Take(f) ==
  \/ /\ Fills
     /\ report' = [status |-> "INCOMPLETE", data |-> rx.buffer \o SubSeq(f.bytes, 1, Room)]
     /\ rx' = [Counted EXCEPT !.buffer = <<>>, !.received = @ + Room]
  \/ /\ ~Fills /\ Need <= Frag
     /\ report' = [status |-> "COMPLETE", data |-> rx.buffer \o SubSeq(f.bytes, 1, Need)]
     /\ rx' = IF rx.length > 0 THEN Idle ELSE [Counted EXCEPT !.buffer = <<>>, !.received = @ + 1]
  \/ /\ ~Fills /\ Need > Frag
     /\ rx' = [Counted EXCEPT !.buffer = @ \o f.bytes, !.received = @ + Frag]
     /\ UNCHANGED report

\* The number in the frame is one byte, the number expected is not.
InOrder(f) == f.seq = rx.expected

\* processReceivedMessageFragment(): every frame restarts the timeout.
Receive(f) ==
  /\ expired' = FALSE
  /\ \/ /\ ~rx.active /\ f.seq = 0 /\ f.stream \in Subscribed
        /\ \E len \in Stated(f) : rx' = Open(f, len)
        /\ mistaken' = ~(f.header /\ f.exact)
        /\ UNCHANGED report
     \/ /\ ~rx.active /\ ~(f.header /\ f.stream \in Subscribed)
        /\ UNCHANGED <<rx, report, mistaken>>
     \/ /\ rx.active /\ ~Mine(f)
        /\ rx' = Counted
        /\ UNCHANGED <<report, mistaken>>
     \/ /\ Mine(f) /\ InOrder(f)
        /\ Take(f)
        /\ UNCHANGED mistaken
     \/ /\ Mine(f) /\ ~InOrder(f)
        /\ report' = [status |-> "SEQUENCE_ERROR", data |-> rx.buffer]
        /\ rx' = Idle
        /\ UNCHANGED mistaken

\* What a frame that arrives does to the messages under way: it disturbs those
\* of other senders. A header that finds the receiver idle starts clean.
Tracked(f) == (IF f.header /\ ~rx.active /\ f.stream \in Subscribed THEN {f.canid}
               ELSE IF f.header THEN {} ELSE clean \cap {f.canid})

\* A frame on the bus arrives, or is lost there or in the sender's full
\* transmit buffer: the sender goes on all the same.
Transmit(f) ==
  \/ /\ Receive(f)
     /\ clean' = Tracked(f)
     /\ UNCHANGED lost
  \/ /\ lost < MaxLost
     /\ lost' = lost + 1
     /\ clean' = clean \ {f.canid}
     /\ UNCHANGED <<rx, expired, report, mistaken>>

-----------------------------------------------------------------------------
(* The senders.                                                               *)

\* sendLongMessage(): refused while one is being sent.
Send(s, stream, len) ==
  /\ ~IsSending(s) /\ tx[s].n < MaxMessages
  /\ tx' = [tx EXCEPT ![s] = [n |-> @.n + 1, stream |-> stream, len |-> len, index |-> 0, seq |-> 1]]
  /\ Transmit([header |-> TRUE, canid |-> s, stream |-> stream, seq |-> 0,
               len |-> len % LenMod, exact |-> States(len)])

\* The second half of process(), on a node that is sending.
SendFragment(s) ==
  /\ IsSending(s)
  /\ tx' = [tx EXCEPT ![s].index = After(Whole(s), @), ![s].seq = @ + 1]
  /\ Transmit([header |-> FALSE, canid |-> s, stream |-> tx[s].stream, seq |-> tx[s].seq % SeqMod,
               bytes |-> Payload(Whole(s), tx[s].index)])

\* The receive timeout elapses.
Elapse == /\ ~expired
          /\ expired' = TRUE
          /\ UNCHANGED <<tx, rx, report, lost, clean, mistaken>>

\* mutant: the handler is told but the receiver waits on.
TimeoutWaits == /\ rx.active /\ expired
                /\ report' = [status |-> "TIMEOUT_ERROR", data |-> rx.buffer]
                /\ clean' = {}
                /\ UNCHANGED <<tx, rx, expired, lost, mistaken>>
\* The first half of process(), on the receiving node.
Timeout == /\ rx.active /\ expired
           /\ report' = [status |-> "TIMEOUT_ERROR", data |-> rx.buffer]
           /\ rx' = Idle
           /\ clean' = {}
           /\ UNCHANGED <<tx, expired, lost, mistaken>>

Next == \/ \E s \in Senders, stream \in Streams, len \in Lengths : Send(s, stream, len)
        \/ \E s \in Senders : SendFragment(s)
        \/ Elapse
        \/ Timeout

\* Time passes, and every application calls process() from its loop for ever.
Spec == /\ Init /\ [][Next]_vars
        /\ WF_vars(Elapse) /\ WF_vars(Timeout)
        /\ \A s \in Senders : WF_vars(SendFragment(s))

-----------------------------------------------------------------------------
Statuses == {"NONE", "COMPLETE", "INCOMPLETE", "SEQUENCE_ERROR", "TIMEOUT_ERROR"}

\* The receiver never stores more than the user's buffer holds and never hands
\* over more, and an idle receiver has nothing under way.
TypeOK == /\ \A s \in Senders : tx[s].index \in 0..tx[s].len /\ tx[s].n \in 0..MaxMessages
          /\ Len(rx.buffer) <= BufLen
          /\ rx.received \in 0..rx.length \/ rx.length = 0
          /\ rx.active \/ rx = Idle
          /\ report.status \in Statuses /\ Len(report.data) <= BufLen
          /\ clean \subseteq Senders

\* What the handler is given as COMPLETE is exactly a message that was sent,
\* never one with a hole or a piece of another, for one lost frame and any
\* interleaving of senders (the test of line 222, against the counting of 272).
\* Four things break it: an INCOMPLETE part before it, whose rest was dropped; a
\* long message's 256th fragment, numbered 0, read as a header; a length that 16
\* bits do not hold (109 to 110), of which what is left is COMPLETE; and a length
\* of 0, said or left, with which any byte that comes next is (242).
CompleteIsWhole ==
  [][report' # report /\ report'.status = "COMPLETE" /\ report.status # "INCOMPLETE" /\ ~mistaken
       => \E s \in Senders : report'.data = Whole(s)]_vars

Fragments(len) == (len + Frag - 1) \div Frag

\* A message that fits the buffer, found the receiver idle and met no loss,
\* timeout or frame of another node has been reported COMPLETE when its sender
\* is done: for messages whose numbers do not wrap (lines 209 to 290), in spite
\* of the comment at 271, "the sequence number may wrap from 255 to 0, which is
\* absolutely fine", and whose length is not 0 and fits the header.
CleanDelivered ==
  \A s \in clean :
    ~IsSending(s) /\ States(tx[s].len) /\ tx[s].len <= BufLen /\ Fragments(tx[s].len) < SeqMod
      => report = [status |-> "COMPLETE", data |-> Whole(s)]

\* A receiver left with half a message does not wait for ever once the bus is
\* quiet: every frame, of whatever message, restarts its timeout (179).
Released == rx.active ~> ~rx.active
=============================================================================
