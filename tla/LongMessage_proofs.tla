------------------------- MODULE LongMessage_proofs -------------------------
(* For any senders, messages, streams, fragment and buffer sizes: what the     *)
(* receivers of LongMessage and LongMessageEx hand over, however the frames    *)
(* are interleaved, lost or late. Each part has an invariant that relates a    *)
(* receiver to the sender it follows.                                          *)
EXTENDS LongMessage, LongMessageEx, SequenceTheorems, WellFoundedInduction, TLAPS

-----------------------------------------------------------------------------
(* Frames and fragments.                                                    *)

(* The bytes of a message are distinct, in order and as many as it is long.   *)
LEMMA ContentIs ==
  ASSUME NEW m, NEW len \in Nat
  PROVE  /\ Content(m, len) \in Seq({m} \X Nat)
         /\ Len(Content(m, len)) = len
         /\ \A i \in 1..len : Content(m, len)[i] = <<m, i>>
<1>1. Content(m, len) \in [1..len -> {m} \X Nat]
  BY DEF Content
<1>2. Content(m, len) \in Seq({m} \X Nat)
  BY <1>1, SeqDef
<1>3. Len(Content(m, len)) = len
  BY <1>1, <1>2, LenProperties
<1> QED
  BY <1>2, <1>3 DEF Content

(* A frame always carries Frag bytes, of the message while there are any.     *)
LEMMA PayloadIs ==
  ASSUME NEW S, NEW data \in Seq(S), Zero \in S, NEW index \in Nat
  PROVE  /\ Payload(data, index) \in Seq(S)
         /\ Len(Payload(data, index)) = Frag
         /\ \A j \in 1..Frag : index + j <= Len(data) => Payload(data, index)[j] = data[index + j]
<1>1. Len(data) \in Nat /\ \A i \in 1..Len(data) : data[i] \in S
  BY LenProperties, ElementOfSeq
<1>2. Payload(data, index) \in [1..Frag -> S]
  BY <1>1, FrameAssumption DEF Payload
<1>3. Payload(data, index) \in Seq(S)
  BY <1>2, FrameAssumption, SeqDef
<1>4. Len(Payload(data, index)) = Frag
  BY <1>2, <1>3, FrameAssumption, LenProperties
<1> QED
  BY <1>3, <1>4, FrameAssumption DEF Payload

(* What precedes a fragment and the fragment, put together, are what precedes *)
(* the next one.                                                              *)
LEMMA JoinNext ==
  ASSUME NEW S, NEW data \in Seq(S), Zero \in S, NEW k \in Nat, k + Frag <= Len(data)
  PROVE  SubSeq(data, 1, k) \o Payload(data, k) = SubSeq(data, 1, k + Frag)
<1> DEFINE p == SubSeq(data, 1, k)
           q == Payload(data, k)
           r == SubSeq(data, 1, k + Frag)
<1>1. Len(data) \in Nat /\ Frag \in Nat \ {0} /\ \A i \in 1..Len(data) : data[i] \in S
  BY LenProperties, ElementOfSeq, FrameAssumption
<1>2. p \in Seq(S) /\ Len(p) = k /\ \A i \in 1..k : p[i] = data[i]
  BY <1>1, SubSeqProperties
<1>3. r \in Seq(S) /\ Len(r) = k + Frag /\ \A i \in 1..(k + Frag) : r[i] = data[i]
  BY <1>1, SubSeqProperties
<1>0. /\ Payload(data, k) \in Seq(S) /\ Len(Payload(data, k)) = Frag
      /\ \A j \in 1..Frag : k + j <= Len(data) => Payload(data, k)[j] = data[k + j]
  BY PayloadIs
<1>4. q \in Seq(S) /\ Len(q) = Frag /\ \A j \in 1..Frag : q[j] = data[k + j]
  BY <1>0, <1>1
<1> HIDE DEF p, q, r
<1>5. /\ p \o q \in Seq(S) /\ Len(p \o q) = k + Frag
      /\ \A i \in 1..(k + Frag) : (p \o q)[i] = IF i <= k THEN p[i] ELSE q[i - k]
  BY <1>2, <1>4, ConcatProperties
<1>6. ASSUME NEW i \in 1..(k + Frag) PROVE (p \o q)[i] = r[i]
  <2>1. CASE i <= k
    BY <2>1, <1>1, <1>2, <1>3, <1>5, SMTT(30)
  <2>2. CASE ~(i <= k)
    <3>1. i - k \in 1..Frag /\ k + (i - k) = i
      BY <2>2, <1>1
    <3> QED
      BY <2>2, <3>1, <1>3, <1>4, <1>5
  <2> QED
    BY <2>1, <2>2
<1>7. p \o q = r
  BY <1>3, <1>5, <1>6, SeqEqual
<1> QED
  BY <1>7 DEF p, q, r

(* With as many bytes of the last fragment as are still to come, the whole.   *)
LEMMA JoinLast ==
  ASSUME NEW S, NEW data \in Seq(S), Zero \in S, NEW k \in Nat,
         k < Len(data), Len(data) <= k + Frag
  PROVE  SubSeq(data, 1, k) \o SubSeq(Payload(data, k), 1, Len(data) - k) = data
<1> DEFINE p == SubSeq(data, 1, k)
           n == Len(data) - k
           q == SubSeq(Payload(data, k), 1, n)
<1>1. Len(data) \in Nat /\ Frag \in Nat \ {0} /\ n \in 1..Frag
      /\ \A i \in 1..Len(data) : data[i] \in S
  BY LenProperties, ElementOfSeq, FrameAssumption
<1>2. p \in Seq(S) /\ Len(p) = k /\ \A i \in 1..k : p[i] = data[i]
  BY <1>1, SubSeqProperties
<1>0. /\ Payload(data, k) \in Seq(S) /\ Len(Payload(data, k)) = Frag
      /\ \A j \in 1..Frag : k + j <= Len(data) => Payload(data, k)[j] = data[k + j]
  BY PayloadIs
<1>3. \A j \in 1..n : Payload(data, k)[j] = data[k + j] /\ Payload(data, k)[j] \in S
  BY <1>0, <1>1
<1>4. q \in Seq(S) /\ Len(q) = n /\ \A j \in 1..n : q[j] = data[k + j]
  <2> HIDE DEF n
  <2>1. n \in Int /\ 1 \in Int /\ 1 <= n
    BY <1>1
  <2>2. /\ SubSeq(Payload(data, k), 1, n) \in Seq(S)
        /\ Len(SubSeq(Payload(data, k), 1, n)) = n - 1 + 1
        /\ \A j \in 1..(n - 1 + 1) : SubSeq(Payload(data, k), 1, n)[j] = Payload(data, k)[1 + j - 1]
    BY <2>1, <1>3, SubSeqProperties
  <2> QED
    BY <2>1, <2>2, <1>3
<1>5. /\ p \o q \in Seq(S) /\ Len(p \o q) = k + n
      /\ \A i \in 1..(k + n) : (p \o q)[i] = IF i <= k THEN p[i] ELSE q[i - k]
  <2> HIDE DEF p, q, n
  <2>1. /\ p \o q \in Seq(S) /\ Len(p \o q) = Len(p) + Len(q)
        /\ \A i \in 1..Len(p) + Len(q) : (p \o q)[i] = IF i <= Len(p) THEN p[i] ELSE q[i - Len(p)]
    BY <1>2, <1>4, ConcatProperties, Zenon
  <2> QED
    BY <1>2, <1>4, <2>1
<1>6. k + n = Len(data)
  BY <1>1
<1> HIDE DEF p, q, n
<1>7. ASSUME NEW i \in 1..Len(data) PROVE (p \o q)[i] = data[i]
  <2>1. CASE i <= k
    BY <2>1, <1>1, <1>2, <1>5, <1>6
  <2>2. CASE ~(i <= k)
    <3>1. i - k \in 1..n /\ k + (i - k) = i
      BY <2>2, <1>1, <1>6
    <3> QED
      BY <2>2, <3>1, <1>4, <1>5, <1>6
  <2> QED
    BY <2>1, <2>2
<1>8. p \o q = data
  BY <1>5, <1>6, <1>7, SeqEqual
<1> QED
  BY <1>8 DEF p, q, n

-----------------------------------------------------------------------------
(* Long messages, lite.                                                       *)

Byte == ((Senders \X Nat) \X Nat) \cup {Zero}

RxSet == [active : BOOLEAN, stream : Streams \cup {0}, canid : Senders \cup {0}, length : Nat,
          received : Nat, buffer : Seq(Byte), expected : Nat]

Types ==
  /\ tx \in [Senders -> [n : 0..MaxMessages, stream : Streams \cup {0}, len : Lengths \cup {0},
                         index : Nat, seq : Nat]]
  /\ rx \in RxSet
  /\ report \in [status : Statuses, data : Seq(Byte)]
  /\ lost \in Nat /\ lost <= MaxLost /\ clean \subseteq Senders /\ mistaken \in BOOLEAN /\ expired \in BOOLEAN

(* A sender is at the first byte of a fragment, the one its number says.      *)
Sending ==
  \A s \in Senders : /\ tx[s].index <= tx[s].len
                     /\ IsSending(s) => tx[s].seq >= 1 /\ tx[s].index = Frag * (tx[s].seq - 1)

(* A receiver has bytes still to come, or was told of none, by a header that   *)
(* could not say better; and what it holds and hands over fits.               *)
Receiving ==
  /\ Len(rx.buffer) <= BufLen /\ Len(report.data) <= BufLen
  /\ rx.active \/ rx = Idle
  /\ rx.active => rx.expected >= 1 /\ (rx.received < rx.length \/ (rx.length = 0 /\ mistaken))

(* What has been sent of a message.                                           *)
Start(s) == SubSeq(Whole(s), 1, tx[s].index)

(* The receiver has the same message as its sender, up to the same byte.      *)
InStep(s) == /\ IsSending(s)
             /\ rx.canid = s /\ rx.stream = tx[s].stream /\ rx.length = tx[s].len
             /\ rx.received = tx[s].index /\ rx.buffer = Start(s)

(* While a message is clean, the receiver is in step with it and its frames   *)
(* are the only ones.                                                         *)
Followed(s) ==
  States(tx[s].len) /\ tx[s].len <= BufLen /\ Fragments(tx[s].len) < SeqMod
    => IF IsSending(s) THEN rx.active /\ InStep(s) /\ rx.expected = tx[s].seq
       ELSE report = [status |-> "COMPLETE", data |-> Whole(s)]
Follows == /\ \A s, t \in clean : s = t
           /\ \A s \in clean : Followed(s)

(* A fragment was lost, so the receiver is a fragment behind for good: it     *)
(* still wants more when the sender has no more.                              *)
Behind(s) == /\ lost > 0
             /\ IsSending(s) /\ rx.stream = tx[s].stream
                  => rx.length = tx[s].len /\ rx.received + Frag <= tx[s].index

(* With one loss at most, a message followed from its header and not cut by   *)
(* the buffer is in step with its sender, or too far behind ever to complete. *)
Pieces ==
  /\ report.status = "INCOMPLETE" => rx.active
  /\ rx.active => rx.canid \in Senders
  /\ lost <= 1 /\ rx.active /\ ~mistaken /\ report.status # "INCOMPLETE"
       => \/ InStep(rx.canid) /\ rx.expected >= tx[rx.canid].seq
          \/ Behind(rx.canid)

IInv == Types /\ Sending /\ Receiving /\ Follows /\ Pieces

(* What a frame carries: a header its length, a fragment Frag bytes.          *)
IsFrame(f) ==
  /\ f.canid \in Senders /\ f.stream \in Streams \cup {0} /\ f.seq \in Nat /\ f.header \in BOOLEAN
  /\ f.header => /\ f.len \in Nat /\ f.seq = 0 /\ f.exact \in BOOLEAN
                 /\ f.exact => f.len > 0
  /\ ~f.header => f.bytes \in Seq(Byte) /\ Len(f.bytes) = Frag

Constants == /\ Frag \in Nat \ {0} /\ BufLen \in Nat \ {0} /\ SeqMod \in Nat \ {0}
             /\ MaxMessages \in Nat /\ MaxLost \in Nat
             /\ Lengths \subseteq Nat /\ LenMod \in Nat \ {0} /\ Subscribed \subseteq Streams

(* What the code makes of the constants, in the lite implementation.          *)
LEMMA ConstantsAre == Constants
BY FrameAssumption, LongAssumption DEF Constants

(* A header accepted, and a frame counted.                                    *)
LEMMA OpenIs ==
  ASSUME NEW f, f.canid \in Senders, f.stream \in Streams \cup {0}, NEW len \in Nat
  PROVE  LET r == Open(f, len)
         IN  /\ r \in RxSet /\ r.active = TRUE /\ r.received = 0 /\ r.length = len
             /\ r.expected = 1 /\ r.buffer = <<>> /\ r.canid = f.canid /\ r.stream = f.stream
<1>1. <<>> \in Seq(Byte)
  OBVIOUS
<1>2. Idle \in RxSet /\ Idle.received = 0 /\ Idle.buffer = <<>>
  BY <1>1 DEF Idle, RxSet
<1>3. f.canid \in Senders \cup {0} /\ f.stream \in Streams \cup {0}
  OBVIOUS
<1> QED
  BY <1>2, <1>3 DEF Open, RxSet

(* The next fragment is the one expected.                                     *)
LEMMA CountedIs ==
  ASSUME rx \in RxSet
  PROVE  /\ Counted \in RxSet /\ Counted.expected = rx.expected + 1
         /\ Counted.active = rx.active /\ Counted.received = rx.received /\ Counted.length = rx.length
         /\ Counted.buffer = rx.buffer /\ Counted.canid = rx.canid /\ Counted.stream = rx.stream
<1>1. rx.expected + 1 \in Nat
  BY DEF RxSet
<1> QED
  BY <1>1 DEF Counted, RxSet

(* What taking a fragment leaves, for whatever bytes it has.                  *)
LEMMA TakeTypes ==
  ASSUME Types, Receiving, rx.active, NEW f, IsFrame(f), ~f.header, Take(f), UNCHANGED mistaken
  PROVE  /\ rx' \in RxSet
         /\ report' \in [status : Statuses, data : Seq(Byte)]
         /\ Receiving'
<1> DEFINE buf == rx.buffer
           b == f.bytes
<1>1. /\ Frag \in Nat \ {0} /\ BufLen \in Nat \ {0}
      /\ rx.length \in Nat /\ rx.received \in Nat /\ rx.expected \in Nat
      /\ rx.received < rx.length \/ rx.length = 0
      /\ rx.expected >= 1 /\ rx.buffer \in Seq(Byte) /\ report.data \in Seq(Byte)
      /\ Len(rx.buffer) <= BufLen /\ Len(report.data) <= BufLen
      /\ f.bytes \in Seq(Byte) /\ Len(f.bytes) = Frag
  BY ConstantsAre DEF Constants, Types, RxSet, Receiving, IsFrame
<1>10. rx.length = 0 => mistaken'
  <2>1. CASE rx.received < rx.length
    BY <1>1, <2>1
  <2>2. CASE ~(rx.received < rx.length)
    BY <2>2 DEF Receiving
  <2> QED
    BY <2>1, <2>2
<1>2. /\ Len(buf) \in Nat /\ Room \in Nat /\ Need \in Nat \ {0} /\ Room = BufLen - Len(buf)
      /\ rx.received < rx.length => Need = rx.length - rx.received
      /\ rx.length = 0 => Need = 1
  BY <1>1, LenProperties DEF Room, Need
<1>11. Len(buf) \in Nat /\ Room \in Nat /\ Need \in Nat /\ Len(buf) + Room = BufLen
  BY <1>1, <1>2
<1>12. /\ rx.length \in Nat /\ rx.received \in Nat /\ rx.expected \in Nat /\ BufLen \in Nat
       /\ rx.expected >= 1 /\ Len(report.data) <= BufLen
  BY <1>1
<1>13. Room < Need => rx.received + Room < rx.length \/ rx.length = 0
  <2>1. CASE rx.received < rx.length
    <3>1. Need = rx.length - rx.received
      BY <1>2, <2>1
    <3> QED
      BY <3>1, <1>11, <1>12
  <2>2. CASE rx.length = 0
    BY <2>2
  <2> QED
    BY <1>1, <2>1, <2>2
<1>3. ASSUME NEW k \in 0..Frag
      PROVE  /\ buf \o SubSeq(b, 1, k) \in Seq(Byte)
             /\ Len(buf \o SubSeq(b, 1, k)) = Len(buf) + k
  <2>1. \A i \in 1..Frag : b[i] \in Byte
    BY <1>1, ElementOfSeq
  <2>2. k \in Int /\ 1 \in Int /\ \A i \in 1..k : b[i] \in Byte
    BY <2>1, <1>1
  <2>3. SubSeq(b, 1, k) \in Seq(Byte) /\ Len(SubSeq(b, 1, k)) = k
    <3> HIDE DEF b
    <3>1. /\ SubSeq(b, 1, k) \in Seq(Byte)
          /\ Len(SubSeq(b, 1, k)) = IF 1 <= k THEN k - 1 + 1 ELSE 0
      BY <2>2, SubSeqProperties
    <3> QED
      BY <3>1
  <2> DEFINE sub == SubSeq(b, 1, k)
  <2>4. sub \in Seq(Byte) /\ Len(sub) = k /\ buf \in Seq(Byte)
    BY <2>3, <1>1
  <2> HIDE DEF sub, buf
  <2>5. buf \o sub \in Seq(Byte) /\ Len(buf \o sub) = Len(buf) + Len(sub)
    BY <2>4, ConcatProperties
  <2> QED
    BY <2>4, <2>5 DEF sub
<1> HIDE DEF buf, b
<1>0. /\ Counted \in RxSet /\ Counted.expected = rx.expected + 1 /\ Counted.length = rx.length
      /\ Counted.active = rx.active /\ Counted.received = rx.received /\ Counted.buffer = rx.buffer
  BY CountedIs DEF Types
<1>4. Idle \in RxSet
      /\ Idle.buffer = <<>> /\ Idle.active = FALSE
  BY DEF Idle, RxSet
<1>5. Len(<<>>) = 0 /\ <<>> \in Seq(Byte)
  OBVIOUS
<1>6. CASE Fills /\ report' = [status |-> "INCOMPLETE", data |-> buf \o SubSeq(b, 1, Room)]
           /\ rx' = [Counted EXCEPT !.buffer = <<>>, !.received = @ + Room]
  <2>1. Room < Need /\ Room < Frag /\ Room \in 0..Frag
    BY <1>1, <1>2, <1>6 DEF Fills
  <2>2. /\ buf \o SubSeq(b, 1, Room) \in Seq(Byte)
        /\ Len(buf \o SubSeq(b, 1, Room)) = Len(buf) + Room
    BY <2>1, <1>3
  <2>3. /\ rx' \in RxSet
        /\ rx'.buffer = <<>> /\ rx'.received = rx.received + Room /\ rx'.length = rx.length
        /\ rx'.expected = rx.expected + 1 /\ rx'.active = rx.active
    <3>1. rx.received + Room \in Nat
      BY <1>11, <1>12
    <3> QED
      BY <3>1, <1>0, <1>5, <1>6 DEF RxSet
  <2>4. report' \in [status : Statuses, data : Seq(Byte)] /\ Len(report'.data) <= BufLen
    <3>1. report'.data = buf \o SubSeq(b, 1, Room) /\ report'.status = "INCOMPLETE"
          /\ report' = [status |-> report'.status, data |-> report'.data]
      BY <1>6
    <3>2. Len(report'.data) = BufLen
      BY <1>11, <2>2, <3>1
    <3> QED
      <4>1. report' \in [status : Statuses, data : Seq(Byte)]
        BY <2>2, <3>1 DEF Statuses
      <4> QED
        BY <1>12, <3>2, <4>1
  <2>5. /\ rx'.received < rx'.length \/ rx'.length = 0
        /\ rx'.expected >= 1 /\ Len(rx'.buffer) <= BufLen
    BY <1>5, <1>12, <1>13, <2>1, <2>3
  <2> QED
    BY <1>10, <2>3, <2>4, <2>5 DEF Receiving
<1>7. CASE ~Fills /\ Need <= Frag
           /\ rx' = (IF rx.length > 0 THEN Idle
                     ELSE [Counted EXCEPT !.buffer = <<>>, !.received = @ + 1])
           /\ report' = [status |-> "COMPLETE", data |-> buf \o SubSeq(b, 1, Need)]
  <2>1. Need <= Room /\ Need \in 0..Frag
    BY <1>1, <1>2, <1>7 DEF Fills
  <2>2. /\ buf \o SubSeq(b, 1, Need) \in Seq(Byte)
        /\ Len(buf \o SubSeq(b, 1, Need)) = Len(buf) + Need
    BY <2>1, <1>3
  <2>3. report' \in [status : Statuses, data : Seq(Byte)] /\ Len(report'.data) <= BufLen
    BY <1>1, <1>2, <1>7, <2>1, <2>2, SMTT(30) DEF Statuses
  <2>4. CASE rx.length > 0
    BY <1>1, <1>4, <1>5, <1>7, <2>3, <2>4 DEF Receiving
  <2>5. CASE ~(rx.length > 0)
    <3>1. rx' = [Counted EXCEPT !.buffer = <<>>, !.received = @ + 1] /\ rx.length = 0
      BY <1>1, <1>7, <2>5
    <3>2. rx.received + 1 \in Nat
      BY <1>1
    <3>3. /\ rx' \in RxSet /\ rx'.buffer = <<>> /\ rx'.length = 0
          /\ rx'.expected = rx.expected + 1 /\ rx'.active = rx.active
      BY <3>1, <3>2, <1>0, <1>5 DEF RxSet
    <3>4. Len(rx'.buffer) <= BufLen /\ rx'.expected >= 1
      BY <1>1, <1>5, <3>3
    <3> QED
      BY <1>10, <2>3, <3>1, <3>3, <3>4 DEF Receiving
  <2> QED
    BY <2>4, <2>5
<1>8. CASE ~Fills /\ Need > Frag /\ UNCHANGED report
           /\ rx' = [Counted EXCEPT !.buffer = @ \o b, !.received = @ + Frag]
  <2>1. Frag <= Room /\ Need = rx.length - rx.received
    BY <1>1, <1>2, <1>8 DEF Fills
  <2>2. buf \o b \in Seq(Byte) /\ Len(buf \o b) = Len(buf) + Frag
    <3>1. buf \in Seq(Byte) /\ b \in Seq(Byte) /\ Len(b) = Frag
      BY <1>1 DEF buf, b
    <3> QED
      BY <3>1, ConcatProperties
  <2>3. /\ rx' \in RxSet
        /\ rx'.buffer = buf \o b /\ rx'.received = rx.received + Frag /\ rx'.length = rx.length
        /\ rx'.expected = rx.expected + 1 /\ rx'.active = rx.active
    <3>1. rx.received + Frag \in Nat
      BY <1>1
    <3> QED
      BY <3>1, <1>0, <1>8, <2>2 DEF RxSet, buf
  <2>4. rx'.received < rx'.length /\ rx'.expected >= 1 /\ Len(rx'.buffer) <= BufLen
    BY <1>1, <1>2, <1>8, <2>1, <2>2, <2>3, SMTT(30)
  <2>5. report' \in [status : Statuses, data : Seq(Byte)] /\ Len(report'.data) <= BufLen
    BY <1>1, <1>8 DEF Types
  <2> QED
    BY <2>3, <2>4, <2>5 DEF Receiving
<1> QED
  BY <1>6, <1>7, <1>8 DEF Take, buf, b

(* What any frame leaves.                                                     *)
LEMMA ReceiveTypes ==
  ASSUME Types, Receiving, NEW f, IsFrame(f), Receive(f)
  PROVE  /\ rx' \in RxSet /\ report' \in [status : Statuses, data : Seq(Byte)]
         /\ mistaken' \in BOOLEAN /\ expired' \in BOOLEAN
         /\ Receiving'
<1>1. /\ rx \in RxSet /\ report \in [status : Statuses, data : Seq(Byte)] /\ mistaken \in BOOLEAN
      /\ f.canid \in Senders /\ f.stream \in Streams \cup {0} /\ f.seq \in Nat /\ f.header \in BOOLEAN
      /\ rx.buffer \in Seq(Byte)
  BY DEF Types, IsFrame, RxSet
<1>2. expired' = FALSE
  BY DEF Receive
<1>3. /\ Idle \in RxSet /\ Idle.buffer = <<>> /\ Idle.active = FALSE /\ Len(<<>>) = 0
  BY DEF Idle, RxSet
<1>4. /\ BufLen \in Nat /\ Lengths \subseteq Nat /\ LenMod \in Nat \ {0}
  BY ConstantsAre DEF Constants
<1>5. ASSUME NEW len \in Stated(f), rx' = Open(f, len), mistaken' = ~(f.header /\ f.exact),
             UNCHANGED report
      PROVE  rx' \in RxSet /\ mistaken' \in BOOLEAN /\ Receiving'
  <2>0. \A n \in Lengths : n % LenMod \in Nat
    BY <1>4
  <2>1. len \in Nat /\ (len = 0 => mistaken')
    <3>1. CASE f.header
      <4>1. len = f.len /\ f.len \in Nat
        BY <1>5, <3>1 DEF Stated, IsFrame
      <4>2. CASE f.exact
        BY <3>1, <4>1, <4>2 DEF IsFrame
      <4>3. CASE ~f.exact
        BY <1>5, <4>1, <4>3
      <4> QED
        BY <4>2, <4>3
    <3>2. CASE ~f.header
      BY <2>0, <1>5, <3>2 DEF Stated
    <3> QED
      BY <3>1, <3>2
  <2>2. /\ rx' \in RxSet /\ rx'.active = TRUE /\ rx'.received = 0 /\ rx'.length = len /\ rx'.expected = 1
        /\ rx'.buffer = <<>>
    BY <1>1, <1>5, <2>1, OpenIs
  <2> QED
    BY <1>1, <1>3, <1>4, <1>5, <2>1, <2>2 DEF Receiving
<1>6. CASE UNCHANGED <<rx, report, mistaken>>
  BY <1>1, <1>2, <1>6 DEF Receiving
<1>7. CASE rx.active /\ rx' = Counted /\ UNCHANGED <<report, mistaken>>
  <2>1. /\ rx' \in RxSet /\ rx'.active = rx.active /\ rx'.received = rx.received
        /\ rx'.length = rx.length /\ rx'.expected = rx.expected + 1 /\ rx'.buffer = rx.buffer
    BY <1>1, <1>7, CountedIs
  <2>2. rx.expected \in Nat /\ rx.active
    BY <1>1, <1>7 DEF RxSet
  <2>3. Receiving'
    BY <1>7, <2>1, <2>2 DEF Receiving
  <2> QED
    BY <1>1, <1>2, <1>7, <2>1, <2>3
<1>8. CASE Mine(f) /\ InOrder(f) /\ Take(f) /\ UNCHANGED mistaken
  <2>1. rx.active
    BY <1>8 DEF Mine
  <2>2. ~f.header
    BY <1>8, <2>1 DEF InOrder, Receiving, IsFrame
  <2>3. rx' \in RxSet /\ report' \in [status : Statuses, data : Seq(Byte)] /\ Receiving'
    BY <1>8, <2>1, <2>2, TakeTypes
  <2> QED
    BY <1>1, <1>2, <1>8, <2>3
<1>9. CASE report' = [status |-> "SEQUENCE_ERROR", data |-> rx.buffer] /\ rx' = Idle /\ UNCHANGED mistaken
  <2>1. report' \in [status : Statuses, data : Seq(Byte)] /\ Len(report'.data) <= BufLen
    BY <1>1, <1>9 DEF Statuses, Receiving
  <2>2. Receiving'
    BY <1>3, <1>4, <1>9, <2>1 DEF Receiving
  <2> QED
    BY <1>1, <1>2, <1>3, <1>9, <2>1, <2>2
<1> QED
  BY <1>1, <1>2, <1>5, <1>6, <1>7, <1>8, <1>9 DEF Receive, Mine

TxSet == [n : 0..MaxMessages, stream : Streams \cup {0}, len : Lengths \cup {0}, index : Nat, seq : Nat]

(* The bytes of a sender's message are those it copied.                       *)
LEMMA WholeIs ==
  ASSUME Types, NEW s \in Senders
  PROVE  Whole(s) \in Seq(Byte) /\ Len(Whole(s)) = tx[s].len /\ tx[s].len \in Nat /\ tx[s] \in TxSet
<1>1. tx[s] \in TxSet /\ tx[s].n \in Nat /\ tx[s].len \in Nat
  <2>1. tx[s] \in TxSet
    BY DEF Types, TxSet
  <2>2. tx[s].n \in 0..MaxMessages /\ tx[s].len \in Lengths \cup {0}
    BY <2>1 DEF TxSet
  <2>3. tx[s].n \in Nat
    BY <2>2, ConstantsAre DEF Constants
  <2>4. \A n \in Lengths \cup {0} : n \in Nat
    BY ConstantsAre DEF Constants
  <2> QED
    BY <2>1, <2>2, <2>3, <2>4
<1>2. /\ Content(<<s, tx[s].n>>, tx[s].len) \in Seq({<<s, tx[s].n>>} \X Nat)
      /\ Len(Content(<<s, tx[s].n>>, tx[s].len)) = tx[s].len
  BY <1>1, ContentIs
<1>3. {<<s, tx[s].n>>} \X Nat \subseteq Byte
  BY <1>1 DEF Byte
<1> HIDE DEF Byte
<1>4. Content(<<s, tx[s].n>>, tx[s].len) \in Seq(Byte)
  BY <1>2, <1>3, SeqMonotonic
<1> QED
  BY <1>1, <1>2, <1>4 DEF Whole

Header(s, stream, len) == [header |-> TRUE, canid |-> s, stream |-> stream, seq |-> 0,
                           len |-> len % LenMod, exact |-> States(len)]
Fragment(s) == [header |-> FALSE, canid |-> s, stream |-> tx[s].stream, seq |-> tx[s].seq % SeqMod,
                bytes |-> Payload(Whole(s), tx[s].index)]

(* What a sender does to its own part of the state, and the frame it sends.   *)
LEMMA SendIs ==
  ASSUME Types, Sending, NEW s \in Senders, NEW stream \in Streams, NEW len \in Lengths,
         Send(s, stream, len)
  PROVE  /\ IsFrame(Header(s, stream, len)) /\ Transmit(Header(s, stream, len))
         /\ tx[s] \in TxSet /\ ~IsSending(s) /\ (len > 0 => IsSending(s)')
         /\ States(len) => len % LenMod = len /\ len > 0
         /\ tx' = [tx EXCEPT ![s] = [n |-> tx[s].n + 1, stream |-> stream, len |-> len,
                                     index |-> 0, seq |-> 1]]
         /\ tx' \in [Senders -> TxSet] /\ Sending'
<1>1. tx \in [Senders -> TxSet] /\ tx[s] \in TxSet /\ tx[s].n < MaxMessages /\ ~IsSending(s)
      /\ len \in Nat /\ Frag \in Nat \ {0} /\ MaxMessages \in Nat /\ tx[s].n \in Nat
      /\ LenMod \in Nat \ {0}
  BY ConstantsAre DEF Constants, Types, TxSet, Send
<1>9. len % LenMod \in Nat /\ (States(len) => len % LenMod = len /\ len > 0) /\ States(len) \in BOOLEAN
  BY <1>1 DEF States
<1>2. IsFrame(Header(s, stream, len)) /\ Transmit(Header(s, stream, len))
  BY <1>9 DEF IsFrame, Header, Send
<1>3. tx' = [tx EXCEPT ![s] = [n |-> tx[s].n + 1, stream |-> stream, len |-> len,
                               index |-> 0, seq |-> 1]]
  BY <1>1 DEF Send
<1>4. [n |-> tx[s].n + 1, stream |-> stream, len |-> len, index |-> 0, seq |-> 1] \in TxSet
  BY <1>1 DEF TxSet
<1>5. tx' \in [Senders -> TxSet]
  BY <1>1, <1>3, <1>4
<1>6. tx'[s].index = 0 /\ tx'[s].len = len /\ tx'[s].seq = 1
  BY <1>1, <1>3
<1>7. ASSUME NEW t \in Senders
      PROVE  /\ tx'[t].index <= tx'[t].len
             /\ tx'[t].index < tx'[t].len => tx'[t].seq >= 1 /\ tx'[t].index = Frag * (tx'[t].seq - 1)
  <2>1. CASE t = s
    BY <1>1, <1>6, <2>1
  <2>2. CASE t # s
    BY <1>1, <1>3, <2>2 DEF Sending, IsSending
  <2> QED
    BY <2>1, <2>2
<1> QED
  BY <1>1, <1>2, <1>3, <1>5, <1>6, <1>7, <1>9 DEF Sending, IsSending

(* A fragment is taken from where the sender is, which moves on by as much.    *)
LEMMA FragmentIs ==
  ASSUME Types, Sending, NEW s \in Senders, SendFragment(s)
  PROVE  /\ IsFrame(Fragment(s)) /\ Transmit(Fragment(s))
         /\ tx[s] \in TxSet /\ IsSending(s) /\ tx[s].seq >= 1 /\ tx[s].index = Frag * (tx[s].seq - 1)
         /\ \A t \in Senders \ {s} : tx'[t] = tx[t]
         /\ tx'[s].n = tx[s].n /\ tx'[s].stream = tx[s].stream /\ tx'[s].len = tx[s].len
         /\ tx'[s].seq = tx[s].seq + 1
         /\ tx'[s].index = IF tx[s].index + Frag < tx[s].len THEN tx[s].index + Frag ELSE tx[s].len
         /\ tx' \in [Senders -> TxSet] /\ Sending'
<1>1. tx \in [Senders -> TxSet] /\ tx[s] \in TxSet /\ IsSending(s) /\ Frag \in Nat \ {0}
      /\ tx[s].seq >= 1 /\ tx[s].index = Frag * (tx[s].seq - 1) /\ SeqMod \in Nat \ {0}
  BY ConstantsAre DEF Constants, Types, TxSet, SendFragment, Sending
<1>2. tx[s].index \in Nat /\ tx[s].seq \in Nat /\ tx[s].len \in Nat /\ tx[s].stream \in Streams \cup {0}
      /\ Whole(s) \in Seq(Byte) /\ Len(Whole(s)) = tx[s].len
  BY <1>1, WholeIs DEF TxSet
<1>3. tx[s].seq % SeqMod \in Nat
  BY <1>1, <1>2
<1>4. /\ Payload(Whole(s), tx[s].index) \in Seq(Byte)
      /\ Len(Payload(Whole(s), tx[s].index)) = Frag
  <2>1. Zero \in Byte
    BY DEF Byte
  <2> QED
    BY <2>1, <1>2, PayloadIs
<1>5. IsFrame(Fragment(s)) /\ Transmit(Fragment(s))
  <2>1. IsFrame(Fragment(s))
    BY <1>2, <1>3, <1>4 DEF IsFrame, Fragment
  <2> QED
    BY <2>1 DEF SendFragment, Fragment
<1>6. /\ tx' = [tx EXCEPT ![s].index = After(Whole(s), @), ![s].seq = @ + 1]
      /\ After(Whole(s), tx[s].index) = IF tx[s].index + Frag < tx[s].len THEN tx[s].index + Frag
                                        ELSE tx[s].len
  BY <1>2 DEF SendFragment, After
<1>7. After(Whole(s), tx[s].index) \in Nat /\ tx[s].seq + 1 \in Nat
  BY <1>1, <1>2, <1>6
<1>8. /\ \A t \in Senders \ {s} : tx'[t] = tx[t]
      /\ tx'[s].n = tx[s].n /\ tx'[s].stream = tx[s].stream /\ tx'[s].len = tx[s].len
      /\ tx'[s].seq = tx[s].seq + 1 /\ tx'[s].index = After(Whole(s), tx[s].index)
      /\ tx' \in [Senders -> TxSet]
  BY <1>1, <1>6, <1>7 DEF TxSet
<1>9. ASSUME NEW t \in Senders
      PROVE  /\ tx'[t].index <= tx'[t].len
             /\ tx'[t].index < tx'[t].len => tx'[t].seq >= 1 /\ tx'[t].index = Frag * (tx'[t].seq - 1)
  <2>1. CASE t = s
    <3>1. tx'[s].index <= tx'[s].len
      BY <1>1, <1>2, <1>6, <1>8
    <3>2. ASSUME tx'[s].index < tx'[s].len
          PROVE  tx'[s].index = tx[s].index + Frag
      BY <1>1, <1>2, <1>6, <1>8, <3>2
    <3>3. Frag * (tx[s].seq - 1) + Frag = Frag * ((tx[s].seq + 1) - 1)
      BY <1>1, <1>2
    <3> QED
      BY <1>1, <1>2, <1>8, <2>1, <3>1, <3>2, <3>3
  <2>2. CASE t # s
    BY <1>8, <2>2 DEF Sending, IsSending
  <2> QED
    BY <2>1, <2>2
<1> QED
  BY <1>1, <1>5, <1>6, <1>8, <1>9 DEF Sending, IsSending

(* What a sender has sent so far, byte for byte.                              *)
LEMMA StartIs ==
  ASSUME Types, Sending, NEW s \in Senders
  PROVE  Start(s) \in Seq(Byte) /\ Len(Start(s)) = tx[s].index
<1>1. /\ Whole(s) \in Seq(Byte) /\ Len(Whole(s)) = tx[s].len /\ tx[s].index \in Nat
      /\ tx[s].len \in Nat /\ tx[s].index <= tx[s].len
  BY WholeIs DEF TxSet, Sending
<1>2. \A i \in 1..tx[s].index : Whole(s)[i] \in Byte
  BY <1>1, ElementOfSeq
<1>3. tx[s].index \in Int /\ 1 \in Int
  BY <1>1
<1>4. /\ SubSeq(Whole(s), 1, tx[s].index) \in Seq(Byte)
      /\ Len(SubSeq(Whole(s), 1, tx[s].index))
           = IF 1 <= tx[s].index THEN tx[s].index - 1 + 1 ELSE 0
  BY <1>2, <1>3, SubSeqProperties
<1> QED
  BY <1>1, <1>4 DEF Start

(* A fragment taken by a receiver in step with its sender: the buffer fills   *)
(* up, or the message is complete and exact, or they are in step again.       *)
LEMMA TakeInStep ==
  ASSUME Types, Sending, Receiving, NEW s \in Senders, SendFragment(s),
         rx.active, InStep(s), Take(Fragment(s))
  PROVE  \/ report'.status = "INCOMPLETE" /\ rx'.active /\ tx[s].len > BufLen
         \/ rx' = Idle /\ ~IsSending(s)' /\ report' = [status |-> "COMPLETE", data |-> Whole(s)]
         \/ /\ rx'.active /\ InStep(s)' /\ rx'.expected = rx.expected + 1
            /\ UNCHANGED report
<1> DEFINE w == Whole(s)
           i == tx[s].index
<1>1. /\ w \in Seq(Byte) /\ Len(w) = tx[s].len /\ i \in Nat /\ tx[s].len \in Nat /\ i < tx[s].len
      /\ Frag \in Nat \ {0} /\ BufLen \in Nat \ {0} /\ rx \in RxSet /\ Zero \in Byte
      /\ Start(s) \in Seq(Byte) /\ Len(Start(s)) = i /\ Start(s) = SubSeq(w, 1, i)
  BY ConstantsAre, WholeIs, StartIs DEF Constants, Types, InStep, IsSending, TxSet, Byte, Start
<1>2. /\ rx.canid = s /\ rx.stream = tx[s].stream /\ rx.length = tx[s].len /\ rx.received = i
      /\ rx.buffer = Start(s)
  BY DEF InStep
<1>3. Need = tx[s].len - i /\ Room = BufLen - i
  BY <1>1, <1>2 DEF Need, Room
<1>4. Fragment(s).bytes = Payload(w, i)
  BY DEF Fragment
<1>5. /\ tx'[s].n = tx[s].n /\ tx'[s].stream = tx[s].stream /\ tx'[s].len = tx[s].len
      /\ tx'[s].index = IF i + Frag < tx[s].len THEN i + Frag ELSE tx[s].len
  BY FragmentIs
<1>6. Whole(s)' = w
  BY <1>5 DEF Whole
<1>7. /\ Counted \in RxSet /\ Counted.expected = rx.expected + 1
      /\ Counted.active = rx.active /\ Counted.received = rx.received /\ Counted.length = rx.length
      /\ Counted.buffer = rx.buffer /\ Counted.canid = rx.canid /\ Counted.stream = rx.stream
  BY <1>1, CountedIs
<1> HIDE DEF w, i
<1>8. CASE Fills /\ report' = [status |-> "INCOMPLETE", data |-> rx.buffer \o SubSeq(Fragment(s).bytes, 1, Room)]
           /\ rx' = [Counted EXCEPT !.buffer = <<>>, !.received = @ + Room]
  <2>1. tx[s].len > BufLen
    BY <1>1, <1>3, <1>8 DEF Fills
  <2>2. rx'.active
    BY <1>7, <1>8 DEF RxSet
  <2> QED
    BY <1>8, <2>1, <2>2
<1>9. CASE ~Fills /\ Need <= Frag
           /\ rx' = (IF rx.length > 0 THEN Idle
                     ELSE [Counted EXCEPT !.buffer = <<>>, !.received = @ + 1])
           /\ report' = [status |-> "COMPLETE", data |-> rx.buffer \o SubSeq(Fragment(s).bytes, 1, Need)]
  <2>1. tx[s].len <= i + Frag
    BY <1>1, <1>3, <1>9, SMTT(30)
  <2>2. SubSeq(w, 1, i) \o SubSeq(Payload(w, i), 1, Len(w) - i) = w
    BY <1>1, <2>1, JoinLast
  <2>3. report'.data = w
    BY <1>1, <1>2, <1>3, <1>4, <1>9, <2>2
  <2>4. ~(tx'[s].index < tx'[s].len) /\ rx.length > 0
    BY <1>1, <1>2, <1>5, <2>1
  <2> QED
    BY <1>9, <2>3, <2>4 DEF IsSending, w
<1>10. CASE ~Fills /\ Need > Frag /\ UNCHANGED report
            /\ rx' = [Counted EXCEPT !.buffer = @ \o Fragment(s).bytes, !.received = @ + Frag]
  <2>1. i + Frag < tx[s].len
    BY <1>1, <1>3, <1>10
  <2>2. SubSeq(w, 1, i) \o Payload(w, i) = SubSeq(w, 1, i + Frag)
    <3>1. w \in Seq(Byte) /\ Zero \in Byte /\ i \in Nat /\ i + Frag <= Len(w)
      BY <1>1, <2>1
    <3> QED
      BY <3>1, JoinNext
  <2>3. /\ rx'.buffer = rx.buffer \o Payload(w, i) /\ rx'.received = i + Frag
        /\ rx'.active = rx.active /\ rx'.canid = rx.canid /\ rx'.stream = rx.stream
        /\ rx'.length = rx.length /\ rx'.expected = rx.expected + 1
    BY <1>2, <1>4, <1>7, <1>10 DEF RxSet
  <2>4. tx'[s].index = i + Frag /\ tx'[s].index < tx'[s].len
    BY <1>5, <2>1
  <2>5. Start(s)' = SubSeq(w, 1, i + Frag)
    BY <1>6, <2>4 DEF Start
  <2>6. rx'.buffer = Start(s)'
    BY <1>1, <1>2, <2>2, <2>3, <2>5
  <2>7. InStep(s)'
    BY <1>2, <1>5, <2>3, <2>4, <2>6 DEF InStep, IsSending
  <2> QED
    BY <1>10, <2>3, <2>7
<1> QED
  BY <1>8, <1>9, <1>10 DEF Take

(* Rounding up to whole fragments.                                            *)
LEMMA Division ==
  ASSUME NEW m \in Nat \ {0}, NEW a \in Nat
  PROVE  /\ a \div m \in Nat /\ a % m \in 0..m - 1
         /\ a = m * (a \div m) + (a % m)
OBVIOUS

(* No fragment has a number beyond the number of fragments.                   *)
LEMMA NumberInRange ==
  ASSUME NEW len \in Nat, NEW k \in Nat, Frag * k < len
  PROVE  k + 1 <= Fragments(len)
<1> DEFINE a == len + Frag - 1
           q == a \div Frag
<1>1. Frag \in Nat \ {0} /\ a \in Nat
  BY FrameAssumption
<1>2. q \in Nat /\ a % Frag \in 0..Frag - 1 /\ a = Frag * q + (a % Frag)
  BY <1>1, Division
<1>3. q = Fragments(len)
  BY DEF Fragments
<1>4. Frag * k + Frag <= a
  <2>1. Frag * k \in Nat
    BY <1>1
  <2> QED
    BY <1>1, <2>1
<1> HIDE DEF a, q
<1>5. Frag * q + Frag > Frag * k + Frag
  <2>1. Frag * k \in Nat /\ Frag * q \in Nat
    BY <1>1, <1>2
  <2> QED
    BY <1>1, <1>2, <1>4, <2>1
<1>6. ~(q <= k)
  <2> SUFFICES ASSUME q <= k PROVE FALSE
    OBVIOUS
  <2>1. Frag * q <= Frag * k
    BY <1>1, <1>2
  <2>2. Frag * k \in Nat /\ Frag * q \in Nat
    BY <1>1, <1>2
  <2> QED
    BY <1>1, <1>5, <2>1, <2>2
<1> QED
  BY <1>2, <1>3, <1>6

(* What is not disturbed stays as it was.                                     *)
LEMMA Undisturbed ==
  ASSUME NEW t \in Senders, tx'[t] = tx[t], rx' = rx
  PROVE  /\ Whole(t)' = Whole(t) /\ (InStep(t) <=> InStep(t)') /\ (IsSending(t) <=> IsSending(t)')
         /\ report' = report => (Followed(t) => Followed(t)')
<1>1. Whole(t)' = Whole(t) /\ Start(t)' = Start(t) /\ (IsSending(t) <=> IsSending(t)')
  BY DEF Whole, Start, IsSending
<1>2. InStep(t) <=> InStep(t)'
  BY <1>1 DEF InStep
<1>3. Fragments(tx[t].len)' = Fragments(tx[t].len)
  BY DEF Fragments
<1> QED
  BY <1>1, <1>2, <1>3 DEF Followed

(* A header accepted puts the receiver in step with its sender.               *)
LEMMA OpenInStep ==
  ASSUME Types, Sending, NEW s \in Senders, NEW stream \in Streams, NEW len \in Lengths,
         Send(s, stream, len), States(len), rx' = Open(Header(s, stream, len), len)
  PROVE  rx'.active /\ InStep(s)' /\ rx'.expected = tx'[s].seq
<1>1. /\ IsFrame(Header(s, stream, len)) /\ IsSending(s)'
      /\ tx' = [tx EXCEPT ![s] = [n |-> tx[s].n + 1, stream |-> stream, len |-> len,
                                  index |-> 0, seq |-> 1]]
      /\ tx \in [Senders -> TxSet]
  BY SendIs DEF Types, TxSet
<1>2. tx'[s].stream = stream /\ tx'[s].len = len /\ tx'[s].index = 0 /\ tx'[s].seq = 1
  BY <1>1
<1>3. len \in Nat
  BY ConstantsAre DEF Constants
<1>4. /\ rx'.active = TRUE /\ rx'.received = 0 /\ rx'.length = len
      /\ rx'.expected = 1 /\ rx'.buffer = <<>> /\ rx'.canid = s /\ rx'.stream = stream
  <2> DEFINE h == Header(s, stream, len)
  <2>1. h.canid = s /\ h.stream = stream /\ h.canid \in Senders /\ h.stream \in Streams \cup {0}
    BY DEF Header
  <2> HIDE DEF h
  <2>2. LET r == Open(h, len)
        IN  /\ r.active = TRUE /\ r.received = 0 /\ r.length = len
            /\ r.expected = 1 /\ r.buffer = <<>> /\ r.canid = h.canid /\ r.stream = h.stream
    BY <1>3, <2>1, OpenIs
  <2> QED
    BY <2>1, <2>2 DEF h
<1>5. Start(s)' = <<>>
  <2>1. SubSeq(Whole(s)', 1, 0) = <<>>
    BY SubSeqEmpty
  <2> QED
    BY <1>2, <2>1 DEF Start
<1> QED
  BY <1>1, <1>2, <1>4, <1>5 DEF InStep

(* A message that starts is followed, or not clean.                           *)
LEMMA FollowsSend ==
  ASSUME IInv, NEW s \in Senders, NEW stream \in Streams, NEW len \in Lengths, Send(s, stream, len)
  PROVE  Follows'
<1> DEFINE h == Header(s, stream, len)
<1>1. Types /\ Sending /\ Follows /\ clean \subseteq Senders /\ tx \in [Senders -> TxSet]
  BY DEF IInv, Types, TxSet
<1>2. /\ Transmit(h) /\ (States(len) => len % LenMod = len /\ IsSending(s)')
      /\ tx' = [tx EXCEPT ![s] = [n |-> tx[s].n + 1, stream |-> stream, len |-> len,
                                  index |-> 0, seq |-> 1]]
  BY <1>1, SendIs
<1>3. CASE Receive(h) /\ clean' = Tracked(h)
  <2>1. CASE ~rx.active /\ stream \in Subscribed
    <3>1. Stated(h) = {len % LenMod}
      BY DEF Stated, Header
    <3>2. rx' = Open(h, len % LenMod)
      BY <1>3, <2>1, <3>1 DEF Receive, Header, Mine
    <3>3. clean' = {s}
      BY <1>3, <2>1 DEF Tracked, Header
    <3>5. Followed(s)'
      <4>1. CASE States(len)
        <5>1. rx' = Open(h, len)
          BY <1>2, <3>2, <4>1
        <5>2. rx'.active /\ InStep(s)' /\ rx'.expected = tx'[s].seq
          BY <1>1, <4>1, <5>1, OpenInStep
        <5>3. IsSending(s)'
          BY <1>2, <4>1
        <5> QED
          BY <5>2, <5>3 DEF Followed
      <4>2. CASE ~States(len)
        <5>1. tx'[s].len = len
          BY <1>1, <1>2
        <5> QED
          BY <4>2, <5>1 DEF Followed, States
      <4> QED
        BY <4>1, <4>2
    <3> QED
      BY <3>3, <3>5 DEF Follows
  <2>2. CASE ~(~rx.active /\ stream \in Subscribed)
    <3>1. clean' = {}
      BY <1>3, <2>2 DEF Tracked, Header
    <3> QED
      BY <3>1 DEF Follows
  <2> QED
    BY <2>1, <2>2
<1>4. CASE clean' = clean \ {h.canid} /\ UNCHANGED <<rx, expired, report, mistaken>>
  <2>1. clean' = clean \ {s}
    BY <1>4 DEF Header
  <2>2. ASSUME NEW t \in clean' PROVE Followed(t)'
    <3>1. t \in Senders /\ tx'[t] = tx[t] /\ Followed(t)
      BY <1>1, <1>2, <2>1, <2>2 DEF Follows
    <3> QED
      BY <1>4, <3>1, Undisturbed
  <2> QED
    BY <1>1, <2>1, <2>2 DEF Follows
<1> QED
  BY <1>2, <1>3, <1>4 DEF Transmit

(* A fragment keeps the receiver in step, or completes the message it follows.*)
LEMMA FollowsFragment ==
  ASSUME IInv, NEW s \in Senders, SendFragment(s)
  PROVE  Follows'
<1> DEFINE f == Fragment(s)
<1>1. Types /\ Sending /\ Receiving /\ Follows /\ clean \subseteq Senders /\ SeqMod \in Nat \ {0}
  BY ConstantsAre DEF IInv, Types, Constants
<1>2. /\ IsFrame(f) /\ Transmit(f) /\ IsSending(s) /\ tx[s].seq >= 1 /\ tx[s].index = Frag * (tx[s].seq - 1)
      /\ tx[s] \in TxSet /\ \A t \in Senders \ {s} : tx'[t] = tx[t]
      /\ tx'[s].len = tx[s].len /\ tx'[s].seq = tx[s].seq + 1 /\ tx'[s].n = tx[s].n
  BY <1>1, FragmentIs
<1>3. CASE Receive(f) /\ clean' = Tracked(f)
  <2>1. clean' = clean \cap {s}
    BY <1>3 DEF Tracked, Fragment
  <2>2. ASSUME s \in clean, States(tx[s].len), tx[s].len <= BufLen, Fragments(tx[s].len) < SeqMod
        PROVE  IF IsSending(s)' THEN rx'.active /\ InStep(s)' /\ rx'.expected = tx'[s].seq
               ELSE report' = [status |-> "COMPLETE", data |-> Whole(s)']
    <3>1. rx.active /\ InStep(s) /\ rx.expected = tx[s].seq
      BY <1>1, <1>2, <2>2 DEF Follows, Followed
    <3>2. tx[s].seq \in Nat /\ tx[s].len \in Nat /\ Frag \in Nat \ {0} /\ BufLen \in Nat
      BY <1>1, <1>2, ConstantsAre, WholeIs DEF Constants, TxSet
    <3>3. tx[s].seq < SeqMod
      <4>1. tx[s].seq - 1 \in Nat /\ Frag * (tx[s].seq - 1) < tx[s].len
        BY <1>2, <3>2 DEF IsSending
      <4>2. (tx[s].seq - 1) + 1 <= Fragments(tx[s].len)
        BY <3>2, <4>1, NumberInRange
      <4>3. Fragments(tx[s].len) \in Nat
        BY <3>2 DEF Fragments
      <4> QED
        BY <1>1, <2>2, <3>2, <4>2, <4>3
    <3>4. tx[s].seq % SeqMod = tx[s].seq
      BY <1>1, <3>2, <3>3
    <3>5. Mine(f) /\ InOrder(f)
      BY <3>1, <3>4 DEF Mine, InOrder, InStep, Fragment
    <3>6. Take(f)
      BY <1>3, <3>1, <3>5 DEF Receive
    <3>7. \/ rx' = Idle /\ ~IsSending(s)' /\ report' = [status |-> "COMPLETE", data |-> Whole(s)]
          \/ rx'.active /\ InStep(s)' /\ rx'.expected = rx.expected + 1
      BY <1>1, <2>2, <3>1, <3>2, <3>6, TakeInStep
    <3>8. Whole(s)' = Whole(s)
      BY <1>2 DEF Whole
    <3> QED
      BY <1>2, <3>1, <3>7, <3>8 DEF InStep
  <2>3. ASSUME s \in clean PROVE Followed(s)'
    BY <1>2, <2>2, <2>3 DEF Followed, Fragments
  <2> QED
    BY <2>1, <2>3 DEF Follows
<1>4. CASE clean' = clean \ {f.canid} /\ UNCHANGED <<rx, expired, report, mistaken>>
  <2>1. clean' = clean \ {s}
    BY <1>4 DEF Fragment
  <2>2. ASSUME NEW t \in clean' PROVE Followed(t)'
    <3>1. t \in Senders /\ tx'[t] = tx[t] /\ Followed(t)
      BY <1>1, <1>2, <2>1, <2>2 DEF Follows
    <3> QED
      BY <1>4, <3>1, Undisturbed
  <2> QED
    BY <1>1, <2>1, <2>2 DEF Follows
<1> QED
  BY <1>2, <1>3, <1>4 DEF Transmit

Tracks(s) == \/ InStep(s) /\ rx.expected >= tx[s].seq
             \/ Behind(s)

(* A sender that does not move leaves the receiver as far behind as it was.   *)
LEMMA StillTracks ==
  ASSUME NEW t \in Senders, tx'[t] = tx[t], Tracks(t), lost \in Nat, lost' = lost,
         tx[t].seq \in Nat, rx.expected \in Nat,
         \/ rx' = rx
         \/ /\ rx'.expected = rx.expected + 1 /\ rx'.canid = rx.canid /\ rx'.stream = rx.stream
            /\ rx'.length = rx.length /\ rx'.received = rx.received /\ rx'.buffer = rx.buffer
  PROVE  Tracks(t)'
<1>1. /\ rx'.expected >= rx.expected /\ rx'.canid = rx.canid /\ rx'.stream = rx.stream
      /\ rx'.length = rx.length /\ rx'.received = rx.received /\ rx'.buffer = rx.buffer
      /\ rx'.expected \in Nat
  OBVIOUS
<1>2. Whole(t)' = Whole(t) /\ Start(t)' = Start(t) /\ (IsSending(t) <=> IsSending(t)')
  BY DEF Whole, Start, IsSending
<1>3. CASE InStep(t) /\ rx.expected >= tx[t].seq
  BY <1>1, <1>2, <1>3 DEF InStep, Tracks
<1>4. CASE Behind(t)
  BY <1>1, <1>2, <1>4 DEF Behind, Tracks
<1> QED
  BY <1>3, <1>4 DEF Tracks

(* A header leaves the receiver in step, or as far behind as it was.          *)
LEMMA PiecesSend ==
  ASSUME IInv, NEW s \in Senders, NEW stream \in Streams, NEW len \in Lengths, Send(s, stream, len)
  PROVE  Pieces'
<1> DEFINE h == Header(s, stream, len)
<1>1. /\ Types /\ Sending /\ Receiving /\ Pieces /\ tx \in [Senders -> TxSet] /\ rx \in RxSet
      /\ rx.expected \in Nat /\ lost \in Nat
  BY DEF IInv, Types, TxSet, RxSet
<1>2. /\ Transmit(h) /\ ~IsSending(s) /\ IsFrame(h) /\ (States(len) => len % LenMod = len)
      /\ tx' = [tx EXCEPT ![s] = [n |-> tx[s].n + 1, stream |-> stream, len |-> len,
                                  index |-> 0, seq |-> 1]]
  BY <1>1, SendIs
<1>3. ASSUME NEW t \in Senders \ {s} PROVE tx'[t] = tx[t] /\ tx[t].seq \in Nat
  BY <1>1, <1>2 DEF TxSet
<1>4. Idle.active = FALSE
  BY DEF Idle
<1>5. CASE Receive(h) /\ UNCHANGED lost
  <2>1. CASE rx' = Open(h, len % LenMod) /\ mistaken' = ~States(len) /\ UNCHANGED report /\ ~rx.active
    <3>1. rx'.canid = s /\ rx'.active
      BY <2>1 DEF Open, Idle, Header
    <3>2. CASE States(len)
      <4>1. rx'.active /\ InStep(s)' /\ rx'.expected = tx'[s].seq /\ tx'[s].seq = 1
        BY <1>1, <1>2, <2>1, <3>2, OpenInStep
      <4> QED
        BY <1>1, <2>1, <3>1, <4>1 DEF Pieces
    <3>3. CASE ~States(len)
      BY <1>1, <2>1, <3>1, <3>3 DEF Pieces
    <3> QED
      BY <3>2, <3>3
  <2>2. CASE ~rx.active /\ UNCHANGED <<rx, report, mistaken>>
    BY <1>1, <2>2 DEF Pieces
  <2>3. CASE rx.active /\ ~Mine(h) /\ rx' = Counted /\ UNCHANGED <<report, mistaken>>
    <3>1. /\ rx'.expected = rx.expected + 1 /\ rx'.active = rx.active
          /\ rx'.received = rx.received /\ rx'.length = rx.length
          /\ rx'.buffer = rx.buffer /\ rx'.canid = rx.canid /\ rx'.stream = rx.stream
      BY <1>1, <2>3, CountedIs
    <3>2. ASSUME lost <= 1, ~mistaken, report.status # "INCOMPLETE"
          PROVE  Tracks(rx.canid)'
      <4>1. rx.canid \in Senders /\ Tracks(rx.canid)
        BY <1>1, <2>3, <3>2 DEF Pieces, Tracks
      <4>2. CASE rx.canid # s
        BY <1>1, <1>3, <1>5, <3>1, <4>1, <4>2, StillTracks
      <4>3. CASE rx.canid = s
        <5>1. rx.stream # stream
          BY <2>3, <4>3 DEF Mine, Header
        <5>2. Behind(s)
          BY <1>2, <4>1, <4>3 DEF Tracks, InStep
        <5>3. tx'[s].stream = stream
          BY <1>1, <1>2
        <5>4. Behind(s)'
          BY <1>5, <3>1, <5>1, <5>2, <5>3 DEF Behind
        <5>5. Tracks(s)' /\ rx'.canid = s
          BY <3>1, <4>3, <5>4 DEF Tracks
        <5> QED
          BY <5>5
      <4> QED
        BY <4>2, <4>3
    <3> QED
      BY <1>1, <1>5, <2>3, <3>1, <3>2 DEF Pieces, Tracks
  <2>4. CASE report' = [status |-> "SEQUENCE_ERROR", data |-> rx.buffer] /\ rx' = Idle
    BY <1>4, <2>4 DEF Pieces
  <2>5. ~(Mine(h) /\ InOrder(h))
    BY <1>1 DEF Mine, InOrder, Header, Receiving
  <2>6. Stated(h) = {len % LenMod} /\ h.header /\ (h.exact <=> States(len))
    BY DEF Stated, Header
  <2> QED
    BY <1>5, <2>1, <2>2, <2>3, <2>4, <2>5, <2>6 DEF Receive
<1>6. CASE lost < MaxLost /\ lost' = lost + 1 /\ UNCHANGED <<rx, expired, report, mistaken>>
  <2>1. ASSUME lost' <= 1, rx.active, ~mistaken, report.status # "INCOMPLETE"
        PROVE  Tracks(rx.canid)'
    <3>1. lost = 0 /\ rx.canid \in Senders /\ Tracks(rx.canid)
      BY <1>1, <1>6, <2>1 DEF Pieces, Tracks
    <3>2. InStep(rx.canid) /\ rx.expected >= tx[rx.canid].seq
      BY <3>1 DEF Tracks, Behind
    <3>3. rx.canid # s
      BY <1>2, <3>2 DEF InStep
    <3>4. tx'[rx.canid] = tx[rx.canid]
      BY <1>3, <3>1, <3>3
    <3>5. InStep(rx.canid)'
      BY <1>6, <3>1, <3>2, <3>4, Undisturbed
    <3> QED
      BY <1>6, <3>2, <3>4, <3>5 DEF Tracks
  <2> QED
    BY <1>1, <1>6, <2>1 DEF Pieces, Tracks
<1> QED
  BY <1>2, <1>5, <1>6 DEF Transmit

(* What taking a fragment does, whatever is in it.                            *)
LEMMA TakeIs ==
  ASSUME Types, Receiving, rx.active, NEW f, Take(f)
  PROVE  \/ report'.status = "INCOMPLETE" /\ rx'.active /\ rx'.canid = rx.canid
         \/ /\ report'.status = "COMPLETE" /\ rx.length <= rx.received + Frag
            /\ \/ rx' = Idle
               \/ rx.length = 0 /\ mistaken /\ rx'.active /\ rx'.canid = rx.canid
         \/ /\ report' = report /\ rx'.active
            /\ rx'.canid = rx.canid /\ rx'.stream = rx.stream /\ rx'.length = rx.length
            /\ rx'.received = rx.received + Frag /\ rx'.expected = rx.expected + 1
<1>1. /\ rx \in RxSet /\ Frag \in Nat \ {0} /\ rx.length \in Nat /\ rx.received \in Nat
      /\ rx.received < rx.length \/ (rx.length = 0 /\ mistaken)
  BY ConstantsAre DEF Constants, Types, RxSet, Receiving
<1>2. /\ Counted \in RxSet /\ Counted.expected = rx.expected + 1
      /\ Counted.active = rx.active /\ Counted.received = rx.received /\ Counted.length = rx.length
      /\ Counted.buffer = rx.buffer /\ Counted.canid = rx.canid /\ Counted.stream = rx.stream
  BY <1>1, CountedIs
<1>3. CASE Fills /\ report' = [status |-> "INCOMPLETE", data |-> rx.buffer \o SubSeq(f.bytes, 1, Room)]
           /\ rx' = [Counted EXCEPT !.buffer = <<>>, !.received = @ + Room]
  BY <1>2, <1>3 DEF RxSet
<1>4. CASE ~Fills /\ Need <= Frag
           /\ rx' = (IF rx.length > 0 THEN Idle
                     ELSE [Counted EXCEPT !.buffer = <<>>, !.received = @ + 1])
           /\ report' = [status |-> "COMPLETE", data |-> rx.buffer \o SubSeq(f.bytes, 1, Need)]
  <2>0. report'.status = "COMPLETE"
    BY <1>4
  <2>4. CASE rx.received < rx.length
    <3>1. Need = rx.length - rx.received /\ Need <= Frag
      BY <1>1, <1>4, <2>4 DEF Need
    <3> QED
      BY <1>1, <1>4, <2>0, <2>4, <3>1
  <2>5. CASE ~(rx.received < rx.length)
    <3>1. rx.length = 0 /\ mistaken /\ rx' = [Counted EXCEPT !.buffer = <<>>, !.received = @ + 1]
      BY <1>1, <1>4, <2>5
    <3>2. rx'.active /\ rx'.canid = rx.canid
      BY <1>2, <3>1 DEF RxSet
    <3>3. rx.length <= rx.received + Frag
      BY <1>1, <3>1
    <3> QED
      BY <2>0, <3>1, <3>2, <3>3
  <2> QED
    BY <2>4, <2>5
<1>5. CASE ~Fills /\ Need > Frag /\ UNCHANGED report
           /\ rx' = [Counted EXCEPT !.buffer = @ \o f.bytes, !.received = @ + Frag]
  BY <1>2, <1>5 DEF RxSet
<1> QED
  BY <1>3, <1>4, <1>5 DEF Take

(* A fragment in order, of a message that was followed from its header.       *)
LEMMA TakeTracked ==
  ASSUME Types, Sending, Receiving, NEW s \in Senders, SendFragment(s), lost' = lost,
         Mine(Fragment(s)), InOrder(Fragment(s)), Take(Fragment(s)), Tracks(s)
  PROVE  \/ report'.status = "INCOMPLETE" /\ rx'.active /\ rx'.canid = s
         \/ rx' = Idle /\ report' = [status |-> "COMPLETE", data |-> Whole(s)]
         \/ rx'.active /\ rx'.canid = s /\ report' = report /\ Tracks(s)'
<1>1. rx.active /\ rx.canid = s /\ rx.stream = tx[s].stream /\ rx.expected = tx[s].seq % SeqMod
  BY DEF Mine, InOrder, Fragment
<1>2. /\ tx[s].seq \in Nat /\ SeqMod \in Nat \ {0} /\ rx.expected \in Nat /\ tx[s].index \in Nat
      /\ Frag \in Nat \ {0} /\ rx.length \in Nat /\ rx.received \in Nat /\ IsSending(s)
      /\ tx[s].len \in Nat /\ tx'[s].seq = tx[s].seq + 1 /\ tx'[s].stream = tx[s].stream
      /\ tx'[s].len = tx[s].len
      /\ tx'[s].index = IF tx[s].index + Frag < tx[s].len THEN tx[s].index + Frag ELSE tx[s].len
  BY ConstantsAre, WholeIs, FragmentIs DEF Constants, Types, TxSet, RxSet
<1>3. CASE InStep(s) /\ rx.expected >= tx[s].seq
  <2>1. tx[s].seq % SeqMod <= tx[s].seq
    <3>1. /\ tx[s].seq \div SeqMod \in Nat /\ tx[s].seq % SeqMod \in 0..SeqMod - 1
          /\ tx[s].seq = SeqMod * (tx[s].seq \div SeqMod) + (tx[s].seq % SeqMod)
      BY <1>2, Division
    <3>2. SeqMod * (tx[s].seq \div SeqMod) \in Nat
      BY <1>2, <3>1
    <3> QED
      BY <1>2, <3>1, <3>2
  <2>2. rx.expected = tx[s].seq
    BY <1>1, <1>2, <1>3, <2>1
  <2>3. \/ report'.status = "INCOMPLETE" /\ rx'.active
        \/ rx' = Idle /\ report' = [status |-> "COMPLETE", data |-> Whole(s)]
        \/ rx'.active /\ InStep(s)' /\ rx'.expected = rx.expected + 1 /\ UNCHANGED report
    BY <1>1, <1>3, TakeInStep
  <2>4. rx' = Idle \/ rx'.canid = s
    BY <1>1, TakeIs, ZenonT(30)
  <2>5. ASSUME rx'.active, InStep(s)', rx'.expected = rx.expected + 1
        PROVE  Tracks(s)'
    BY <1>2, <2>2, <2>5 DEF Tracks
  <2>6. rx'.active => rx' # Idle
    BY DEF Idle
  <2> QED
    BY <2>3, <2>4, <2>5, <2>6
<1>4. CASE Behind(s)
  <2>1. rx.length = tx[s].len /\ rx.received + Frag <= tx[s].index /\ tx[s].index < tx[s].len
    BY <1>1, <1>2, <1>4 DEF Behind, IsSending
  <2>2. ~(rx.length <= rx.received + Frag)
    BY <1>2, <2>1
  <2>3. ASSUME report' = report, rx'.active, rx'.stream = rx.stream, rx'.length = rx.length,
               rx'.received = rx.received + Frag
        PROVE  Tracks(s)'
    <3>1. ASSUME tx'[s].index < tx'[s].len
          PROVE  rx'.length = tx'[s].len /\ rx'.received + Frag <= tx'[s].index
      BY <1>2, <2>1, <2>3, <3>1
    <3> QED
      BY <1>4, <3>1 DEF Behind, IsSending, Tracks
  <2> QED
    BY <1>1, <2>2, <2>3, TakeIs
<1> QED
  BY <1>3, <1>4 DEF Tracks

(* So does a fragment, lost or not.                                           *)
LEMMA PiecesFragment ==
  ASSUME IInv, NEW s \in Senders, SendFragment(s)
  PROVE  Pieces'
<1> DEFINE f == Fragment(s)
<1>1. /\ Types /\ Sending /\ Receiving /\ Pieces /\ rx \in RxSet /\ rx.expected \in Nat /\ lost \in Nat
  BY DEF IInv, Types, RxSet
<1>2. /\ IsFrame(f) /\ Transmit(f) /\ IsSending(s) /\ tx[s] \in TxSet
      /\ \A t \in Senders \ {s} : tx'[t] = tx[t]
      /\ tx'[s].len = tx[s].len /\ tx'[s].stream = tx[s].stream
      /\ tx'[s].index = IF tx[s].index + Frag < tx[s].len THEN tx[s].index + Frag ELSE tx[s].len
  BY <1>1, FragmentIs
<1>3. ASSUME NEW t \in Senders \ {s} PROVE tx'[t] = tx[t] /\ tx[t].seq \in Nat
  BY <1>1, <1>2, WholeIs DEF TxSet
<1>4. Idle.active = FALSE
  BY DEF Idle
<1>5. CASE Receive(f) /\ UNCHANGED lost
  <2>1. ASSUME NEW len, rx' = Open(f, len), mistaken' = ~(f.header /\ f.exact), UNCHANGED report,
               ~rx.active
        PROVE  Pieces'
    <3>1. mistaken'
      BY <2>1 DEF Fragment
    <3>2. rx'.canid = s
      BY <2>1 DEF Open, Idle, Fragment
    <3> QED
      BY <1>1, <2>1, <3>1, <3>2 DEF Pieces
  <2>2. CASE ~rx.active /\ UNCHANGED <<rx, report, mistaken>>
    BY <1>1, <2>2 DEF Pieces
  <2>3. CASE rx.active /\ ~Mine(f) /\ rx' = Counted /\ UNCHANGED <<report, mistaken>>
    <3>1. /\ rx'.expected = rx.expected + 1 /\ rx'.active = rx.active
          /\ rx'.received = rx.received /\ rx'.length = rx.length
          /\ rx'.buffer = rx.buffer /\ rx'.canid = rx.canid /\ rx'.stream = rx.stream
      BY <1>1, <2>3, CountedIs
    <3>2. ASSUME lost <= 1, ~mistaken, report.status # "INCOMPLETE"
          PROVE  Tracks(rx.canid)'
      <4>1. rx.canid \in Senders /\ Tracks(rx.canid)
        BY <1>1, <2>3, <3>2 DEF Pieces, Tracks
      <4>2. CASE rx.canid # s
        BY <1>1, <1>3, <1>5, <3>1, <4>1, <4>2, StillTracks
      <4>3. CASE rx.canid = s
        <5>1. rx.stream # tx[s].stream
          BY <2>3, <4>3 DEF Mine, Fragment
        <5>2. Behind(s)
          BY <4>1, <4>3, <5>1 DEF Tracks, InStep
        <5>3. Behind(s)'
          BY <1>2, <1>5, <3>1, <5>1, <5>2 DEF Behind
        <5>4. Tracks(s)' /\ rx'.canid = s
          BY <3>1, <4>3, <5>3 DEF Tracks
        <5> QED
          BY <5>4
      <4> QED
        BY <4>2, <4>3
    <3> QED
      BY <1>1, <1>5, <2>3, <3>1, <3>2 DEF Pieces, Tracks
  <2>4. CASE report' = [status |-> "SEQUENCE_ERROR", data |-> rx.buffer] /\ rx' = Idle
    BY <1>4, <2>4 DEF Pieces
  <2>5. CASE Mine(f) /\ InOrder(f) /\ Take(f) /\ UNCHANGED mistaken
    <3>1. rx.active /\ rx.canid = s
      BY <2>5 DEF Mine, Fragment
    <3>2. CASE lost <= 1 /\ ~mistaken /\ report.status # "INCOMPLETE"
      <4>1. Tracks(s)
        BY <1>1, <3>1, <3>2 DEF Pieces, Tracks
      <4>2. \/ report'.status = "INCOMPLETE" /\ rx'.active /\ rx'.canid = s
            \/ rx' = Idle /\ report' = [status |-> "COMPLETE", data |-> Whole(s)]
            \/ rx'.active /\ rx'.canid = s /\ report' = report /\ Tracks(s)'
        BY <1>1, <1>5, <2>5, <4>1, TakeTracked
      <4>3. CASE report'.status = "INCOMPLETE" /\ rx'.active /\ rx'.canid = s
        BY <4>3 DEF Pieces
      <4>4. CASE rx' = Idle /\ report' = [status |-> "COMPLETE", data |-> Whole(s)]
        BY <1>4, <4>4 DEF Pieces
      <4>5. CASE rx'.active /\ rx'.canid = s /\ report' = report /\ Tracks(s)'
        BY <3>2, <4>5 DEF Pieces, Tracks
      <4> QED
        BY <4>2, <4>3, <4>4, <4>5
    <3>3. CASE ~(lost <= 1 /\ ~mistaken /\ report.status # "INCOMPLETE")
      <4>1. \/ report'.status = "INCOMPLETE" /\ rx'.active /\ rx'.canid = s
            \/ rx' = Idle /\ report'.status = "COMPLETE"
            \/ mistaken /\ report'.status = "COMPLETE" /\ rx'.active /\ rx'.canid = s
            \/ report' = report /\ rx'.active /\ rx'.canid = s
        BY <1>1, <2>5, <3>1, TakeIs
      <4> QED
        BY <1>4, <1>5, <2>5, <3>3, <4>1 DEF Pieces
    <3> QED
      BY <3>2, <3>3
  <2>6. CASE /\ ~rx.active /\ UNCHANGED report /\ mistaken' = ~(f.header /\ f.exact)
             /\ \E len \in Stated(f) : rx' = Open(f, len)
    BY <2>1, <2>6
  <2> QED
    BY <1>5, <2>2, <2>3, <2>4, <2>5, <2>6 DEF Receive
<1>6. CASE lost < MaxLost /\ lost' = lost + 1 /\ UNCHANGED <<rx, expired, report, mistaken>>
  <2>1. ASSUME lost' <= 1, rx.active, ~mistaken, report.status # "INCOMPLETE"
        PROVE  Tracks(rx.canid)'
    <3>1. lost = 0 /\ rx.canid \in Senders /\ Tracks(rx.canid)
      BY <1>1, <1>6, <2>1 DEF Pieces, Tracks
    <3>2. InStep(rx.canid) /\ rx.expected >= tx[rx.canid].seq
      BY <3>1 DEF Tracks, Behind
    <3>3. CASE rx.canid # s
      <4>1. tx'[rx.canid] = tx[rx.canid]
        BY <1>3, <3>1, <3>3
      <4>2. InStep(rx.canid)'
        BY <1>6, <3>1, <3>2, <4>1, Undisturbed
      <4> QED
        BY <1>6, <3>2, <4>1, <4>2 DEF Tracks
    <3>4. CASE rx.canid = s
      <4>1. tx[s].index \in Nat /\ tx[s].len \in Nat /\ Frag \in Nat
        BY <1>1, <1>2, WholeIs, ConstantsAre DEF TxSet, Constants
      <4>2. ASSUME tx'[s].index < tx'[s].len PROVE tx'[s].index = tx[s].index + Frag
        BY <1>2, <4>1, <4>2
      <4>3. rx.length = tx[s].len /\ rx.received = tx[s].index
        BY <3>2, <3>4 DEF InStep
      <4>4. lost' > 0 /\ rx' = rx
        BY <1>1, <1>6
      <4>5. Behind(s)'
        BY <1>2, <4>1, <4>2, <4>3, <4>4 DEF Behind, IsSending
      <4>6. Tracks(s)' /\ rx'.canid = s
        BY <3>4, <4>4, <4>5 DEF Tracks
      <4> QED
        BY <4>6
    <3> QED
      BY <3>3, <3>4
  <2> QED
    BY <1>1, <1>6, <2>1 DEF Pieces, Tracks
<1> QED
  BY <1>2, <1>5, <1>6 DEF Transmit

(* The remaining conjuncts, for the two actions that put a frame on the bus.  *)
LEMMA TransmitTypes ==
  ASSUME Types, Receiving, NEW f, IsFrame(f), Transmit(f), tx' \in [Senders -> TxSet]
  PROVE  Types' /\ Receiving'
<1>1. /\ rx \in RxSet /\ report \in [status : Statuses, data : Seq(Byte)] /\ mistaken \in BOOLEAN
      /\ expired \in BOOLEAN /\ lost \in Nat /\ lost <= MaxLost /\ clean \subseteq Senders
      /\ f.canid \in Senders /\ MaxLost \in Nat
  BY ConstantsAre DEF Types, IsFrame, Constants
<1>2. CASE Receive(f) /\ clean' = Tracked(f) /\ UNCHANGED lost
  <2>1. clean' \subseteq Senders
    BY <1>1, <1>2 DEF Tracked
  <2> QED
    BY <1>1, <1>2, <2>1, ReceiveTypes DEF Types, TxSet
<1>3. CASE /\ lost < MaxLost /\ lost' = lost + 1 /\ clean' = clean \ {f.canid}
           /\ UNCHANGED <<rx, expired, report, mistaken>>
  <2>1. Receiving'
    BY <1>3 DEF Receiving
  <2>2. lost' \in Nat /\ lost' <= MaxLost
    BY <1>1, <1>3
  <2> QED
    BY <1>1, <1>3, <2>1, <2>2 DEF Types, TxSet
<1> QED
  BY <1>2, <1>3 DEF Transmit

(* The invariant holds at the start and is kept by every step.                *)
LEMMA Initial == Init => IInv
<1> SUFFICES ASSUME Init PROVE IInv
  OBVIOUS
<1>1. Constants /\ <<>> \in Seq(Byte) /\ Len(<<>>) = 0
  BY ConstantsAre
<1>2. Types
  <2>1. [n |-> 0, stream |-> 0, len |-> 0, index |-> 0, seq |-> 0] \in TxSet
    BY <1>1 DEF TxSet, Constants
  <2>2. tx \in [Senders -> TxSet]
    BY <2>1 DEF Init
  <2>3. rx \in RxSet /\ report \in [status : Statuses, data : Seq(Byte)]
    BY <1>1 DEF Init, Idle, RxSet, Statuses
  <2>4. /\ lost \in Nat /\ lost <= MaxLost /\ clean \subseteq Senders /\ mistaken \in BOOLEAN
        /\ expired \in BOOLEAN
    <3>1. mistaken \in BOOLEAN /\ expired \in BOOLEAN /\ clean \subseteq Senders
      BY DEF Init
    <3>2. lost = 0 /\ MaxLost \in Nat
      BY <1>1 DEF Init, Constants
    <3> QED
      BY <3>1, <3>2
  <2> QED
    BY <2>2, <2>3, <2>4 DEF Types, TxSet
<1>3. Sending
  BY DEF Init, Sending, IsSending
<1>4. Receiving
  BY <1>1 DEF Init, Receiving, Idle, Constants
<1>5. Follows /\ Pieces
  BY DEF Init, Follows, Pieces, Idle
<1> QED
  BY <1>2, <1>3, <1>4, <1>5 DEF IInv

(* One step per action: a sender's two, the clock, the timeout.              *)
LEMMA Inductive == IInv /\ [Next]_vars => IInv'
<1> SUFFICES ASSUME IInv, [Next]_vars PROVE IInv'
  OBVIOUS
<1>1. Types /\ Sending /\ Receiving /\ Follows /\ Pieces /\ tx \in [Senders -> TxSet]
  BY DEF IInv, Types, TxSet
<1>2. ASSUME NEW s \in Senders, NEW stream \in Streams, NEW len \in Lengths, Send(s, stream, len)
      PROVE  IInv'
  <2>1. /\ IsFrame(Header(s, stream, len)) /\ Transmit(Header(s, stream, len))
        /\ tx' \in [Senders -> TxSet] /\ Sending'
    BY <1>1, <1>2, SendIs
  <2>2. Types' /\ Receiving'
    BY <1>1, <2>1, TransmitTypes
  <2> QED
    BY <1>2, <2>1, <2>2, FollowsSend, PiecesSend DEF IInv
<1>3. ASSUME NEW s \in Senders, SendFragment(s) PROVE IInv'
  <2>1. IsFrame(Fragment(s)) /\ Transmit(Fragment(s)) /\ tx' \in [Senders -> TxSet] /\ Sending'
    BY <1>1, <1>3, FragmentIs
  <2>2. Types' /\ Receiving'
    BY <1>1, <2>1, TransmitTypes
  <2> QED
    BY <1>3, <2>1, <2>2, FollowsFragment, PiecesFragment DEF IInv
<1>4. ASSUME UNCHANGED <<tx, rx, report, lost, clean, mistaken>>, expired' \in BOOLEAN
      PROVE  IInv'
  <2>1. Types'
    BY <1>1, <1>4 DEF Types
  <2>2. Sending'
    BY <1>1, <1>4 DEF Sending, IsSending
  <2>3. Receiving'
    BY <1>1, <1>4 DEF Receiving
  <2>4. Follows'
    BY <1>1, <1>4, Undisturbed DEF Follows, Types
  <2>5. Pieces'
    <3>1. ASSUME NEW t \in Senders PROVE InStep(t) <=> InStep(t)'
      BY <1>4, Undisturbed
    <3>2. ASSUME NEW t \in Senders PROVE Behind(t) <=> Behind(t)'
      BY <1>4 DEF Behind, IsSending
    <3> QED
      BY <1>1, <1>4, <3>1, <3>2 DEF Pieces
  <2> QED
    BY <2>1, <2>2, <2>3, <2>4, <2>5 DEF IInv
<1>5. CASE Elapse
  BY <1>4, <1>5 DEF Elapse
<1>6. CASE Timeout
  <2>1. /\ rx \in RxSet /\ rx.buffer \in Seq(Byte) /\ Idle \in RxSet /\ Idle.active = FALSE
        /\ Idle.buffer = <<>> /\ Len(<<>>) = 0 /\ BufLen \in Nat
    BY <1>1, ConstantsAre DEF Types, RxSet, Idle, Constants
  <2>2. /\ report' = [status |-> "TIMEOUT_ERROR", data |-> rx.buffer] /\ rx' = Idle /\ clean' = {}
        /\ UNCHANGED <<tx, expired, lost, mistaken>>
    BY <1>6 DEF Timeout
  <2>3. report' \in [status : Statuses, data : Seq(Byte)] /\ Len(report'.data) <= BufLen
        /\ report'.status # "INCOMPLETE"
    BY <1>1, <2>1, <2>2 DEF Statuses, Receiving
  <2>4. Types'
    BY <1>1, <2>1, <2>2, <2>3 DEF Types
  <2>5. Sending'
    BY <1>1, <2>2 DEF Sending, IsSending
  <2>6. Receiving'
    BY <2>1, <2>2, <2>3 DEF Receiving
  <2>7. Follows' /\ Pieces'
    BY <2>1, <2>2, <2>3 DEF Follows, Pieces
  <2> QED
    BY <2>4, <2>5, <2>6, <2>7 DEF IInv
<1>7. CASE UNCHANGED vars
  BY <1>1, <1>4, <1>7 DEF vars, Types
<1> QED
  BY <1>2, <1>3, <1>5, <1>6, <1>7 DEF Next

(* The invariant of the lite implementation.                                  *)
LEMMA Invariant == Spec => []IInv
BY Initial, Inductive, PTL DEF Spec

(* Counters, buffers and the status of the lite implementation stay in range: *)
(* in particular nothing is stored beyond _receive_buffer (lines 226 to 249). *)
THEOREM TypeCorrect == Spec => []TypeOK
<1>1. IInv => TypeOK
  <2> SUFFICES ASSUME IInv PROVE TypeOK
    OBVIOUS
  <2>1. ASSUME NEW s \in Senders PROVE tx[s].index \in 0..tx[s].len /\ tx[s].n \in 0..MaxMessages
    <3>1. tx[s] \in TxSet /\ tx[s].len \in Nat /\ tx[s].index <= tx[s].len
      BY WholeIs DEF IInv, Sending
    <3> QED
      BY <3>1 DEF TxSet
  <2>2. rx.received \in 0..rx.length \/ rx.length = 0
    <3>1. rx \in RxSet
      BY DEF IInv, Types
    <3>2. CASE rx.active
      BY <3>1, <3>2 DEF IInv, Receiving, RxSet
    <3>3. CASE rx = Idle
      BY <3>3 DEF Idle
    <3> QED
      BY <3>2, <3>3 DEF IInv, Receiving
  <2> QED
    BY <2>1, <2>2 DEF IInv, Types, Receiving, TypeOK
<1> QED
  BY <1>1, Invariant, PTL

(* A message that fits the buffer and the numbers, found the receiver idle    *)
(* and met no loss, no timeout and no frame of another sender is COMPLETE by   *)
(* the time it is sent, whatever came before it (lines 175 to 290).           *)
THEOREM CleanMessagesDelivered == Spec => []CleanDelivered
<1>1. IInv => CleanDelivered
  BY DEF IInv, Types, Follows, Followed, CleanDelivered
<1> QED
  BY <1>1, Invariant, PTL

(* A message handed over as COMPLETE, on a bus that lost a frame at most.     *)
Wholly == report' # report /\ report'.status = "COMPLETE" /\ report.status # "INCOMPLETE" /\ ~mistaken
            => \E s \in Senders : report'.data = Whole(s)

(* One step hands over such a message, or none.                               *)
LEMMA WholeStep == IInv /\ [Next]_vars => [lost <= 1 => Wholly]_vars
<1> SUFFICES ASSUME IInv, Next, lost <= 1, report' # report, report'.status = "COMPLETE",
                    report.status # "INCOMPLETE", ~mistaken
             PROVE  \E s \in Senders : report'.data = Whole(s)
  BY DEF Wholly, vars
<1>1. Types /\ Sending /\ Receiving /\ Pieces
  BY DEF IInv
<1>2. ASSUME NEW s \in Senders, NEW stream \in Streams, NEW len \in Lengths, Send(s, stream, len)
      PROVE  FALSE
  <2>1. Transmit(Header(s, stream, len))
    BY <1>1, <1>2, SendIs
  <2>2. ~(Mine(Header(s, stream, len)) /\ InOrder(Header(s, stream, len)))
    BY <1>1 DEF Mine, InOrder, Header, Receiving
  <2> QED
    BY <2>1, <2>2 DEF Transmit, Receive
<1>3. ASSUME NEW s \in Senders, SendFragment(s) PROVE report'.data = Whole(s)
  <2>1. Transmit(Fragment(s))
    BY <1>1, <1>3, FragmentIs
  <2>2. Mine(Fragment(s)) /\ InOrder(Fragment(s)) /\ Take(Fragment(s)) /\ lost' = lost
    BY <2>1 DEF Transmit, Receive
  <2>3. rx.active /\ rx.canid = s
    BY <2>2 DEF Mine, Fragment
  <2>4. Tracks(s)
    BY <1>1, <2>3 DEF Pieces, Tracks
  <2> QED
    BY <1>1, <1>3, <2>2, <2>4, TakeTracked
<1>4. ~Elapse /\ ~Timeout
  BY DEF Elapse, Timeout
<1> QED
  BY <1>2, <1>3, <1>4 DEF Next

(* However many frames are lost in the end: until a second one is, what the   *)
(* lite receiver hands over as COMPLETE is a message of a sender, whole and   *)
(* of one piece, unless it comes after an INCOMPLETE part or began with       *)
(* something that does not state its length: a fragment, or a header of a     *)
(* message of 0 bytes or of more than 16 bits can count (lines 196 to 290).   *)
THEOREM WholeUntilSecondLoss == Spec => [][lost <= 1 => Wholly]_vars
BY Invariant, WholeStep, PTL DEF Spec

(* On a bus that loses one frame at most, that is what every run checks of it.*)
THEOREM CompleteMessagesWhole == ASSUME MaxLost <= 1 PROVE Spec => CompleteIsWhole
<1>1. IInv => lost <= 1
  BY ConstantsAre DEF IInv, Types, Constants
<1>2. IInv /\ [Next]_vars => [Wholly]_vars
  BY <1>1, WholeStep
<1>3. CompleteIsWhole <=> [][Wholly]_vars
  BY DEF CompleteIsWhole, Wholly
<1> QED
  BY <1>2, <1>3, Invariant, PTL DEF Spec

-----------------------------------------------------------------------------
(* Long messages, extended.                                                   *)

ExByte == (Nat \X Nat) \cup {Zero, Garbage}

SendSet == [used : BOOLEAN, stream : Streams \cup {0}, id : Nat, index : Nat, seq : Nat]
RecvSet == [used : BOOLEAN, stream : Streams \cup {0}, canid : Nodes \cup {0}, id : Nat, length : Nat,
            crc : Crcs, buffer : Seq(ExByte), expected : Nat]
Closings == {"COMPLETE", "OTHER_DATA", "CRC_ERROR", "TRUNCATED", "SEQUENCE_ERROR", "TIMEOUT_ERROR"}

FateSet == {"NONE", "ACCEPTED"} \cup Closings

ExTypes ==
  /\ sendCtx \in [Nodes -> [1..NumTx -> SendSet]]
  /\ turn \in [Nodes -> 1..NumTx] /\ halted \subseteq Nodes
  /\ recvCtx \in [1..NumRx -> RecvSet]
  /\ useCrc \in [sender : BOOLEAN, receiver : BOOLEAN]
  /\ msgs \in Seq(Messages) /\ Len(msgs) <= MaxMessages
  /\ fate \in [1..MaxMessages -> FateSet]
  /\ losses \in Nat /\ calm \in BOOLEAN

(* A context that sends is at the first byte of a fragment, the one its number*)
(* says: the first, or one that has bytes.                                    *)
Underway(x) == /\ x.id \in 1..Len(msgs) /\ (x.index < msgs[x.id].len \/ x.index = 0)
               /\ x.seq >= 1 /\ x.index = Frag * (x.seq - 1)

(* A send context in use has a message, and a stream of its own.              *)
Sent ==
  \A n \in Nodes :
    /\ \A c \in 1..NumTx : ~sendCtx[n][c].used => sendCtx[n][c] = FreeTx
    /\ \A c \in 1..NumTx : sendCtx[n][c].used => Underway(sendCtx[n][c])
    /\ \A c, d \in 1..NumTx :
         sendCtx[n][c].used /\ sendCtx[n][d].used /\ sendCtx[n][c].stream = sendCtx[n][d].stream => c = d

(* A receive context in use has what the header of its message said, bytes to *)
(* come, unless it was told of none, and room for one.                        *)
Serves(c) ==
  LET r == recvCtx[c]
  IN /\ r.id \in 1..Len(msgs) /\ r.canid \in Nodes /\ r.length = msgs[r.id].len
     /\ (Len(r.buffer) < r.length \/ r.buffer = <<>>) /\ Len(r.buffer) < BufLen
     /\ r.crc = IF useCrc.sender THEN msgs[r.id].crc ELSE NoCrc
Received == \A c \in 1..NumRx : recvCtx[c].used => Serves(c)

(* What its sender sends on its stream is the message of the header, ...      *)
Own(c) ==
  \A d \in 1..NumTx :
    LET x == sendCtx[recvCtx[c].canid][d]
    IN  x.used /\ x.stream = recvCtx[c].stream => x.id = recvCtx[c].id

(* ... and what it holds is the fragments before the one it expects.          *)
Prefix(c) ==
  LET r == recvCtx[c]
  IN  /\ r.expected >= 1 /\ Len(r.buffer) = Frag * (r.expected - 1)
      /\ r.buffer = SubSeq(Copied(r.id), 1, Len(r.buffer))
Apart == \A c \in 1..NumRx : recvCtx[c].used /\ recvCtx[c].id \notin stale => Own(c) /\ Prefix(c)

(* A receive context and the send context it follows: the same message up to  *)
(* the same byte, and the number of the next fragment.                        *)
Pair(c, n, d) ==
  LET r == recvCtx[c]
      x == sendCtx[n][d]
  IN /\ r.canid = n /\ x.used /\ x.stream = r.stream /\ x.id = r.id /\ x.seq = r.expected
     /\ r.buffer = SubSeq(Copied(x.id), 1, x.index)
Paired == \A c \in 1..NumRx : recvCtx[c].used => \E n \in Nodes, d \in 1..NumTx : Pair(c, n, d)
One == \A c, d \in 1..NumRx :
         recvCtx[c].used /\ recvCtx[d].used /\ recvCtx[c].stream = recvCtx[d].stream
           /\ recvCtx[c].canid = recvCtx[d].canid => c = d

Good(id) == msgs[id].len <= BufLen /\ Intact(id)
SameCrc == useCrc.sender => useCrc.receiver

(* A message that fits is not received, is being received, or is COMPLETE.    *)
Fated(id) == \/ fate[id] \in {"NONE", "COMPLETE"}
             \/ fate[id] = "ACCEPTED" /\ \E c \in 1..NumRx : recvCtx[c].used /\ recvCtx[c].id = id
Unsent == \A id \in 1..MaxMessages : id > Len(msgs) => fate[id] = "NONE"
Attended == Calm => Paired /\ One
Accounted == Calm /\ SameCrc => \A id \in 1..Len(msgs) : Good(id) => Fated(id)

ExIInv == ExTypes /\ Sent /\ Received /\ Unsent /\ CompleteIsExact /\ Apart /\ Attended /\ Accounted

(* A nonempty set of contexts has a first one, and the search finds it.       *)
LEMMA LowestIs ==
  ASSUME NEW S \in SUBSET Nat, S # {}
  PROVE  Lowest(S) \in S
<1> DEFINE R == OpToRel(<, Nat)
<1>1. IsWellFoundedOn(R, Nat)
  BY NatLessThanWellFounded
<1> HIDE DEF R
<1>2. \E x \in S : \A y \in S : ~(<<y, x>> \in R)
  BY <1>1, WFMin
<1>3. PICK x \in S : \A y \in S : ~(<<y, x>> \in R)
  BY <1>2
<1>4. ASSUME NEW y \in S PROVE x <= y
  <2>1. x \in Nat /\ y \in Nat /\ <<y, x>> \in Nat \X Nat
    OBVIOUS
  <2>2. y < x => <<y, x>> \in R
    BY <2>1 DEF R, OpToRel
  <2>3. ~(y < x)
    BY <1>3, <2>2, Zenon
  <2> QED
    BY <2>1, <2>3
<1> QED
  BY <1>4 DEF Lowest

(* The copy of a message has as many bytes.                                   *)
LEMMA CopiedIs ==
  ASSUME msgs \in Seq(Messages), NEW id \in 1..Len(msgs)
  PROVE  /\ id \in Nat /\ msgs[id].len \in Nat /\ msgs[id] \in Messages
         /\ Message(id) \in Seq(ExByte) /\ Len(Message(id)) = msgs[id].len
         /\ Copied(id) \in Seq(ExByte) /\ Len(Copied(id)) = msgs[id].len
<1>1. id \in Nat /\ msgs[id] \in Messages /\ msgs[id] \in [len : Nat, nul : Nat, crc : Crcs]
  BY ElementOfSeq, LenProperties, ExAssumption
<1>2. msgs[id].len \in Nat /\ msgs[id].nul \in Nat
  BY <1>1
<1>3. /\ Message(id) \in Seq({id} \X Nat) /\ Len(Message(id)) = msgs[id].len
      /\ \A i \in 1..msgs[id].len : Message(id)[i] = <<id, i>>
  BY <1>2, ContentIs DEF Message
<1>4. {id} \X Nat \subseteq ExByte
  BY <1>1 DEF ExByte
<1> HIDE DEF ExByte
<1>5. Message(id) \in Seq(ExByte)
  BY <1>3, <1>4, SeqMonotonic
<1>7. \A i \in 1..msgs[id].len : Message(id)[i] \in ExByte
  BY <1>3, <1>5, ElementOfSeq
<1>8. Garbage \in ExByte
  BY DEF ExByte
<1>9. Copied(id) \in [1..msgs[id].len -> ExByte]
  BY <1>7, <1>8 DEF Copied
<1>10. Copied(id) \in Seq(ExByte)
  BY <1>2, <1>9, SeqDef
<1>11. Len(Copied(id)) = msgs[id].len
  BY <1>2, <1>9, <1>10, LenProperties
<1> QED
  BY <1>1, <1>2, <1>3, <1>5, <1>10, <1>11

ExConstants == /\ Frag \in Nat \ {0} /\ BufLen \in Nat \ {0} /\ NumTx \in Nat \ {0} /\ NumRx \in Nat \ {0}
               /\ MaxMessages \in Nat /\ MaxLost \in Nat

(* What the code makes of the constants, in the extended implementation.      *)
LEMMA ExConstantsAre == ExConstants
BY FrameAssumption, ExAssumption DEF ExConstants

(* What has been sent stays as it was sent.                                   *)
Grows == msgs' = msgs \/ \E m \in Messages : msgs' = Append(msgs, m)

(* A message already sent, and the copy of it.                                *)
LEMMA Kept ==
  ASSUME msgs \in Seq(Messages), Grows, NEW id \in 1..Len(msgs)
  PROVE  /\ id \in 1..Len(msgs') /\ msgs'[id] = msgs[id]
         /\ Message(id)' = Message(id) /\ Copied(id)' = Copied(id)
         /\ (Good(id)' <=> Good(id)) /\ (Intact(id)' <=> Intact(id))
<1>1. id \in 1..Len(msgs') /\ msgs'[id] = msgs[id]
  <2>1. CASE msgs' = msgs
    BY <2>1
  <2>2. ASSUME NEW m \in Messages, msgs' = Append(msgs, m)
        PROVE  id \in 1..Len(msgs') /\ msgs'[id] = msgs[id]
    <3>1. Len(msgs') = Len(msgs) + 1 /\ Len(msgs) \in Nat /\ msgs'[id] = msgs[id]
      BY <2>2, AppendProperties, LenProperties
    <3> QED
      BY <3>1
  <2> QED
    BY <2>1, <2>2 DEF Grows
<1>2. Message(id)' = Message(id)
  BY <1>1 DEF Message
<1>3. Copied(id)' = Copied(id)
  BY <1>1, <1>2 DEF Copied
<1>4. Intact(id)' <=> Intact(id)
  BY <1>1, <1>2, <1>3 DEF Intact
<1> QED
  BY <1>1, <1>2, <1>3, <1>4 DEF Good

(* A receive context that a step leaves alone still serves its message, and,  *)
(* if the send context is left alone as well, still follows it.               *)
LEMMA StillServes ==
  ASSUME msgs \in Seq(Messages), Grows, useCrc' = useCrc, NEW c \in 1..NumRx,
         recvCtx'[c] = recvCtx[c], Serves(c)
  PROVE  Serves(c)'
<1>1. PICK id \in 1..Len(msgs) : id = recvCtx[c].id
  BY DEF Serves
<1>2. id \in 1..Len(msgs') /\ msgs'[id] = msgs[id] /\ Message(id)' = Message(id)
  BY Kept
<1>3. recvCtx'[c].id = id
  BY <1>1
<1>4. recvCtx'[c].length = msgs'[id].len
  BY <1>1, <1>2 DEF Serves
<1>5. msgs'[recvCtx'[c].id].crc = msgs[recvCtx[c].id].crc
  BY <1>1, <1>2, <1>3
<1> QED
  BY <1>1, <1>2, <1>3, <1>4, <1>5 DEF Serves

(* ... and, if the send context is left alone as well, still follows it.       *)
LEMMA StillPair ==
  ASSUME msgs \in Seq(Messages), Grows, NEW c \in 1..NumRx, NEW n \in Nodes, NEW d \in 1..NumTx,
         recvCtx'[c] = recvCtx[c], sendCtx'[n][d] = sendCtx[n][d],
         sendCtx[n][d].id \in 1..Len(msgs), Pair(c, n, d)
  PROVE  Pair(c, n, d)'
<1>1. PICK id \in 1..Len(msgs) : id = sendCtx[n][d].id
  OBVIOUS
<1>2. Copied(id)' = Copied(id)
  BY Kept
<1>3. sendCtx'[n][d].id = id
  BY <1>1
<1>4. Copied(sendCtx[n][d].id)' = Copied(id)'
  BY <1>3
<1>5. Copied(sendCtx[n][d].id) = Copied(id)
  BY <1>1
<1> QED
  BY <1>2, <1>4, <1>5 DEF Pair

(* One receive context and the fate of its message change.                    *)
LEMMA PutIs ==
  ASSUME ExTypes, NEW c \in 1..NumRx, NEW r \in RecvSet, NEW id \in 1..MaxMessages, NEW status \in FateSet,
         recvCtx' = [recvCtx EXCEPT ![c] = r], fate' = [fate EXCEPT ![id] = status]
  PROVE  /\ recvCtx' \in [1..NumRx -> RecvSet] /\ fate' \in [1..MaxMessages -> FateSet]
         /\ recvCtx'[c] = r /\ \A d \in 1..NumRx : d # c => recvCtx'[d] = recvCtx[d]
         /\ fate'[id] = status /\ \A i \in 1..MaxMessages : i # id => fate'[i] = fate[i]
<1>1. recvCtx \in [1..NumRx -> RecvSet] /\ fate \in [1..MaxMessages -> FateSet]
  BY DEF ExTypes
<1> HIDE DEF RecvSet, FateSet
<1>2. recvCtx' \in [1..NumRx -> RecvSet] /\ fate' \in [1..MaxMessages -> FateSet]
  BY <1>1
<1> QED
  BY <1>1, <1>2

(* What comes after the messages sent is none of them.                        *)
LEMMA Beyond ==
  ASSUME NEW len \in Nat, NEW i \in 1..MaxMessages, i > len, NEW id \in 1..len
  PROVE  i # id
BY ExConstantsAre DEF ExConstants

(* A free receive context.                                                    *)
LEMMA FreeRxIs == FreeRx \in RecvSet /\ FreeRx.used = FALSE
BY ExAssumption DEF FreeRx, RecvSet, NoCrc

(* The message of a context in use.                                           *)
LEMMA ServedIs ==
  ASSUME ExTypes, Received, NEW c \in 1..NumRx, recvCtx[c].used
  PROVE  /\ recvCtx[c] \in RecvSet /\ recvCtx[c].id \in 1..Len(msgs) /\ recvCtx[c].id \in 1..MaxMessages
         /\ Serves(c) /\ recvCtx[c].length = msgs[recvCtx[c].id].len /\ recvCtx[c].buffer \in Seq(ExByte)
         /\ recvCtx[c].canid \in Nodes /\ recvCtx[c].expected \in Nat
         /\ (Len(recvCtx[c].buffer) < recvCtx[c].length \/ recvCtx[c].buffer = <<>>)
         /\ Len(recvCtx[c].buffer) < BufLen /\ Len(recvCtx[c].buffer) \in Nat /\ recvCtx[c].length \in Nat
<1>1. recvCtx[c] \in RecvSet /\ Len(msgs) \in Nat /\ Len(msgs) <= MaxMessages /\ MaxMessages \in Nat
  BY ExConstantsAre, LenProperties DEF ExTypes, ExConstants
<1>2. Serves(c)
  BY DEF Received
<1>3. /\ recvCtx[c].buffer \in Seq(ExByte) /\ recvCtx[c].length \in Nat /\ recvCtx[c].expected \in Nat
  BY <1>1 DEF RecvSet
<1>4. Len(recvCtx[c].buffer) \in Nat
  BY <1>3, LenProperties
<1>5. recvCtx[c].id \in 1..Len(msgs)
  BY <1>2 DEF Serves
<1> QED
  BY <1>1, <1>2, <1>3, <1>4, <1>5 DEF Serves

(* A context is closed: the others go on, and the handler is told how.        *)
Outcome == recvCtx' \in [1..NumRx -> RecvSet] /\ fate' \in [1..MaxMessages -> FateSet]
Closed(c, status) == /\ recvCtx'[c] = FreeRx /\ \A d \in 1..NumRx : d # c => recvCtx'[d] = recvCtx[d]
                     /\ fate'[recvCtx[c].id] = status
                     /\ \A i \in 1..MaxMessages : i # recvCtx[c].id => fate'[i] = fate[i]

(* What was wrong with a message that came out wrong stays wrong with it.     *)
LEMMA StillWrong ==
  ASSUME ExTypes, Unsent, CompleteIsExact, Grows, stale \subseteq stale',
         NEW i \in 1..MaxMessages, fate[i] = "OTHER_DATA"
  PROVE  i \in stale' \/ ~Intact(i)'
<1>1. msgs \in Seq(Messages) /\ Len(msgs) \in Nat /\ MaxMessages \in Nat /\ DOMAIN msgs = 1..Len(msgs)
  BY ExConstantsAre, LenProperties DEF ExTypes, ExConstants
<1>2. ~(i > Len(msgs))
  BY DEF Unsent
<1>3. i \in 1..Len(msgs)
  BY <1>1, <1>2
<1>4. i \in stale \/ ~Intact(i)
  BY <1>1, <1>3 DEF CompleteIsExact
<1> QED
  BY <1>1, <1>3, <1>4, Kept

(* That is all there is to show, for the messages sent are few enough.        *)
LEMMA ExactIs ==
  ASSUME msgs' \in Seq(Messages), Len(msgs') <= MaxMessages,
         \A i \in 1..MaxMessages : fate'[i] = "OTHER_DATA" => i \in stale' \/ ~Intact(i)'
  PROVE  CompleteIsExact'
<1>1. DOMAIN msgs' = 1..Len(msgs') /\ Len(msgs') \in Nat /\ MaxMessages \in Nat
  BY ExConstantsAre, LenProperties DEF ExConstants
<1>2. \A i \in DOMAIN msgs' : i \in 1..MaxMessages
  BY <1>1
<1> QED
  BY <1>2 DEF CompleteIsExact

(* ... and no other does when no fate changes.                                *)
LEMMA StillExact ==
  ASSUME ExTypes, Unsent, CompleteIsExact, Grows, stale \subseteq stale', fate' = fate,
         msgs' \in Seq(Messages), Len(msgs') <= MaxMessages
  PROVE  CompleteIsExact'
<1>1. ASSUME NEW i \in 1..MaxMessages, fate[i] = "OTHER_DATA" PROVE i \in stale' \/ ~Intact(i)'
  BY <1>1, StillWrong
<1> QED
  BY <1>1, ExactIs

(* Closing a context keeps the rest of the invariant.                         *)
LEMMA CloseIs ==
  ASSUME ExTypes, Received, Unsent, CompleteIsExact, UNCHANGED <<msgs, useCrc, stale>>,
         NEW c \in 1..NumRx, recvCtx[c].used, NEW status \in Closings, Close(c, status),
         status = "OTHER_DATA" => recvCtx[c].id \in stale \/ ~Intact(recvCtx[c].id)
  PROVE  Outcome /\ Closed(c, status) /\ Received' /\ Unsent' /\ CompleteIsExact'
<1>1. recvCtx[c].id \in 1..Len(msgs) /\ recvCtx[c].id \in 1..MaxMessages
  BY ServedIs
<1>2. PICK id \in 1..MaxMessages : id = recvCtx[c].id
  BY <1>1
<1>3. status \in FateSet
  BY DEF FateSet
<1>4. Outcome /\ Closed(c, status)
  <2>1. recvCtx' = [recvCtx EXCEPT ![c] = FreeRx] /\ fate' = [fate EXCEPT ![id] = status]
    BY <1>2 DEF Close
  <2> QED
    BY <1>2, <1>3, <2>1, FreeRxIs, PutIs DEF Outcome, Closed
<1>5. Received'
  <2>1. ASSUME NEW d \in 1..NumRx, recvCtx'[d].used PROVE Serves(d)'
    <3>1. d # c
      BY <1>4, <2>1, FreeRxIs DEF Closed
    <3>2. recvCtx'[d] = recvCtx[d] /\ Serves(d)
      BY <1>4, <2>1, <3>1 DEF Closed, Received
    <3>3. msgs \in Seq(Messages) /\ Grows /\ useCrc' = useCrc
      BY DEF ExTypes, Grows
    <3> QED
      BY <3>2, <3>3, StillServes
  <2> QED
    BY <2>1 DEF Received
<1>6. Unsent'
  <2>1. ASSUME NEW i \in 1..MaxMessages, i > Len(msgs') PROVE fate'[i] = "NONE"
    <3>1. Len(msgs) \in Nat /\ i > Len(msgs)
      BY <2>1, LenProperties DEF ExTypes
    <3>2. id \in 1..Len(msgs)
      BY <1>1, <1>2
    <3>3. i # id
      BY <3>1, <3>2, Beyond
    <3> QED
      BY <1>2, <1>4, <3>1, <3>3 DEF Closed, Unsent
  <2> QED
    BY <2>1 DEF Unsent
<1>7. CompleteIsExact'
  <2>1. ASSUME NEW i \in 1..MaxMessages, fate'[i] = "OTHER_DATA" PROVE i \in stale' \/ ~Intact(i)'
    <3>1. Grows /\ stale \subseteq stale' /\ msgs \in Seq(Messages)
      BY DEF Grows, ExTypes
    <3>2. CASE i = id
      <4>1. status = "OTHER_DATA" /\ id \in 1..Len(msgs)
        BY <1>1, <1>2, <1>4, <2>1, <3>2 DEF Closed
      <4>2. id \in stale \/ ~Intact(id)
        BY <1>2, <4>1
      <4>3. Intact(id)' <=> Intact(id)
        BY <3>1, <4>1, Kept
      <4> QED
        BY <3>1, <3>2, <4>2, <4>3
    <3>3. CASE i # id
      <4>1. fate[i] = "OTHER_DATA"
        BY <1>2, <1>4, <2>1, <3>3 DEF Closed
      <4> QED
        BY <3>1, <4>1, StillWrong
    <3> QED
      BY <3>2, <3>3
  <2> QED
    BY <2>1, ExactIs DEF ExTypes
<1> QED
  BY <1>4, <1>5, <1>6, <1>7

(* What a fragment is, and what the receiver makes of one: it has no context  *)
(* for it, or closes the context, or stores the bytes.                        *)
IsFragment(f) == /\ f.canid \in Nodes /\ f.stream \in Streams \cup {0} /\ f.seq \in Nat
                 /\ f.bytes \in Seq(ExByte) /\ Len(f.bytes) = Frag

Stored(c, f) == /\ recvCtx'[c] = [recvCtx[c] EXCEPT !.buffer = @ \o f.bytes, !.expected = @ + 1]
                /\ \A d \in 1..NumRx : d # c => recvCtx'[d] = recvCtx[d]
                /\ fate' = fate

(* The bytes of a fragment are stored, and there is room for more.            *)
LEMMA StoreIs ==
  ASSUME ExTypes, Received, Unsent, CompleteIsExact, UNCHANGED <<msgs, useCrc, stale>>,
         NEW c \in 1..NumRx, recvCtx[c].used, NEW f, IsFragment(f), Frag < ExNeed(c), Frag < ExRoom(c),
         recvCtx' = [recvCtx EXCEPT ![c].buffer = @ \o f.bytes, ![c].expected = @ + 1], fate' = fate
  PROVE  Outcome /\ Stored(c, f) /\ Received' /\ Unsent' /\ CompleteIsExact'
<1> DEFINE r == recvCtx[c]
           buf == r.buffer \o f.bytes
           q == [r EXCEPT !.buffer = buf, !.expected = r.expected + 1]
<1>1. /\ r \in RecvSet /\ r.id \in 1..Len(msgs) /\ Serves(c) /\ r.length = msgs[r.id].len
      /\ r.buffer \in Seq(ExByte) /\ r.canid \in Nodes /\ r.expected \in Nat
      /\ Len(r.buffer) \in Nat /\ r.length \in Nat /\ Frag \in Nat /\ BufLen \in Nat
  BY ServedIs, ExConstantsAre DEF ExConstants
<1>2. buf \in Seq(ExByte) /\ Len(buf) = Len(r.buffer) + Frag
  <2> DEFINE a == r.buffer
             b == f.bytes
  <2>1. a \in Seq(ExByte) /\ b \in Seq(ExByte) /\ Len(b) = Frag
    BY <1>1 DEF IsFragment
  <2> HIDE DEF a, b
  <2>2. a \o b \in Seq(ExByte) /\ Len(a \o b) = Len(a) + Frag
    BY <2>1, ConcatProperties
  <2> QED
    BY <2>2 DEF a, b
<1>3. Len(buf) < r.length /\ Len(buf) < BufLen
  <2>1. r.length # 0 /\ Frag \in Nat \ {0}
    BY ExConstantsAre DEF ExNeed, ExConstants
  <2> QED
    BY <1>1, <1>2, <2>1, SMTT(30) DEF ExNeed, ExRoom
<1>4. r.expected + 1 \in Nat
  BY <1>1
<1>5. recvCtx' = [recvCtx EXCEPT ![c] = q]
  OBVIOUS
<1> HIDE DEF buf
<1>6. /\ q \in RecvSet /\ q.buffer = buf /\ q.id = r.id /\ q.canid = r.canid /\ q.length = r.length
      /\ q.crc = r.crc
  BY <1>1, <1>2, <1>4 DEF RecvSet
<1>7. recvCtx' \in [1..NumRx -> RecvSet] /\ recvCtx'[c] = q
      /\ \A d \in 1..NumRx : d # c => recvCtx'[d] = recvCtx[d]
  <2> HIDE DEF q, RecvSet
  <2>1. recvCtx \in [1..NumRx -> RecvSet]
    BY DEF ExTypes
  <2> QED
    BY <1>5, <1>6, <2>1
<1>8. Outcome /\ Stored(c, f)
  <2>1. fate \in [1..MaxMessages -> FateSet]
    BY DEF ExTypes
  <2> QED
    BY <1>7, <2>1 DEF Outcome, Stored, buf
<1>9. Received'
  <2>1. Serves(c)'
    <3>1. PICK id \in 1..Len(msgs) : id = r.id
      BY <1>1
    <3>2. /\ recvCtx'[c].id = id /\ recvCtx'[c].canid = r.canid /\ recvCtx'[c].length = r.length
          /\ recvCtx'[c].buffer = buf /\ recvCtx'[c].crc = r.crc
      BY <1>6, <1>7, <3>1
    <3>3. r.crc = IF useCrc.sender THEN msgs[id].crc ELSE NoCrc
      BY <1>1, <3>1 DEF Serves
    <3> QED
      BY <1>1, <1>3, <3>1, <3>2, <3>3 DEF Serves
  <2>2. ASSUME NEW d \in 1..NumRx, recvCtx'[d].used, d # c PROVE Serves(d)'
    <3>1. recvCtx'[d] = recvCtx[d] /\ Serves(d)
      BY <1>7, <2>2 DEF Received
    <3>2. msgs \in Seq(Messages) /\ Grows /\ useCrc' = useCrc
      BY DEF ExTypes, Grows
    <3> QED
      BY <3>1, <3>2, StillServes
  <2> QED
    BY <2>1, <2>2 DEF Received
<1>10. Unsent'
  BY DEF Unsent
<1>11. CompleteIsExact'
  <2>1. Grows /\ stale \subseteq stale' /\ msgs' \in Seq(Messages) /\ Len(msgs') <= MaxMessages
    BY DEF Grows, ExTypes
  <2> QED
    BY <2>1, StillExact
<1> QED
  BY <1>8, <1>9, <1>10, <1>11

(* A context that is not stale gets the bytes that follow those it holds.     *)
Continues(c, f) == LET r == recvCtx[c]
                   IN  /\ r.buffer = SubSeq(Copied(r.id), 1, Len(r.buffer))
                       /\ f.bytes = Payload(Copied(r.id), Len(r.buffer))
Proper(f) == \A c \in Matching(f) : recvCtx[c].id \notin stale /\ f.seq = recvCtx[c].expected
                                       => Continues(c, f)

(* All the bytes of such a context are those of its message.                  *)
LEMMA AllBytes ==
  ASSUME ExTypes, Received, NEW c \in 1..NumRx, recvCtx[c].used, NEW f, Continues(c, f),
         ExNeed(c) <= Frag, Intact(recvCtx[c].id)
  PROVE  recvCtx[c].buffer \o SubSeq(f.bytes, 1, ExNeed(c)) = Message(recvCtx[c].id)
<1>1. PICK id \in 1..Len(msgs) : id = recvCtx[c].id
  BY ServedIs
<1> DEFINE k == Len(recvCtx[c].buffer)
           data == Copied(id)
<1>2. /\ msgs[id].len \in Nat /\ data \in Seq(ExByte) /\ Len(data) = msgs[id].len
      /\ msgs[id].len > 0 /\ data = Message(id)
  BY <1>1, CopiedIs DEF ExTypes, Intact
<1>3. recvCtx[c].length = msgs[id].len /\ k \in Nat /\ (k < recvCtx[c].length \/ recvCtx[c].buffer = <<>>)
  BY <1>1, ServedIs
<1>4. k < Len(data)
  <2>1. CASE recvCtx[c].buffer = <<>>
    BY <1>2, <2>1
  <2> QED
    BY <1>2, <1>3, <2>1
<1>5. recvCtx[c].buffer = SubSeq(data, 1, k) /\ f.bytes = Payload(data, k)
  BY <1>1 DEF Continues
<1>6. Zero \in ExByte
  BY DEF ExByte
<1> HIDE DEF k, data, ExByte
<1>7. ExNeed(c) = Len(data) - k
  BY <1>2, <1>3 DEF ExNeed, k
<1>8. Len(data) <= k + Frag
  BY <1>2, <1>3, <1>7, ExConstantsAre DEF ExConstants
<1>9. SubSeq(data, 1, k) \o SubSeq(Payload(data, k), 1, Len(data) - k) = data
  BY <1>2, <1>3, <1>4, <1>6, <1>8, JoinLast
<1> QED
  BY <1>1, <1>2, <1>5, <1>7, <1>9

(* What a fragment does to a context: nothing, or it closes it, or it adds to *)
(* what the context holds.                                                    *)
Changed(c, f) == \/ recvCtx'[c] = recvCtx[c]
                 \/ ~recvCtx'[c].used
                 \/ /\ c \in Matching(f) /\ f.seq = recvCtx[c].expected /\ Frag < ExNeed(c)
                    /\ Stored(c, f)

(* Whatever fragment arrives.                                                 *)
LEMMA FragmentOutcome ==
  ASSUME ExTypes, Received, Unsent, CompleteIsExact, UNCHANGED <<msgs, useCrc, stale>>,
         NEW f, IsFragment(f), Proper(f), ReceiveFragment(f)
  PROVE  /\ Outcome /\ Received' /\ Unsent' /\ CompleteIsExact'
         /\ \A c \in 1..NumRx : Changed(c, f)
<1>1. CASE Matching(f) = {} /\ UNCHANGED <<recvCtx, fate>>
  <2>1. Outcome
    BY <1>1 DEF ExTypes, Outcome
  <2>2. Received'
    <3>1. ASSUME NEW c \in 1..NumRx, recvCtx'[c].used PROVE Serves(c)'
      <4>1. recvCtx'[c] = recvCtx[c] /\ Serves(c) /\ msgs \in Seq(Messages) /\ Grows /\ useCrc' = useCrc
        BY <1>1, <3>1 DEF Received, ExTypes, Grows
      <4> QED
        BY <4>1, StillServes
    <3> QED
      BY <3>1 DEF Received
  <2>3. Unsent' /\ \A c \in 1..NumRx : Changed(c, f)
    BY <1>1 DEF Unsent, Changed
  <2>4. CompleteIsExact'
    <3>1. Grows /\ stale \subseteq stale' /\ fate' = fate /\ msgs' \in Seq(Messages) /\ Len(msgs') <= MaxMessages
      BY <1>1 DEF Grows, ExTypes
    <3> QED
      BY <3>1, StillExact
  <2> QED
    BY <2>1, <2>2, <2>3, <2>4
<1>2. CASE Matching(f) # {}
  <2>1. Lowest(Matching(f)) \in Matching(f)
    <3>1. Matching(f) \subseteq 1..NumRx /\ 1..NumRx \subseteq Nat
      BY ExConstantsAre DEF Matching, ExConstants
    <3> QED
      BY <1>2, <3>1, LowestIs
  <2>2. PICK c \in 1..NumRx : c = Lowest(Matching(f)) /\ recvCtx[c].used /\ c \in Matching(f)
    BY <2>1 DEF Matching
  <2>3. \/ f.seq = recvCtx[c].expected /\ ExTake(c, f)
        \/ f.seq # recvCtx[c].expected /\ Close(c, "SEQUENCE_ERROR")
    BY <1>2, <2>2 DEF ReceiveFragment
  <2>4. ASSUME NEW status \in Closings, Close(c, status),
               status = "OTHER_DATA" => recvCtx[c].id \in stale \/ ~Intact(recvCtx[c].id)
        PROVE  /\ Outcome /\ Received' /\ Unsent' /\ CompleteIsExact'
               /\ \A g \in 1..NumRx : Changed(g, f)
    <3>1. Outcome /\ Closed(c, status) /\ Received' /\ Unsent' /\ CompleteIsExact'
      BY <2>2, <2>4, CloseIs
    <3> QED
      BY <3>1, FreeRxIs DEF Closed, Changed
  <2>5. CASE Close(c, "SEQUENCE_ERROR")
    BY <2>4, <2>5 DEF Closings
  <2>6. CASE Close(c, "TRUNCATED")
    BY <2>4, <2>6 DEF Closings
  <2>7. CASE /\ f.seq = recvCtx[c].expected /\ ExNeed(c) <= Frag
             /\ Complete(c, recvCtx[c].buffer \o SubSeq(f.bytes, 1, ExNeed(c)))
    <3> DEFINE data == recvCtx[c].buffer \o SubSeq(f.bytes, 1, ExNeed(c))
    <3>1. PICK status \in Closings : /\ Close(c, status)
                                     /\ status = "OTHER_DATA" => data # Message(recvCtx[c].id)
      <4> HIDE DEF data
      <4>1. Complete(c, data)
        BY <2>7 DEF data
      <4> QED
        BY <4>1 DEF Complete, Closings
    <3>2. ASSUME recvCtx[c].id \notin stale, Intact(recvCtx[c].id)
          PROVE  data = Message(recvCtx[c].id)
      <4>1. Continues(c, f)
        BY <2>2, <2>7, <3>2 DEF Proper
      <4> QED
        BY <2>2, <2>7, <3>2, <4>1, AllBytes
    <3> QED
      BY <2>4, <3>1, <3>2
  <2>8. CASE /\ f.seq = recvCtx[c].expected /\ Frag < ExNeed(c) /\ Frag < ExRoom(c)
             /\ recvCtx' = [recvCtx EXCEPT ![c].buffer = @ \o f.bytes, ![c].expected = @ + 1]
             /\ UNCHANGED fate
    <3>1. Outcome /\ Stored(c, f) /\ Received' /\ Unsent' /\ CompleteIsExact'
      BY <2>2, <2>8, StoreIs
    <3>2. ASSUME NEW g \in 1..NumRx PROVE Changed(g, f)
      <4>1. CASE g = c
        BY <2>2, <2>8, <3>1, <4>1 DEF Changed
      <4>2. CASE g # c
        BY <3>1, <4>2 DEF Changed, Stored
      <4> QED
        BY <4>1, <4>2
    <3> QED
      BY <3>1, <3>2
  <2> QED
    BY <2>3, <2>5, <2>6, <2>7, <2>8 DEF ExTake
<1> QED
  BY <1>1, <1>2 DEF ReceiveFragment

(* The header of the next message, and a receive context opened by it.        *)
HeaderOf(n, stream, m) ==
  [stream |-> stream, canid |-> n, id |-> Len(msgs) + 1, len |-> m.len,
   crc |-> IF useCrc.sender THEN m.crc ELSE NoCrc]
OpenedAt(c, f) == /\ recvCtx'[c] = Opened(f) /\ \A d \in 1..NumRx : d # c => recvCtx'[d] = recvCtx[d]
                  /\ fate'[f.id] = "ACCEPTED"
                  /\ \A i \in 1..MaxMessages : i # f.id => fate'[i] = fate[i]

(* One more message.                                                          *)
LEMMA AppendedIs ==
  ASSUME ExTypes, Len(msgs) < MaxMessages, NEW m \in Messages, msgs' = Append(msgs, m)
  PROVE  /\ msgs' \in Seq(Messages) /\ Len(msgs) \in Nat /\ Len(msgs') = Len(msgs) + 1
         /\ Len(msgs') <= MaxMessages /\ Len(msgs) + 1 \in 1..MaxMessages
         /\ msgs'[Len(msgs) + 1] = m /\ m.len \in Nat /\ m.crc \in Crcs /\ Grows
<1>1. msgs \in Seq(Messages) /\ Len(msgs) \in Nat /\ MaxMessages \in Nat
  BY ExConstantsAre, LenProperties DEF ExTypes, ExConstants
<1>2. msgs' \in Seq(Messages) /\ Len(msgs') = Len(msgs) + 1 /\ msgs'[Len(msgs) + 1] = m
  BY <1>1, AppendProperties
<1>3. m.len \in Nat /\ m.crc \in Crcs
  BY ExAssumption
<1>4. Grows
  BY DEF Grows
<1> QED
  BY <1>1, <1>2, <1>3, <1>4

(* A header opens a context for the message it announces, or does nothing.    *)
LEMMA HeaderOutcome ==
  ASSUME ExTypes, Received, Unsent, CompleteIsExact, useCrc' = useCrc, stale \subseteq stale',
         Len(msgs) < MaxMessages,
         NEW n \in Nodes, NEW stream \in Streams, NEW m \in Messages, msgs' = Append(msgs, m),
         ReceiveHeader(HeaderOf(n, stream, m))
  PROVE  /\ Outcome /\ Received' /\ Unsent' /\ CompleteIsExact'
         /\ \/ UNCHANGED <<recvCtx, fate>>
            \/ \E c \in 1..NumRx : ~recvCtx[c].used /\ OpenedAt(c, HeaderOf(n, stream, m))
<1> DEFINE f == HeaderOf(n, stream, m)
<1>0. PICK id \in 1..MaxMessages : id = Len(msgs) + 1
  BY AppendedIs
<1>1. /\ f.stream = stream /\ f.canid = n /\ f.id = id /\ f.len = m.len
      /\ f.crc = IF useCrc.sender THEN m.crc ELSE NoCrc
  BY <1>0 DEF HeaderOf
<1>2. /\ msgs' \in Seq(Messages) /\ Len(msgs) \in Nat /\ Len(msgs') = Len(msgs) + 1
      /\ Len(msgs') <= MaxMessages /\ id \in 1..Len(msgs') /\ id \in Nat /\ id > Len(msgs)
      /\ msgs'[id] = m /\ m.len \in Nat /\ m.crc \in Crcs /\ Grows
      /\ msgs \in Seq(Messages) /\ fate \in [1..MaxMessages -> FateSet]
      /\ recvCtx \in [1..NumRx -> RecvSet] /\ useCrc \in [sender : BOOLEAN, receiver : BOOLEAN]
  BY <1>0, AppendedIs DEF ExTypes
<1>4. CASE UNCHANGED <<recvCtx, fate>>
  <2>1. Outcome
    BY <1>2, <1>4 DEF Outcome
  <2>2. ASSUME NEW c \in 1..NumRx, recvCtx'[c].used PROVE Serves(c)'
    <3>1. recvCtx'[c] = recvCtx[c] /\ Serves(c)
      BY <1>4, <2>2 DEF Received
    <3> QED
      BY <1>2, <3>1, StillServes
  <2>3. Unsent'
    <3>1. \A i \in 1..MaxMessages : i > Len(msgs') => i > Len(msgs)
      BY <1>2, ExConstantsAre DEF ExConstants
    <3> QED
      BY <1>4, <3>1 DEF Unsent
  <2>4. CompleteIsExact'
    BY <1>2, <1>4, StillExact
  <2> QED
    BY <1>4, <2>1, <2>2, <2>3, <2>4 DEF Received
<1>5. ASSUME NEW c \in 1..NumRx, ~recvCtx[c].used, recvCtx' = [recvCtx EXCEPT ![c] = Opened(f)],
             fate' = [fate EXCEPT ![id] = "ACCEPTED"]
      PROVE  Outcome /\ Received' /\ Unsent' /\ CompleteIsExact' /\ OpenedAt(c, f)
  <2>1. /\ Opened(f) \in RecvSet /\ Opened(f).id = id /\ Opened(f).canid = n /\ Opened(f).length = m.len
        /\ Opened(f).buffer = <<>> /\ Opened(f).crc = f.crc
    <3>1. f.crc \in Crcs
      BY <1>1, <1>2, ExAssumption DEF NoCrc
    <3>2. <<>> \in Seq(ExByte)
      OBVIOUS
    <3> HIDE DEF f
    <3> QED
      BY <1>1, <1>2, <3>1, <3>2 DEF Opened, RecvSet
  <2>2. /\ Outcome /\ recvCtx'[c] = Opened(f) /\ \A d \in 1..NumRx : d # c => recvCtx'[d] = recvCtx[d]
        /\ fate'[id] = "ACCEPTED" /\ \A i \in 1..MaxMessages : i # id => fate'[i] = fate[i]
    <3>1. "ACCEPTED" \in FateSet
      BY DEF FateSet
    <3> HIDE DEF f
    <3> QED
      BY <1>5, <2>1, <3>1, PutIs, ZenonT(30) DEF Outcome
  <2>3. ASSUME NEW d \in 1..NumRx, recvCtx'[d].used PROVE Serves(d)'
    <3>1. CASE d = c
      <4>1. /\ recvCtx'[c].id = id /\ recvCtx'[c].canid = n /\ recvCtx'[c].length = m.len
            /\ recvCtx'[c].buffer = <<>> /\ recvCtx'[c].crc = f.crc
        BY <2>1, <2>2
      <4>2. msgs'[recvCtx'[c].id] = m
        BY <1>2, <4>1
      <4>3. Len(<<>>) = 0 /\ BufLen > 0
        BY ExConstantsAre DEF ExConstants
      <4> HIDE DEF f
      <4>4. Serves(c)'
        BY <1>1, <1>2, <4>1, <4>2, <4>3 DEF Serves
      <4> QED
        BY <3>1, <4>4
    <3>2. CASE d # c
      <4>1. recvCtx'[d] = recvCtx[d] /\ Serves(d)
        BY <2>2, <2>3, <3>2 DEF Received
      <4> QED
        BY <1>2, <4>1, StillServes
    <3> QED
      BY <3>1, <3>2
  <2>4. Unsent'
    <3>1. \A i \in 1..MaxMessages : i > Len(msgs') => i > Len(msgs) /\ i # id
      BY <1>0, <1>2, ExConstantsAre DEF ExConstants
    <3> QED
      BY <2>2, <3>1 DEF Unsent
  <2>5. CompleteIsExact'
    <3>1. ASSUME NEW i \in 1..MaxMessages, fate'[i] = "OTHER_DATA" PROVE i \in stale' \/ ~Intact(i)'
      <4>1. fate[i] = "OTHER_DATA"
        BY <2>2, <3>1
      <4> QED
        BY <1>2, <4>1, StillWrong
    <3> QED
      BY <1>2, <3>1, ExactIs
  <2> HIDE DEF f
  <2>6. OpenedAt(c, f)
    BY <1>1, <2>2 DEF OpenedAt
  <2> QED
    BY <2>2, <2>3, <2>4, <2>5, <2>6 DEF Received
<1>6. CASE FreeContexts # {} /\ recvCtx' = [recvCtx EXCEPT ![Lowest(FreeContexts)] = Opened(f)]
           /\ fate' = [fate EXCEPT ![f.id] = "ACCEPTED"]
  <2>1. Lowest(FreeContexts) \in FreeContexts
    <3>1. FreeContexts \subseteq 1..NumRx /\ 1..NumRx \subseteq Nat
      BY ExConstantsAre DEF FreeContexts, ExConstants
    <3> QED
      BY <1>6, <3>1, LowestIs
  <2>2. PICK c \in 1..NumRx : c = Lowest(FreeContexts) /\ ~recvCtx[c].used
    BY <2>1 DEF FreeContexts
  <2> HIDE DEF f
  <2>3. recvCtx' = [recvCtx EXCEPT ![c] = Opened(f)] /\ fate' = [fate EXCEPT ![id] = "ACCEPTED"]
    BY <1>1, <1>6, <2>2
  <2>4. Outcome /\ Received' /\ Unsent' /\ CompleteIsExact' /\ OpenedAt(c, f)
    BY <1>5, <2>2, <2>3
  <2> QED
    BY <2>2, <2>4 DEF f
<1> QED
  BY <1>4, <1>6 DEF ReceiveHeader

(* One send context changes.                                                  *)
Others(n, d) == \A k \in Nodes, e \in 1..NumTx : ~(k = n /\ e = d) => sendCtx'[k][e] = sendCtx[k][e]

(* The others keep what they send.                                            *)
LEMMA SetIs ==
  ASSUME ExTypes, NEW n \in Nodes, NEW d \in 1..NumTx, NEW x \in SendSet,
         sendCtx' = [sendCtx EXCEPT ![n][d] = x]
  PROVE  /\ sendCtx' \in [Nodes -> [1..NumTx -> SendSet]]
         /\ sendCtx'[n][d] = x /\ Others(n, d)
<1>1. sendCtx \in [Nodes -> [1..NumTx -> SendSet]]
  BY DEF ExTypes
<1> HIDE DEF SendSet
<1>2. sendCtx[n] \in [1..NumTx -> SendSet]
  BY <1>1
<1>3. [sendCtx[n] EXCEPT ![d] = x] \in [1..NumTx -> SendSet]
  BY <1>2
<1>4. sendCtx' = [sendCtx EXCEPT ![n] = [sendCtx[n] EXCEPT ![d] = x]]
  OBVIOUS
<1>5. sendCtx' \in [Nodes -> [1..NumTx -> SendSet]] /\ sendCtx'[n] = [sendCtx[n] EXCEPT ![d] = x]
      /\ \A k \in Nodes : k # n => sendCtx'[k] = sendCtx[k]
  BY <1>1, <1>3, <1>4
<1>6. sendCtx'[n][d] = x /\ \A e \in 1..NumTx : e # d => sendCtx'[n][e] = sendCtx[n][e]
  BY <1>2, <1>5
<1> QED
  BY <1>5, <1>6 DEF Others

(* The context in which a message starts.                                     *)
New(stream) == [used |-> TRUE, stream |-> stream, id |-> Len(msgs) + 1, index |-> 0, seq |-> 1]

(* A new message takes a free send context, alone with its stream.            *)
LEMMA ExSendIs ==
  ASSUME ExTypes, Sent, NEW n \in Nodes, NEW stream \in Streams, NEW m \in Messages, ExSend(n, stream, m)
  PROVE  /\ Len(msgs) < MaxMessages /\ msgs' = Append(msgs, m)
         /\ \A e \in 1..NumTx : sendCtx[n][e].used => sendCtx[n][e].stream # stream
         /\ \E d \in 1..NumTx : ~sendCtx[n][d].used /\ sendCtx'[n][d] = New(stream) /\ Others(n, d)
         /\ sendCtx' \in [Nodes -> [1..NumTx -> SendSet]] /\ Sent'
         /\ \/ ReceiveHeader(HeaderOf(n, stream, m)) /\ losses' = losses
            \/ Lose
         /\ UNCHANGED <<turn, halted, useCrc, calm>>
         /\ stale \subseteq stale' /\ \A c \in InUse(n, stream) : recvCtx[c].id \in stale'
<1>1. /\ Len(msgs) < MaxMessages /\ msgs' = Append(msgs, m) /\ Busy(n) # 1..NumTx
      /\ \A e \in 1..NumTx : sendCtx[n][e].used => sendCtx[n][e].stream # stream
      /\ sendCtx' = [sendCtx EXCEPT ![n][Lowest((1..NumTx) \ Busy(n))] = New(stream)]
      /\ \/ ReceiveHeader(HeaderOf(n, stream, m)) /\ losses' = losses
         \/ Lose
      /\ UNCHANGED <<turn, halted, useCrc, calm>>
      /\ stale' = stale \cup {recvCtx[c].id : c \in InUse(n, stream)}
  BY DEF ExSend, Accepts, Busy, HeaderOf, New
<1>2. Lowest((1..NumTx) \ Busy(n)) \in (1..NumTx) \ Busy(n)
  <2>1. (1..NumTx) \ Busy(n) \subseteq Nat /\ (1..NumTx) \ Busy(n) # {}
    BY <1>1, ExConstantsAre DEF Busy, ExConstants
  <2> QED
    BY <2>1, LowestIs
<1>3. PICK d \in 1..NumTx : d = Lowest((1..NumTx) \ Busy(n)) /\ ~sendCtx[n][d].used
  BY <1>2 DEF Busy
<1>4. /\ msgs' \in Seq(Messages) /\ Len(msgs) \in Nat /\ Len(msgs') = Len(msgs) + 1
      /\ msgs'[Len(msgs) + 1] = m /\ m.len \in Nat /\ Grows /\ msgs \in Seq(Messages)
  BY <1>1, AppendedIs DEF ExTypes
<1>5. New(stream) \in SendSet
  BY <1>4 DEF New, SendSet
<1>6. /\ sendCtx' \in [Nodes -> [1..NumTx -> SendSet]]
      /\ sendCtx'[n][d] = New(stream) /\ Others(n, d)
  BY <1>1, <1>3, <1>5, SetIs
<1>7. /\ New(stream).used /\ New(stream).id = Len(msgs) + 1 /\ New(stream).index = 0
      /\ New(stream).stream = stream /\ New(stream).seq = 1
  BY DEF New
<1>9. Underway(sendCtx[n][d])'
  <2>1. Frag * (1 - 1) = 0
    BY ExConstantsAre DEF ExConstants
  <2>2. /\ sendCtx'[n][d].id = Len(msgs) + 1 /\ sendCtx'[n][d].index = 0 /\ sendCtx'[n][d].seq = 1
        /\ Len(msgs) + 1 \in 1..Len(msgs')
    BY <1>4, <1>6, <1>7
  <2> QED
    BY <2>1, <2>2 DEF Underway
<1>8. Sent'
  <2>1. ASSUME NEW k \in Nodes, NEW e \in 1..NumTx
        PROVE  /\ ~sendCtx'[k][e].used => sendCtx'[k][e] = FreeTx
               /\ sendCtx'[k][e].used => Underway(sendCtx[k][e])'
    <3>1. CASE k = n /\ e = d
      BY <1>6, <1>7, <1>9, <3>1
    <3>2. CASE ~(k = n /\ e = d)
      <4>1. sendCtx'[k][e] = sendCtx[k][e]
        BY <1>6, <3>2 DEF Others
      <4>2. ASSUME Underway(sendCtx[k][e]) PROVE Underway(sendCtx[k][e])'
        <5>1. PICK id \in 1..Len(msgs) : id = sendCtx[k][e].id
          BY <4>2 DEF Underway
        <5>2. id \in 1..Len(msgs') /\ msgs'[id] = msgs[id]
          BY <1>4, Kept
        <5> QED
          BY <4>1, <4>2, <5>1, <5>2 DEF Underway
      <4> QED
        BY <4>1, <4>2 DEF Sent
    <3> QED
      BY <3>1, <3>2
  <2>2. ASSUME NEW k \in Nodes, NEW e \in 1..NumTx, NEW g \in 1..NumTx,
               sendCtx'[k][e].used, sendCtx'[k][g].used, sendCtx'[k][e].stream = sendCtx'[k][g].stream
        PROVE  e = g
    <3>1. CASE k # n \/ (e # d /\ g # d)
      <4>1. sendCtx'[k][e] = sendCtx[k][e] /\ sendCtx'[k][g] = sendCtx[k][g]
        BY <1>6, <3>1 DEF Others
      <4> QED
        BY <2>2, <4>1 DEF Sent
    <3>2. CASE k = n /\ e = d /\ g # d
      <4>1. sendCtx'[n][g] = sendCtx[n][g]
        BY <1>6, <3>2 DEF Others
      <4> QED
        BY <1>1, <1>6, <1>7, <2>2, <3>2, <4>1
    <3>3. CASE k = n /\ g = d /\ e # d
      <4>1. sendCtx'[n][e] = sendCtx[n][e]
        BY <1>6, <3>3 DEF Others
      <4> QED
        BY <1>1, <1>6, <1>7, <2>2, <3>3, <4>1
    <3> QED
      BY <3>1, <3>2, <3>3
  <2> QED
    BY <2>1, <2>2 DEF Sent
<1> QED
  BY <1>1, <1>3, <1>6, <1>8

(* An unchanged context that is not stale holds what it held.                 *)
LEMMA StillPrefix ==
  ASSUME msgs \in Seq(Messages), Grows, NEW c \in 1..NumRx, recvCtx'[c] = recvCtx[c],
         recvCtx[c].id \in 1..Len(msgs), Prefix(c)
  PROVE  Prefix(c)'
<1>1. PICK id \in 1..Len(msgs) : id = recvCtx[c].id
  OBVIOUS
<1>2. Copied(id)' = Copied(id)
  BY Kept
<1>3. Copied(recvCtx[c].id)' = Copied(id)' /\ Copied(recvCtx[c].id) = Copied(id)
  BY <1>1
<1> QED
  BY <1>2, <1>3 DEF Prefix

(* A new message makes a context of its stream stale, or opens one of its own.*)
LEMMA ApartSend ==
  ASSUME ExIInv, NEW n \in Nodes, NEW stream \in Streams, NEW m \in Messages, ExSend(n, stream, m)
  PROVE  Apart'
<1>1. ExTypes /\ Sent /\ Received /\ Unsent /\ CompleteIsExact /\ Apart
  BY DEF ExIInv
<1>2. /\ Len(msgs) < MaxMessages /\ msgs' = Append(msgs, m) /\ useCrc' = useCrc
      /\ \A e \in 1..NumTx : sendCtx[n][e].used => sendCtx[n][e].stream # stream
      /\ \E d \in 1..NumTx : ~sendCtx[n][d].used /\ sendCtx'[n][d] = New(stream) /\ Others(n, d)
      /\ \/ ReceiveHeader(HeaderOf(n, stream, m)) /\ losses' = losses
         \/ Lose
      /\ stale \subseteq stale' /\ \A c \in InUse(n, stream) : recvCtx[c].id \in stale'
  BY <1>1, ExSendIs
<1>3. PICK d \in 1..NumTx : ~sendCtx[n][d].used /\ sendCtx'[n][d] = New(stream) /\ Others(n, d)
  BY <1>2
<1>4. New(stream).used /\ New(stream).id = Len(msgs) + 1 /\ New(stream).stream = stream
  BY DEF New
<1>5. msgs \in Seq(Messages) /\ Grows
  BY <1>1, <1>2, AppendedIs DEF ExTypes
<1>6. \/ recvCtx' = recvCtx
      \/ \E c \in 1..NumRx : ~recvCtx[c].used /\ OpenedAt(c, HeaderOf(n, stream, m))
  BY <1>1, <1>2, HeaderOutcome DEF Lose
\* A context that was in use and is not stale is of another stream.
<1>7. ASSUME NEW c \in 1..NumRx, recvCtx[c].used, recvCtx'[c] = recvCtx[c], recvCtx[c].id \notin stale'
      PROVE  Own(c)' /\ Prefix(c)'
  <2>1. Own(c) /\ Prefix(c) /\ c \notin InUse(n, stream)
    BY <1>1, <1>2, <1>7 DEF Apart
  <2>2. recvCtx[c].id \in 1..Len(msgs) /\ recvCtx[c].canid \in Nodes
    BY <1>1, <1>7, ServedIs
  <2>3. ~(recvCtx[c].stream = stream /\ recvCtx[c].canid = n)
    BY <1>7, <2>1 DEF InUse
  <2>4. ASSUME NEW e \in 1..NumTx, sendCtx'[recvCtx[c].canid][e].used,
               sendCtx'[recvCtx[c].canid][e].stream = recvCtx[c].stream
        PROVE  sendCtx'[recvCtx[c].canid][e].id = recvCtx[c].id
    <3>1. ~(recvCtx[c].canid = n /\ e = d)
      BY <1>3, <1>4, <2>3, <2>4
    <3>2. sendCtx'[recvCtx[c].canid][e] = sendCtx[recvCtx[c].canid][e]
      BY <1>3, <2>2, <3>1 DEF Others
    <3> QED
      BY <2>1, <2>4, <3>2 DEF Own
  <2>5. Prefix(c)'
    BY <1>5, <1>7, <2>1, <2>2, StillPrefix
  <2> QED
    BY <1>7, <2>4, <2>5 DEF Own
<1>8. CASE recvCtx' = recvCtx
  BY <1>7, <1>8 DEF Apart
<1>9. ASSUME NEW c \in 1..NumRx, ~recvCtx[c].used, OpenedAt(c, HeaderOf(n, stream, m))
      PROVE  Apart'
  <2>1. /\ recvCtx'[c].used /\ recvCtx'[c].stream = stream /\ recvCtx'[c].canid = n
        /\ recvCtx'[c].id = Len(msgs) + 1 /\ recvCtx'[c].buffer = <<>> /\ recvCtx'[c].expected = 1
        /\ \A g \in 1..NumRx : g # c => recvCtx'[g] = recvCtx[g]
    BY <1>9 DEF OpenedAt, Opened, HeaderOf
  <2>2. Own(c)'
    <3>1. ASSUME NEW e \in 1..NumTx, sendCtx'[n][e].used, sendCtx'[n][e].stream = stream
          PROVE  sendCtx'[n][e].id = Len(msgs) + 1
      BY <1>2, <1>3, <1>4, <3>1 DEF Others
    <3> QED
      BY <2>1, <3>1 DEF Own
  <2>3. Prefix(c)'
    <3>1. Len(<<>>) = 0 /\ Frag * (1 - 1) = 0
      BY ExConstantsAre DEF ExConstants
    <3>2. SubSeq(Copied(recvCtx[c].id)', 1, 0) = <<>>
      BY SubSeqEmpty
    <3> QED
      BY <2>1, <3>1, <3>2 DEF Prefix
  <2>4. ASSUME NEW g \in 1..NumRx, g # c, recvCtx'[g].used, recvCtx'[g].id \notin stale'
        PROVE  Own(g)' /\ Prefix(g)'
    <3>1. recvCtx'[g] = recvCtx[g]
      BY <2>1, <2>4
    <3> QED
      BY <1>7, <2>4, <3>1
  <2> QED
    BY <2>2, <2>3, <2>4 DEF Apart
<1> QED
  BY <1>6, <1>8, <1>9

(* A fragment, and the context that sends it: it goes on, or is free again.   *)
Turn(n) == sendCtx[n][turn[n]]
FragmentOf(n) == [stream |-> Turn(n).stream, canid |-> n, seq |-> Turn(n).seq,
                  bytes |-> Payload(Copied(Turn(n).id), Turn(n).index)]
GoneOn(x) == [x EXCEPT !.index = @ + Frag, !.seq = @ + 1]

(* The next fragment of a context.                                            *)
LEMMA GoneOnIs ==
  ASSUME NEW x \in SendSet
  PROVE  /\ GoneOn(x) \in SendSet /\ GoneOn(x).used = x.used /\ GoneOn(x).stream = x.stream /\ GoneOn(x).id = x.id
         /\ GoneOn(x).index = x.index + Frag /\ GoneOn(x).seq = x.seq + 1
<1>1. x.index + Frag \in Nat /\ x.seq + 1 \in Nat
  BY ExConstantsAre DEF SendSet, ExConstants
<1> QED
  BY <1>1 DEF GoneOn, SendSet

(* Where the next fragment starts.                                            *)
LEMMA NextStart ==
  ASSUME NEW seq \in Nat, seq >= 1, NEW start, start = Frag * (seq - 1)
  PROVE  seq + 1 >= 1 /\ start + Frag = Frag * ((seq + 1) - 1)
BY ExConstantsAre DEF ExConstants

(* What a sender does to its own part of the state, and what it sends.        *)
LEMMA ExFragmentIs ==
  ASSUME ExTypes, Sent, NEW n \in Nodes, ExSendFragment(n)
  PROVE  /\ turn[n] \in 1..NumTx /\ Turn(n).used /\ Turn(n) \in SendSet /\ Turn(n).id \in 1..Len(msgs)
         /\ Underway(Turn(n)) /\ IsFragment(FragmentOf(n))
         /\ sendCtx'[n][turn[n]] = IF Turn(n).index + Frag < msgs[Turn(n).id].len THEN GoneOn(Turn(n)) ELSE FreeTx
         /\ Others(n, turn[n])
         /\ sendCtx' \in [Nodes -> [1..NumTx -> SendSet]] /\ Sent' /\ turn' \in [Nodes -> 1..NumTx]
         /\ \/ ReceiveFragment(FragmentOf(n)) /\ losses' = losses
            \/ Lose
         /\ UNCHANGED <<halted, useCrc, msgs, calm, stale>>
<1>1. PICK e \in 1..NumTx : e = turn[n]
  BY DEF ExTypes
<1>2. PICK x \in SendSet : x = sendCtx[n][e]
  <2>1. sendCtx[n] \in [1..NumTx -> SendSet]
    BY DEF ExTypes
  <2> QED
    BY <2>1
<1>3. Turn(n) = x
  BY <1>1, <1>2 DEF Turn
<1>4. x.used /\ x.id \in 1..Len(msgs) /\ Underway(x)
  <2>1. x.used
    BY <1>1, <1>2 DEF ExSendFragment
  <2>2. Underway(x)
    BY <1>2, <2>1 DEF Sent
  <2> QED
    BY <2>1, <2>2 DEF Underway
<1>5. PICK id \in 1..Len(msgs) : id = x.id
  BY <1>4
<1>6. /\ msgs[id].len \in Nat /\ Copied(id) \in Seq(ExByte) /\ Len(Copied(id)) = msgs[id].len
  BY CopiedIs DEF ExTypes
<1>7. x.index \in Nat /\ x.seq \in Nat /\ Frag \in Nat \ {0} /\ NumTx \in Nat \ {0} /\ x.stream \in Streams \cup {0}
  BY ExConstantsAre DEF SendSet, ExConstants
<1>8. IsFragment(FragmentOf(n))
  <2>1. Zero \in ExByte
    BY DEF ExByte
  <2>2. Payload(Copied(id), x.index) \in Seq(ExByte) /\ Len(Payload(Copied(id), x.index)) = Frag
    <3> HIDE DEF ExByte
    <3> QED
      BY <1>6, <1>7, <2>1, PayloadIs
  <2>3. /\ FragmentOf(n).canid = n /\ FragmentOf(n).stream = x.stream /\ FragmentOf(n).seq = x.seq
        /\ FragmentOf(n).bytes = Payload(Copied(id), x.index)
    BY <1>3, <1>5 DEF FragmentOf
  <2> QED
    BY <1>7, <2>2, <2>3 DEF IsFragment
<1>9. After(Copied(id), x.index) = IF x.index + Frag < msgs[id].len THEN x.index + Frag ELSE msgs[id].len
  BY <1>6 DEF After
<1>10. /\ sendCtx' = [sendCtx EXCEPT ![n][e] =
            IF After(Copied(x.id), x.index) = msgs[x.id].len THEN FreeTx
            ELSE [x EXCEPT !.index = After(Copied(x.id), x.index), !.seq = @ + 1]]
       /\ turn' = [turn EXCEPT ![n] = NextTurn(e)]
       /\ \/ ReceiveFragment(FragmentOf(n)) /\ losses' = losses
          \/ Lose
       /\ UNCHANGED <<halted, useCrc, msgs, calm, stale>>
  BY <1>1, <1>2 DEF ExSendFragment, FragmentOf, Turn
<1> DEFINE y == IF x.index + Frag < msgs[id].len THEN GoneOn(x) ELSE FreeTx
<1>11. sendCtx' = [sendCtx EXCEPT ![n][e] = y]
  <2>1. CASE x.index + Frag < msgs[id].len
    <3>1. After(Copied(x.id), x.index) = x.index + Frag /\ x.index + Frag # msgs[x.id].len
      BY <1>5, <1>6, <1>7, <1>9, <2>1
    <3> QED
      BY <1>10, <2>1, <3>1 DEF GoneOn
  <2>2. CASE ~(x.index + Frag < msgs[id].len)
    BY <1>5, <1>9, <1>10, <2>2
  <2> QED
    BY <2>1, <2>2
<1>12. FreeTx \in SendSet /\ FreeTx.used = FALSE
  BY DEF FreeTx, SendSet
<1>13. y \in SendSet
  BY <1>12, GoneOnIs
<1>14. sendCtx' \in [Nodes -> [1..NumTx -> SendSet]] /\ sendCtx'[n][e] = y /\ Others(n, e)
  <2> HIDE DEF y
  <2> QED
    BY <1>11, <1>13, SetIs
<1>15. y.used => y.stream = x.stream /\ Underway(y)
  <2>1. CASE x.index + Frag < msgs[id].len
    <3>1. /\ GoneOn(x).stream = x.stream /\ GoneOn(x).id = id /\ GoneOn(x).seq = x.seq + 1
          /\ GoneOn(x).index = x.index + Frag
      BY <1>5, GoneOnIs
    <3>2. x.seq >= 1 /\ x.index = Frag * (x.seq - 1)
      BY <1>4 DEF Underway
    <3>3. x.seq + 1 >= 1 /\ x.index + Frag = Frag * ((x.seq + 1) - 1)
      BY <1>7, <3>2, NextStart
    <3>4. Underway(GoneOn(x))
      <4> DEFINE next == x.seq + 1
                 start == x.index + Frag
      <4>1. GoneOn(x).id = id /\ GoneOn(x).seq = next /\ GoneOn(x).index = start
        BY <3>1
      <4>2. next >= 1 /\ start = Frag * (next - 1) /\ start < msgs[id].len
        BY <2>1, <3>3
      <4> HIDE DEF next, start
      <4> QED
        BY <4>1, <4>2, Zenon DEF Underway
    <3>5. y = GoneOn(x)
      BY <2>1
    <3> HIDE DEF y
    <3> QED
      BY <3>1, <3>4, <3>5
  <2>2. CASE ~(x.index + Frag < msgs[id].len)
    BY <1>12, <2>2
  <2> QED
    BY <2>1, <2>2
<1>16. ~y.used => y = FreeTx
  BY <1>4, GoneOnIs
<1> HIDE DEF y
<1>17. Sent'
  <2>1. ASSUME NEW k \in Nodes, NEW g \in 1..NumTx
        PROVE  /\ ~sendCtx'[k][g].used => sendCtx'[k][g] = FreeTx
               /\ sendCtx'[k][g].used => Underway(sendCtx[k][g])'
    <3>0. msgs' = msgs
      BY <1>10
    <3>1. CASE k = n /\ g = e
      <4>1. sendCtx'[k][g] = y
        BY <1>14, <3>1
      <4> QED
        BY <1>15, <1>16, <3>0, <4>1 DEF Underway
    <3>2. CASE ~(k = n /\ g = e)
      <4>1. sendCtx'[k][g] = sendCtx[k][g]
        BY <1>14, <3>2 DEF Others
      <4> QED
        BY <3>0, <4>1 DEF Sent, Underway
    <3> QED
      BY <3>1, <3>2
  <2>2. ASSUME NEW k \in Nodes, NEW g \in 1..NumTx
        PROVE  sendCtx'[k][g].used => sendCtx[k][g].used /\ sendCtx[k][g].stream = sendCtx'[k][g].stream
    BY <1>2, <1>4, <1>14, <1>15 DEF Others
  <2> QED
    BY <2>1, <2>2 DEF Sent
<1>18. turn' \in [Nodes -> 1..NumTx]
  <2>1. NextTurn(e) \in 1..NumTx
    BY <1>7 DEF NextTurn
  <2> QED
    BY <1>10, <2>1 DEF ExTypes
<1> QED
  BY <1>1, <1>3, <1>4, <1>5, <1>8, <1>10, <1>14, <1>17, <1>18 DEF y

(* The fragment sent is the next one of every context it matches that is not  *)
(* stale and expects its number.                                              *)
LEMMA ProperIs ==
  ASSUME ExTypes, Sent, Received, Apart, NEW n \in Nodes, ExSendFragment(n)
  PROVE  Proper(FragmentOf(n))
<1> DEFINE f == FragmentOf(n)
<1>1. SUFFICES ASSUME NEW c \in Matching(f), recvCtx[c].id \notin stale, f.seq = recvCtx[c].expected
               PROVE  Continues(c, f)
  BY DEF Proper
<1>2. PICK e \in 1..NumTx : e = turn[n] /\ Turn(n) = sendCtx[n][e]
  BY DEF ExTypes, Turn
<1>3. Turn(n).used /\ Underway(Turn(n))
  BY ExFragmentIs
<1>4. /\ f.stream = Turn(n).stream /\ f.canid = n /\ f.seq = Turn(n).seq
      /\ f.bytes = Payload(Copied(Turn(n).id), Turn(n).index)
  BY DEF FragmentOf
<1>5. /\ c \in 1..NumRx /\ recvCtx[c].used /\ recvCtx[c].stream = Turn(n).stream
      /\ recvCtx[c].canid = n /\ Own(c) /\ Prefix(c)
  BY <1>1, <1>4 DEF Matching, Apart
<1>6. Turn(n).id = recvCtx[c].id
  BY <1>2, <1>3, <1>5 DEF Own
<1>7. Turn(n).index = Frag * (Turn(n).seq - 1) /\ Len(recvCtx[c].buffer) = Frag * (recvCtx[c].expected - 1)
  BY <1>3, <1>5 DEF Underway, Prefix
<1>8. Turn(n).index = Len(recvCtx[c].buffer)
  BY <1>1, <1>4, <1>7
<1> QED
  BY <1>4, <1>5, <1>6, <1>8 DEF Continues, Prefix

(* A fragment keeps apart what was apart.                                     *)
LEMMA ApartFragment ==
  ASSUME ExIInv, NEW n \in Nodes, ExSendFragment(n)
  PROVE  Apart'
<1> DEFINE f == FragmentOf(n)
<1>1. ExTypes /\ Sent /\ Received /\ Unsent /\ CompleteIsExact /\ Apart
  BY DEF ExIInv
<1>2. /\ turn[n] \in 1..NumTx /\ Turn(n).used /\ Turn(n) \in SendSet /\ IsFragment(f)
      /\ sendCtx'[n][turn[n]] = IF Turn(n).index + Frag < msgs[Turn(n).id].len THEN GoneOn(Turn(n)) ELSE FreeTx
      /\ Others(n, turn[n])
      /\ ReceiveFragment(f) \/ Lose
      /\ UNCHANGED <<useCrc, msgs, stale>>
  BY <1>1, ExFragmentIs
<1>3. Proper(f)
  BY <1>1, ProperIs
<1>4. ASSUME NEW c \in 1..NumRx PROVE Changed(c, f)
  <2>1. CASE ReceiveFragment(f)
    <3> HIDE DEF f
    <3> QED
      BY <1>1, <1>2, <1>3, <2>1, FragmentOutcome
  <2>2. CASE Lose
    BY <2>2 DEF Lose, Changed
  <2> QED
    BY <1>2, <2>1, <2>2
<1>5. msgs \in Seq(Messages) /\ Grows
  BY <1>1, <1>2 DEF ExTypes, Grows
\* A context sends what it sent, or nothing.
<1>6. ASSUME NEW k \in Nodes, NEW e \in 1..NumTx, sendCtx'[k][e].used
      PROVE  /\ sendCtx[k][e].used /\ sendCtx'[k][e].stream = sendCtx[k][e].stream
             /\ sendCtx'[k][e].id = sendCtx[k][e].id
  <2>1. CASE k = n /\ e = turn[n]
    <3>1. sendCtx'[k][e] = GoneOn(Turn(n)) /\ Turn(n) = sendCtx[k][e]
      BY <1>2, <1>6, <2>1 DEF FreeTx, Turn
    <3> QED
      BY <1>2, <3>1, GoneOnIs
  <2>2. CASE ~(k = n /\ e = turn[n])
    BY <1>2, <1>6, <2>2 DEF Others
  <2> QED
    BY <2>1, <2>2
<1>7. ASSUME NEW c \in 1..NumRx, recvCtx'[c].used, recvCtx'[c].id \notin stale'
      PROVE  Own(c)' /\ Prefix(c)'
  <2>1. \/ recvCtx'[c] = recvCtx[c]
        \/ /\ c \in Matching(f) /\ f.seq = recvCtx[c].expected /\ Frag < ExNeed(c) /\ Stored(c, f)
    BY <1>4, <1>7 DEF Changed
  <2>2. CASE recvCtx'[c] = recvCtx[c]
    <3>1. recvCtx[c].used /\ recvCtx[c].id \notin stale
      BY <1>2, <1>7, <2>2
    <3>2. Own(c) /\ Prefix(c) /\ recvCtx[c].id \in 1..Len(msgs) /\ recvCtx[c].canid \in Nodes
      BY <1>1, <3>1, ServedIs DEF Apart
    <3>3. Own(c)'
      BY <1>6, <2>2, <3>2 DEF Own
    <3>4. Prefix(c)'
      BY <1>5, <2>2, <3>2, StillPrefix
    <3> QED
      BY <3>3, <3>4
  <2>3. CASE c \in Matching(f) /\ f.seq = recvCtx[c].expected /\ Frag < ExNeed(c) /\ Stored(c, f)
    <3> DEFINE r == recvCtx[c]
    <3>1. r.used
      BY <2>3 DEF Matching
    <3>2. /\ r \in RecvSet /\ r.id \in 1..Len(msgs) /\ r.canid \in Nodes /\ r.expected \in Nat
          /\ r.length = msgs[r.id].len /\ Len(r.buffer) \in Nat /\ r.length \in Nat
      BY <1>1, <3>1, ServedIs
    <3>3. /\ recvCtx'[c].id = r.id /\ recvCtx'[c].canid = r.canid /\ recvCtx'[c].stream = r.stream
          /\ recvCtx'[c].expected = r.expected + 1 /\ recvCtx'[c].buffer = r.buffer \o f.bytes
      BY <2>3, <3>2 DEF Stored, RecvSet
    <3>4. r.id \notin stale /\ Own(c) /\ Prefix(c)
      BY <1>1, <1>2, <1>7, <3>1, <3>3 DEF Apart
    <3>5. Own(c)'
      BY <1>6, <3>2, <3>3, <3>4 DEF Own
    <3>6. PICK id \in 1..Len(msgs) : id = r.id
      BY <3>2
    <3> DEFINE k == Len(r.buffer)
               data == Copied(id)
    <3>7. /\ data \in Seq(ExByte) /\ Len(data) = msgs[id].len /\ msgs[id].len \in Nat
          /\ Zero \in ExByte /\ data' = data /\ Frag \in Nat \ {0}
      BY <1>5, CopiedIs, Kept, ExConstantsAre DEF ExByte, ExConstants
    <3>8. r.buffer = SubSeq(data, 1, k) /\ f.bytes = Payload(data, k)
      BY <1>3, <2>3, <3>4, <3>6 DEF Proper, Continues
    <3>9. k + Frag <= Len(data)
      BY <2>3, <3>2, <3>6, <3>7 DEF ExNeed
    <3> HIDE DEF data, k, f
    <3>10. k \in Nat
      BY <3>2 DEF k
    <3>11. r.buffer \o f.bytes = SubSeq(data, 1, k + Frag)
      BY <3>7, <3>8, <3>9, <3>10, JoinNext
    <3>12. Len(SubSeq(data, 1, k + Frag)) = k + Frag
      <4>1. k + Frag \in Nat /\ \A i \in 1..(k + Frag) : data[i] \in ExByte
        BY <3>7, <3>9, <3>10, ElementOfSeq
      <4> QED
        BY <4>1, SubSeqProperties
    <3>13. k = Frag * (r.expected - 1) /\ r.expected >= 1
      BY <3>4 DEF Prefix, k
    <3> DEFINE next == r.expected + 1
    <3>14. next >= 1 /\ k + Frag = Frag * (next - 1)
      BY <3>2, <3>13, NextStart
    <3>17. recvCtx'[c].expected = next
      BY <3>3
    <3> HIDE DEF next
    <3>15. Copied(recvCtx[c].id)' = data
      <4>1. recvCtx'[c].id = id
        BY <3>3, <3>6
      <4>2. Copied(recvCtx[c].id)' = Copied(id)'
        BY <4>1
      <4> QED
        BY <3>7, <4>2 DEF data
    <3>16. Prefix(c)'
      <4>1. recvCtx'[c].expected >= 1 /\ k + Frag = Frag * (recvCtx'[c].expected - 1)
        BY <3>14, <3>17, Zenon
      <4>2. Len(recvCtx'[c].buffer) = k + Frag
        BY <3>3, <3>11, <3>12
      <4>3. recvCtx'[c].buffer = SubSeq(Copied(recvCtx[c].id)', 1, k + Frag)
        BY <3>3, <3>11, <3>15
      <4> QED
        BY <4>1, <4>2, <4>3 DEF Prefix
    <3> QED
      BY <3>5, <3>16
  <2> QED
    BY <2>1, <2>2, <2>3
<1> QED
  BY <1>7 DEF Apart

(* With nothing lost, a new message is attended by the context it opened, if  *)
(* any, and by no other.                                                      *)
LEMMA AttendSend ==
  ASSUME ExIInv, NEW n \in Nodes, NEW stream \in Streams, NEW m \in Messages, ExSend(n, stream, m)
  PROVE  Attended' /\ Accounted'
<1> SUFFICES ASSUME Calm' PROVE Paired' /\ One' /\ (SameCrc => \A id \in 1..Len(msgs) : Good(id) => Fated(id))'
  BY DEF Attended, Accounted
<1>1. ExTypes /\ Sent /\ Received /\ Unsent /\ CompleteIsExact /\ Apart /\ Attended /\ Accounted
  BY DEF ExIInv
<1>2. /\ Len(msgs) < MaxMessages /\ msgs' = Append(msgs, m)
      /\ \A e \in 1..NumTx : sendCtx[n][e].used => sendCtx[n][e].stream # stream
      /\ \E d \in 1..NumTx : ~sendCtx[n][d].used /\ sendCtx'[n][d] = New(stream) /\ Others(n, d)
      /\ \/ ReceiveHeader(HeaderOf(n, stream, m)) /\ losses' = losses
         \/ Lose
      /\ UNCHANGED <<turn, halted, useCrc, calm>> /\ stale \subseteq stale'
  BY <1>1, ExSendIs
<1>3. PICK d \in 1..NumTx : ~sendCtx[n][d].used /\ sendCtx'[n][d] = New(stream) /\ Others(n, d)
  BY <1>2
<1>4. ~Lose
  BY <1>1 DEF Lose, Calm, ExTypes
<1>5. ReceiveHeader(HeaderOf(n, stream, m)) /\ losses' = losses /\ Calm
  BY <1>2, <1>4 DEF Calm
<1>6. Paired /\ One /\ (SameCrc => \A id \in 1..Len(msgs) : Good(id) => Fated(id))
  BY <1>1, <1>5 DEF Attended, Accounted
<1>7. PICK new \in 1..MaxMessages : new = Len(msgs) + 1
  BY <1>1, <1>2, AppendedIs
<1>8. /\ msgs' \in Seq(Messages) /\ Len(msgs) \in Nat /\ Len(msgs') = new
      /\ msgs'[new] = m /\ m.len \in Nat /\ Grows /\ msgs \in Seq(Messages)
      /\ new \in 1..Len(msgs') /\ new \in Nat /\ new > Len(msgs)
  BY <1>1, <1>2, <1>7, AppendedIs DEF ExTypes
<1>9. /\ Outcome
      /\ \/ UNCHANGED <<recvCtx, fate>>
         \/ \E c \in 1..NumRx : ~recvCtx[c].used /\ OpenedAt(c, HeaderOf(n, stream, m))
  BY <1>1, <1>2, <1>5, HeaderOutcome
<1>10. fate[new] = "NONE"
  BY <1>1, <1>8 DEF Unsent
\* A context that was in use still follows its sender.
<1>11. ASSUME NEW c \in 1..NumRx, recvCtx[c].used, recvCtx'[c] = recvCtx[c]
       PROVE  \E k \in Nodes, e \in 1..NumTx : Pair(c, k, e)'
  <2>1. PICK k \in Nodes, e \in 1..NumTx : Pair(c, k, e)
    BY <1>6, <1>11 DEF Paired
  <2>2. sendCtx[k][e].used
    BY <2>1 DEF Pair
  <2>3. sendCtx'[k][e] = sendCtx[k][e] /\ sendCtx[k][e].id \in 1..Len(msgs)
    BY <1>1, <1>3, <2>2 DEF Others, Sent, Underway
  <2>4. Pair(c, k, e)'
    BY <1>8, <1>11, <2>1, <2>3, StillPair
  <2> QED
    BY <2>4
\* An earlier message is where it was.
<1>12. ASSUME NEW id \in 1..Len(msgs'), id # new PROVE id \in 1..Len(msgs) /\ (Good(id)' <=> Good(id))
  <2>1. id \in 1..Len(msgs)
    BY <1>7, <1>8, <1>12
  <2> QED
    BY <1>8, <2>1, Kept
<1>13. CASE UNCHANGED <<recvCtx, fate>>
  <2>1. Paired'
    BY <1>11, <1>13 DEF Paired
  <2>2. One'
    BY <1>6, <1>13 DEF One
  <2>3. ASSUME SameCrc', NEW id \in 1..Len(msgs'), Good(id)' PROVE Fated(id)'
    <3>1. CASE id = new
      BY <1>10, <1>13, <3>1 DEF Fated
    <3>2. CASE id # new
      <4>1. SameCrc /\ id \in 1..Len(msgs) /\ Good(id)
        BY <1>2, <1>12, <2>3, <3>2 DEF SameCrc
      <4>2. Fated(id)
        BY <1>6, <4>1
      <4> QED
        BY <1>13, <4>2 DEF Fated
    <3> QED
      BY <3>1, <3>2
  <2> QED
    BY <2>1, <2>2, <2>3
<1>14. ASSUME NEW c \in 1..NumRx, ~recvCtx[c].used, OpenedAt(c, HeaderOf(n, stream, m))
       PROVE  Paired' /\ One' /\ (SameCrc => \A id \in 1..Len(msgs) : Good(id) => Fated(id))'
  <2>1. /\ recvCtx'[c].used /\ recvCtx'[c].stream = stream /\ recvCtx'[c].canid = n /\ recvCtx'[c].id = new
        /\ recvCtx'[c].buffer = <<>> /\ recvCtx'[c].expected = 1
        /\ \A g \in 1..NumRx : g # c => recvCtx'[g] = recvCtx[g]
        /\ fate'[new] = "ACCEPTED"
        /\ \A i \in 1..MaxMessages : i # new => fate'[i] = fate[i]
    BY <1>7, <1>14 DEF OpenedAt, Opened, HeaderOf
  <2>2. Pair(c, n, d)'
    <3>1. /\ sendCtx'[n][d].used /\ sendCtx'[n][d].stream = stream /\ sendCtx'[n][d].id = new
          /\ sendCtx'[n][d].index = 0 /\ sendCtx'[n][d].seq = 1
      BY <1>3, <1>7 DEF New
    <3>2. SubSeq(Copied(sendCtx[n][d].id), 1, sendCtx[n][d].index)' = <<>>
      BY <3>1
    <3> QED
      BY <2>1, <3>1, <3>2 DEF Pair
  <2>3. Paired'
    <3>1. ASSUME NEW g \in 1..NumRx, recvCtx'[g].used PROVE \E k \in Nodes, e \in 1..NumTx : Pair(g, k, e)'
      BY <1>11, <2>1, <2>2, <3>1
    <3> QED
      BY <3>1 DEF Paired
  <2>4. ASSUME NEW g \in 1..NumRx, g # c, recvCtx'[g].used
        PROVE  ~(recvCtx'[g].stream = stream /\ recvCtx'[g].canid = n)
    <3>1. recvCtx'[g] = recvCtx[g] /\ recvCtx[g].used
      BY <2>1, <2>4
    <3>2. PICK k \in Nodes, e \in 1..NumTx : Pair(g, k, e)
      BY <1>6, <3>1 DEF Paired
    <3>3. sendCtx[k][e].used /\ recvCtx[g].canid = k /\ recvCtx[g].stream = sendCtx[k][e].stream
      BY <3>2 DEF Pair
    <3> QED
      BY <1>2, <3>1, <3>3
  <2>5. One'
    <3>1. ASSUME NEW g \in 1..NumRx, NEW h \in 1..NumRx, recvCtx'[g].used, recvCtx'[h].used,
                 recvCtx'[g].stream = recvCtx'[h].stream, recvCtx'[g].canid = recvCtx'[h].canid
          PROVE  g = h
      <4>1. CASE g # c /\ h # c
        BY <1>6, <2>1, <3>1, <4>1 DEF One
      <4>2. CASE ~(g # c /\ h # c)
        BY <2>1, <2>4, <3>1, <4>2
      <4> QED
        BY <4>1, <4>2
    <3> QED
      BY <3>1 DEF One
  <2>6. ASSUME SameCrc', NEW id \in 1..Len(msgs'), Good(id)' PROVE Fated(id)'
    <3>1. CASE id = new
      BY <2>1, <3>1 DEF Fated
    <3>2. CASE id # new
      <4>1. SameCrc /\ id \in 1..Len(msgs) /\ Good(id)
        BY <1>2, <1>12, <2>6, <3>2 DEF SameCrc
      <4>2. Fated(id)
        BY <1>6, <4>1
      <4>3. fate'[id] = fate[id]
        <5>1. id \in 1..MaxMessages
          BY <1>1, <1>8, <4>1, ExConstantsAre DEF ExTypes, ExConstants
        <5> QED
          BY <2>1, <3>2, <5>1
      <4>4. \A g \in 1..NumRx : recvCtx[g].used => recvCtx'[g] = recvCtx[g]
        BY <1>14, <2>1
      <4> QED
        BY <4>2, <4>3, <4>4 DEF Fated
    <3> QED
      BY <3>1, <3>2
  <2> QED
    BY <2>3, <2>5, <2>6
<1> QED
  BY <1>9, <1>13, <1>14

(* With nothing lost, the fragment a context attends is the next one: the     *)
(* bytes are the message's, and with the last one it is COMPLETE.             *)
LEMMA TakePaired ==
  ASSUME ExTypes, Sent, Received, NEW c \in 1..NumRx, recvCtx[c].used, NEW n \in Nodes, ExSendFragment(n),
         NEW e \in 1..NumTx, e = turn[n], Pair(c, n, e), ExTake(c, FragmentOf(n))
  PROVE  \/ /\ Turn(n).index + Frag < msgs[Turn(n).id].len
            /\ Stored(c, FragmentOf(n)) /\ Pair(c, n, e)'
         \/ \E status \in Closings :
              /\ Closed(c, status)
              /\ Good(recvCtx[c].id) /\ SameCrc => status = "COMPLETE"
<1> DEFINE f == FragmentOf(n)
<1>1. e = turn[n]
  OBVIOUS
<1>2. PICK x \in SendSet : x = Turn(n) /\ x = sendCtx[n][e]
  BY <1>1, ExFragmentIs DEF Turn
<1>3. PICK id \in 1..Len(msgs) : id = x.id
  BY <1>2, ExFragmentIs
<1>4. /\ x.used /\ (x.index < msgs[id].len \/ x.index = 0)
      /\ IsFragment(f)
      /\ sendCtx'[n][e] = IF x.index + Frag < msgs[id].len THEN GoneOn(x) ELSE FreeTx
      /\ msgs' = msgs /\ useCrc' = useCrc
  BY <1>1, <1>2, <1>3, ExFragmentIs DEF Underway
<1> DEFINE r == recvCtx[c]
           data == Copied(id)
           k == x.index
<1>5. /\ k \in Nat /\ x.seq \in Nat /\ Frag \in Nat \ {0} /\ BufLen \in Nat \ {0}
  BY ExConstantsAre DEF SendSet, ExConstants
<1>6. /\ msgs[id].len \in Nat /\ data \in Seq(ExByte) /\ Len(data) = msgs[id].len
      /\ Intact(id) => data = Message(id) /\ msgs[id].len > 0
  BY CopiedIs DEF ExTypes, Intact
<1>7. /\ f.seq = x.seq /\ f.canid = n /\ f.stream = x.stream /\ f.bytes = Payload(data, k)
  BY <1>2, <1>3 DEF FragmentOf
<1>8. /\ r.canid = n /\ x.stream = r.stream /\ r.id = id /\ x.seq = r.expected
      /\ r.buffer = SubSeq(data, 1, k)
  BY <1>1, <1>2, <1>3 DEF Pair
<1>9. /\ r \in RecvSet /\ r.length = msgs[id].len /\ r.crc = IF useCrc.sender THEN msgs[id].crc ELSE NoCrc
      /\ r.buffer \in Seq(ExByte)
  BY <1>8, ServedIs DEF Serves
<1>10. Zero \in ExByte
  BY DEF ExByte
<1> HIDE DEF f, data, k, ExByte
<1>11. Len(r.buffer) = k
  <2>1. k <= Len(data)
    BY <1>4, <1>5, <1>6, SMTT(30) DEF k
  <2>2. \A i \in 1..k : data[i] \in ExByte
    BY <1>5, <1>6, <2>1, ElementOfSeq
  <2>3. Len(SubSeq(data, 1, k)) = k
    BY <1>5, <2>2, SubSeqProperties
  <2> QED
    BY <1>8, <2>3
<1>12. /\ msgs[id].len > 0 => ExNeed(c) = msgs[id].len - k
       /\ msgs[id].len = 0 => ExNeed(c) = 1
       /\ ExRoom(c) = BufLen - k
  BY <1>6, <1>9, <1>11 DEF ExNeed, ExRoom
<1>13. id \in 1..MaxMessages /\ r.id \in 1..MaxMessages
  BY <1>8, ServedIs
<1>14. ASSUME NEW status \in Closings, Close(c, status) PROVE Closed(c, status)
  <2>1. status \in FateSet
    BY DEF FateSet
  <2>2. recvCtx' = [recvCtx EXCEPT ![c] = FreeRx] /\ fate' = [fate EXCEPT ![id] = status]
    BY <1>8, <1>14 DEF Close
  <2>3. FreeRx \in RecvSet
    BY FreeRxIs
  <2>4. /\ recvCtx'[c] = FreeRx /\ \A d \in 1..NumRx : d # c => recvCtx'[d] = recvCtx[d]
        /\ fate'[id] = status /\ \A i \in 1..MaxMessages : i # id => fate'[i] = fate[i]
    BY <1>13, <2>1, <2>2, <2>3, PutIs, Zenon
  <2> QED
    BY <1>8, <2>4, Zenon DEF Closed
<1>15. CASE /\ ExNeed(c) <= Frag /\ ExNeed(c) <= ExRoom(c)
            /\ Complete(c, recvCtx[c].buffer \o SubSeq(f.bytes, 1, ExNeed(c)))
  <2> DEFINE bytes == recvCtx[c].buffer \o SubSeq(f.bytes, 1, ExNeed(c))
  <2>1. PICK crc \in Calculated(c, bytes), status \in Closings :
          /\ Close(c, status)
          /\ status = IF recvCtx[c].crc # crc THEN "CRC_ERROR"
                      ELSE IF bytes = Message(recvCtx[c].id) THEN "COMPLETE" ELSE "OTHER_DATA"
    <3> HIDE DEF bytes
    <3>1. Complete(c, bytes)
      BY <1>15 DEF bytes
    <3> QED
      BY <3>1 DEF Complete, Closings
  <2>2. ASSUME Good(r.id), SameCrc PROVE status = "COMPLETE"
    <3>1. Intact(r.id) /\ Continues(c, f)
      BY <1>7, <1>8, <1>11, <2>2 DEF Good, Continues, data
    <3>2. bytes = Message(recvCtx[c].id)
      BY <1>15, <3>1, AllBytes
    <3>3. crc = recvCtx[c].crc
      <4> HIDE DEF bytes
      <4> QED
        BY <1>8, <1>9, <2>1, <2>2, <3>2 DEF Calculated, SameCrc
    <3> QED
      BY <2>1, <3>2, <3>3
  <2> QED
    BY <1>14, <2>1, <2>2
<1>16. CASE ExRoom(c) <= Frag /\ ExRoom(c) < ExNeed(c) /\ Close(c, "TRUNCATED")
  <2>1. ~Good(r.id)
    BY <1>5, <1>6, <1>8, <1>12, <1>16, SMTT(30) DEF Good, k
  <2>2. "TRUNCATED" \in Closings
    BY DEF Closings
  <2> QED
    BY <1>14, <1>16, <2>1, <2>2
<1>17. CASE /\ Frag < ExNeed(c) /\ Frag < ExRoom(c)
            /\ recvCtx' = [recvCtx EXCEPT ![c].buffer = @ \o f.bytes, ![c].expected = @ + 1]
            /\ UNCHANGED fate
  <2>1. k + Frag < msgs[id].len
    BY <1>5, <1>6, <1>12, <1>17
  <2> DEFINE buf == r.buffer \o f.bytes
             q == [r EXCEPT !.buffer = buf, !.expected = r.expected + 1]
  <2>2. buf = SubSeq(data, 1, k + Frag)
    <3>1. k + Frag <= Len(data)
      BY <1>5, <1>6, <2>1
    <3> QED
      BY <1>5, <1>6, <1>7, <1>8, <1>10, <3>1, JoinNext
  <2>3. recvCtx'[c] = q /\ \A d \in 1..NumRx : d # c => recvCtx'[d] = recvCtx[d]
    <3>1. recvCtx' = [recvCtx EXCEPT ![c] = q] /\ recvCtx \in [1..NumRx -> RecvSet]
      BY <1>17 DEF ExTypes
    <3> HIDE DEF q, RecvSet
    <3> QED
      BY <3>1
  <2> HIDE DEF buf
  <2>4. /\ q.canid = n /\ q.stream = x.stream /\ q.id = id /\ q.expected = x.seq + 1 /\ q.buffer = buf
    BY <1>8, <1>9 DEF RecvSet
  <2>5. sendCtx'[n][e] = GoneOn(x)
    BY <1>4, <2>1 DEF k
  <2>6. /\ GoneOn(x).used /\ GoneOn(x).stream = x.stream /\ GoneOn(x).id = id
        /\ GoneOn(x).index = k + Frag /\ GoneOn(x).seq = x.seq + 1
    BY <1>3, <1>4, GoneOnIs DEF k
  <2>7. Copied(id)' = data
    <3>1. Grows /\ msgs \in Seq(Messages)
      BY <1>4 DEF Grows, ExTypes
    <3> QED
      BY <3>1, Kept DEF data
  <2>8. SubSeq(Copied(sendCtx[n][e].id), 1, sendCtx[n][e].index)' = buf
    <3>1. sendCtx'[n][e].id = id /\ sendCtx'[n][e].index = k + Frag
      BY <2>5, <2>6
    <3>2. Copied(sendCtx[n][e].id)' = Copied(id)'
      BY <3>1
    <3> QED
      BY <2>2, <2>7, <3>1, <3>2
  <2>9. Pair(c, n, e)'
    <3> HIDE DEF q
    <3> QED
      BY <2>3, <2>4, <2>5, <2>6, <2>8 DEF Pair
  <2>10. Stored(c, f)
    BY <1>17, <2>3 DEF Stored, buf
  <2> QED
    BY <1>2, <1>3, <2>1, <2>9, <2>10 DEF k, f
<1> QED
  BY <1>15, <1>16, <1>17 DEF ExTake, f

(* With nothing lost, each context still follows its sender after a fragment, *)
(* and a message whose context is closed was complete or did not fit.         *)
LEMMA AttendFragment ==
  ASSUME ExIInv, NEW n \in Nodes, ExSendFragment(n)
  PROVE  Attended' /\ Accounted'
<1> SUFFICES ASSUME Calm' PROVE Paired' /\ One' /\ (SameCrc => \A id \in 1..Len(msgs) : Good(id) => Fated(id))'
  BY DEF Attended, Accounted
<1>1. ExTypes /\ Sent /\ Received /\ Unsent /\ CompleteIsExact /\ Apart /\ Attended /\ Accounted
  BY DEF ExIInv
<1>2. /\ Turn(n).used /\ Turn(n).id \in 1..Len(msgs) /\ IsFragment(FragmentOf(n)) /\ Others(n, turn[n])
      /\ \/ ReceiveFragment(FragmentOf(n)) /\ losses' = losses
         \/ Lose
      /\ UNCHANGED <<halted, useCrc, msgs, calm, stale>>
  BY <1>1, ExFragmentIs
<1>3. PICK e \in 1..NumTx : e = turn[n] /\ Turn(n) = sendCtx[n][e] /\ Others(n, e)
  BY <1>1, <1>2 DEF ExTypes, Turn
<1>4. ~Lose
  BY <1>1 DEF Lose, Calm, ExTypes
<1>5. ReceiveFragment(FragmentOf(n)) /\ losses' = losses /\ Calm
  BY <1>2, <1>4 DEF Calm
<1>6. Paired /\ One /\ (SameCrc => \A id \in 1..Len(msgs) : Good(id) => Fated(id))
  BY <1>1, <1>5 DEF Attended, Accounted
<1>7. /\ msgs \in Seq(Messages) /\ Grows /\ Len(msgs') = Len(msgs)
  BY <1>1, <1>2 DEF ExTypes, Grows
<1>8. \A id \in 1..Len(msgs) : id \in 1..MaxMessages /\ (Good(id)' <=> Good(id))
  <2>1. Len(msgs) \in Nat /\ Len(msgs) <= MaxMessages /\ MaxMessages \in Nat
    BY <1>1, <1>7, LenProperties, ExConstantsAre DEF ExTypes, ExConstants
  <2>2. msgs' = msgs
    BY <1>2
  <2> QED
    BY <1>7, <2>1, <2>2, Kept
\* A context that does not match follows another send context.
<1>9. ASSUME NEW c \in 1..NumRx, recvCtx[c].used, recvCtx'[c] = recvCtx[c], c \notin Matching(FragmentOf(n))
      PROVE  \E k \in Nodes, g \in 1..NumTx : Pair(c, k, g)'
  <2>1. PICK k \in Nodes, g \in 1..NumTx : Pair(c, k, g)
    BY <1>6, <1>9 DEF Paired
  <2>2. sendCtx[k][g].used /\ recvCtx[c].canid = k /\ sendCtx[k][g].stream = recvCtx[c].stream
    BY <2>1 DEF Pair
  <2>3. ~(k = n /\ g = e)
    BY <1>3, <1>9, <2>2 DEF Matching, FragmentOf
  <2>4. sendCtx'[k][g] = sendCtx[k][g] /\ sendCtx[k][g].id \in 1..Len(msgs)
    BY <1>1, <1>3, <2>2, <2>3 DEF Others, Sent, Underway
  <2>5. Pair(c, k, g)'
    BY <1>7, <1>9, <2>1, <2>4, StillPair
  <2> QED
    BY <2>5
<1>10. CASE Matching(FragmentOf(n)) = {} /\ UNCHANGED <<recvCtx, fate>>
  <2>1. Paired'
    BY <1>9, <1>10 DEF Paired
  <2>2. One'
    BY <1>6, <1>10 DEF One
  <2>3. ASSUME SameCrc', NEW id \in 1..Len(msgs'), Good(id)' PROVE Fated(id)'
    <3>1. SameCrc /\ id \in 1..Len(msgs) /\ Good(id)
      BY <1>2, <1>7, <1>8, <2>3 DEF SameCrc
    <3>2. Fated(id)
      BY <1>6, <3>1
    <3> QED
      BY <1>10, <3>2 DEF Fated
  <2> QED
    BY <2>1, <2>2, <2>3
<1>11. CASE Matching(FragmentOf(n)) # {}
  <2>1. Lowest(Matching(FragmentOf(n))) \in Matching(FragmentOf(n))
    <3>1. Matching(FragmentOf(n)) \subseteq 1..NumRx /\ 1..NumRx \subseteq Nat
      BY ExConstantsAre DEF Matching, ExConstants
    <3> QED
      BY <1>11, <3>1, LowestIs
  <2>2. PICK c \in 1..NumRx : /\ c = Lowest(Matching(FragmentOf(n))) /\ recvCtx[c].used
                              /\ recvCtx[c].stream = Turn(n).stream /\ recvCtx[c].canid = n
    BY <2>1 DEF Matching, FragmentOf
  <2>3. Pair(c, n, e)
    <3>1. PICK k \in Nodes, g \in 1..NumTx : Pair(c, k, g)
      BY <1>6, <2>2 DEF Paired
    <3>2. k = n /\ sendCtx[n][g].used /\ sendCtx[n][g].stream = sendCtx[n][e].stream /\ sendCtx[n][e].used
      BY <1>2, <1>3, <2>2, <3>1 DEF Pair
    <3>3. g = e
      BY <1>1, <3>2 DEF Sent
    <3> QED
      BY <3>1, <3>2, <3>3
  <2>4. ASSUME NEW g \in 1..NumRx, g # c, recvCtx[g].used PROVE g \notin Matching(FragmentOf(n))
    BY <1>6, <2>2, <2>4 DEF One, Matching, FragmentOf
  <2>5. FragmentOf(n).seq = recvCtx[c].expected /\ recvCtx[c].id = Turn(n).id
    BY <1>3, <2>3 DEF Pair, FragmentOf
  <2>6. ExTake(c, FragmentOf(n))
    BY <1>5, <1>11, <2>2, <2>5 DEF ReceiveFragment
  <2>7. \/ Stored(c, FragmentOf(n)) /\ Pair(c, n, e)'
        \/ \E status \in Closings : /\ Closed(c, status)
                                    /\ Good(recvCtx[c].id) /\ SameCrc => status = "COMPLETE"
    BY <1>1, <1>3, <2>2, <2>3, <2>6, TakePaired
  <2>8. \A g \in 1..NumRx : g # c => recvCtx'[g] = recvCtx[g]
    BY <2>7 DEF Stored, Closed
  <2>9. recvCtx[c] \in RecvSet /\ recvCtx[c].id \in 1..Len(msgs)
    BY <1>1, <2>2, ServedIs
  <2>10. CASE Stored(c, FragmentOf(n)) /\ Pair(c, n, e)'
    <3>1. /\ recvCtx'[c].used = recvCtx[c].used /\ recvCtx'[c].stream = recvCtx[c].stream
          /\ recvCtx'[c].canid = recvCtx[c].canid /\ recvCtx'[c].id = recvCtx[c].id
      BY <2>9, <2>10 DEF Stored, RecvSet
    <3>2. Paired'
      <4>1. ASSUME NEW g \in 1..NumRx, recvCtx'[g].used PROVE \E k \in Nodes, h \in 1..NumTx : Pair(g, k, h)'
        BY <1>9, <2>4, <2>8, <2>10, <4>1
      <4> QED
        BY <4>1 DEF Paired
    <3>3. \A g \in 1..NumRx : /\ recvCtx'[g].used = recvCtx[g].used /\ recvCtx'[g].stream = recvCtx[g].stream
                              /\ recvCtx'[g].canid = recvCtx[g].canid /\ recvCtx'[g].id = recvCtx[g].id
      BY <2>8, <3>1
    <3>4. One'
      BY <1>6, <3>3 DEF One
    <3>5. ASSUME SameCrc', NEW id \in 1..Len(msgs'), Good(id)' PROVE Fated(id)'
      <4>1. SameCrc /\ id \in 1..Len(msgs) /\ Good(id)
        BY <1>2, <1>7, <1>8, <3>5 DEF SameCrc
      <4>2. Fated(id)
        BY <1>6, <4>1
      <4> QED
        BY <2>10, <3>3, <4>2 DEF Fated, Stored
    <3> QED
      BY <3>2, <3>4, <3>5
  <2>11. ASSUME NEW status \in Closings, Closed(c, status), Good(recvCtx[c].id) /\ SameCrc => status = "COMPLETE"
         PROVE  Paired' /\ One' /\ (SameCrc => \A id \in 1..Len(msgs) : Good(id) => Fated(id))'
    <3>1. ~recvCtx'[c].used
      BY <2>11, FreeRxIs DEF Closed
    <3>2. Paired'
      <4>1. ASSUME NEW g \in 1..NumRx, recvCtx'[g].used PROVE \E k \in Nodes, h \in 1..NumTx : Pair(g, k, h)'
        BY <1>9, <2>4, <2>8, <3>1, <4>1
      <4> QED
        BY <4>1 DEF Paired
    <3>3. One'
      BY <1>6, <2>8, <3>1 DEF One
    <3>4. ASSUME SameCrc', NEW id \in 1..Len(msgs'), Good(id)' PROVE Fated(id)'
      <4>1. SameCrc /\ id \in 1..Len(msgs) /\ Good(id) /\ id \in 1..MaxMessages
        BY <1>2, <1>7, <1>8, <3>4 DEF SameCrc
      <4>2. Fated(id)
        BY <1>6, <4>1
      <4>3. CASE id = recvCtx[c].id
        <5>1. fate'[id] = "COMPLETE"
          BY <2>11, <4>1, <4>3 DEF Closed
        <5> QED
          BY <5>1 DEF Fated
      <4>4. CASE id # recvCtx[c].id
        <5>1. fate'[id] = fate[id]
          BY <2>11, <4>1, <4>4 DEF Closed
        <5>2. \A g \in 1..NumRx : recvCtx[g].used /\ recvCtx[g].id = id => recvCtx'[g] = recvCtx[g]
          BY <2>8, <4>4
        <5> QED
          BY <4>2, <5>1, <5>2 DEF Fated
      <4> QED
        BY <4>3, <4>4
    <3> QED
      BY <3>2, <3>3, <3>4
  <2> QED
    BY <2>7, <2>10, <2>11
<1> QED
  BY <1>5, <1>10, <1>11 DEF ReceiveFragment

(* The invariant of the extended implementation holds at the start ...        *)
LEMMA ExInitial == ExInit => ExIInv
<1> SUFFICES ASSUME ExInit PROVE ExIInv
  OBVIOUS
<1>1. ExTypes
  <2>1. FreeTx \in SendSet /\ FreeRx \in RecvSet
    BY FreeRxIs DEF FreeTx, SendSet
  <2>2. sendCtx \in [Nodes -> [1..NumTx -> SendSet]] /\ recvCtx \in [1..NumRx -> RecvSet]
    BY <2>1 DEF ExInit
  <2>3. turn \in [Nodes -> 1..NumTx] /\ halted \subseteq Nodes
    BY ExConstantsAre DEF ExInit, ExConstants
  <2>4. useCrc \in [sender : BOOLEAN, receiver : BOOLEAN]
    BY ExAssumption DEF ExInit
  <2>5. fate \in [1..MaxMessages -> FateSet] /\ losses \in Nat /\ calm \in BOOLEAN
    BY DEF ExInit, FateSet
  <2>6. msgs \in Seq(Messages) /\ Len(msgs) <= MaxMessages
    BY ExConstantsAre DEF ExInit, ExConstants
  <2> QED
    BY <2>2, <2>3, <2>4, <2>5, <2>6 DEF ExTypes
<1>2. FreeTx.used = FALSE /\ FreeRx.used = FALSE
  BY DEF FreeTx, FreeRx
<1>3. Sent
  BY <1>2 DEF ExInit, Sent
<1>4. Received /\ Unsent /\ Paired /\ One
  BY <1>2 DEF ExInit, Received, Unsent, Paired, One
<1>5. CompleteIsExact /\ Accounted
  BY DEF ExInit, CompleteIsExact, Accounted
<1>6. Apart
  BY <1>2 DEF ExInit, Apart
<1> QED
  BY <1>1, <1>3, <1>4, <1>5, <1>6 DEF ExIInv, Attended

(* A step that leaves the messages and the contexts alone.                    *)
LEMMA ExUntouched ==
  ASSUME ExIInv, UNCHANGED <<sendCtx, recvCtx, useCrc, msgs, fate, losses, calm, stale>>,
         turn' \in [Nodes -> 1..NumTx], halted' \subseteq Nodes
  PROVE  ExIInv'
<1>1. ExTypes /\ Sent /\ Received /\ Unsent /\ CompleteIsExact /\ Apart /\ Attended /\ Accounted
  BY DEF ExIInv
<1>3. msgs \in Seq(Messages) /\ Grows /\ useCrc' = useCrc /\ stale \subseteq stale'
  BY <1>1 DEF ExTypes, Grows
<1>2. ExTypes' /\ Sent' /\ Unsent' /\ CompleteIsExact'
  <2>1. ExTypes' /\ Sent' /\ Unsent'
    BY <1>1 DEF ExTypes, Sent, Underway, Unsent
  <2>2. CompleteIsExact'
    BY <1>1, <1>3, StillExact DEF ExTypes
  <2> QED
    BY <2>1, <2>2
<1>7. Apart'
  <2>1. ASSUME NEW c \in 1..NumRx, recvCtx'[c].used, recvCtx'[c].id \notin stale' PROVE Own(c)' /\ Prefix(c)'
    <3>1. recvCtx'[c] = recvCtx[c] /\ Own(c) /\ Prefix(c) /\ recvCtx[c].id \in 1..Len(msgs)
      BY <1>1, <2>1, ServedIs DEF Apart
    <3>2. Own(c)'
      BY <3>1 DEF Own
    <3> QED
      BY <1>3, <3>1, <3>2, StillPrefix
  <2> QED
    BY <2>1 DEF Apart
<1>4. Received'
  <2>1. ASSUME NEW c \in 1..NumRx, recvCtx'[c].used PROVE Serves(c)'
    <3>1. recvCtx'[c] = recvCtx[c] /\ Serves(c)
      BY <1>1, <2>1 DEF Received
    <3> QED
      BY <1>3, <3>1, StillServes
  <2> QED
    BY <2>1 DEF Received
<1>5. Attended'
  <2>1. ASSUME Calm' PROVE Paired' /\ One'
    <3>1. Paired /\ One
      BY <1>1, <2>1 DEF Attended, Calm
    <3>2. ASSUME NEW c \in 1..NumRx, recvCtx'[c].used PROVE \E k \in Nodes, g \in 1..NumTx : Pair(c, k, g)'
      <4>1. PICK k \in Nodes, g \in 1..NumTx : Pair(c, k, g)
        BY <3>1, <3>2 DEF Paired
      <4>2. recvCtx'[c] = recvCtx[c] /\ sendCtx'[k][g] = sendCtx[k][g] /\ sendCtx[k][g].id \in 1..Len(msgs)
        BY <1>1, <4>1 DEF Pair, Sent, Underway
      <4>3. Pair(c, k, g)'
        BY <1>3, <4>1, <4>2, StillPair
      <4> QED
        BY <4>3
    <3> QED
      BY <3>1, <3>2 DEF Paired, One
  <2> QED
    BY <2>1 DEF Attended
<1>6. Accounted'
  <2>1. \A id \in 1..Len(msgs) : Good(id)' <=> Good(id)
    BY <1>3, Kept
  <2>2. \A id : Fated(id)' <=> Fated(id)
    BY DEF Fated
  <2> QED
    BY <1>1, <2>1, <2>2 DEF Accounted, Calm, SameCrc
<1> QED
  BY <1>2, <1>4, <1>5, <1>6, <1>7 DEF ExIInv

(* ... and is kept by every step.                                             *)
LEMMA ExInductive == ExIInv /\ [ExNext]_exVars => ExIInv'
<1> SUFFICES ASSUME ExIInv, [ExNext]_exVars PROVE ExIInv'
  OBVIOUS
<1>1. ExTypes /\ Sent /\ Received /\ Unsent /\ CompleteIsExact /\ Apart /\ Attended /\ Accounted
  BY DEF ExIInv
<1>2. ASSUME NEW n \in Nodes, NEW stream \in Streams, NEW m \in Messages, ExSend(n, stream, m)
      PROVE  ExIInv'
  <2>1. /\ Len(msgs) < MaxMessages /\ msgs' = Append(msgs, m)
        /\ sendCtx' \in [Nodes -> [1..NumTx -> SendSet]] /\ Sent'
        /\ \/ ReceiveHeader(HeaderOf(n, stream, m)) /\ losses' = losses
           \/ Lose
        /\ turn' = turn /\ halted' = halted /\ useCrc' = useCrc /\ calm' = calm /\ stale \subseteq stale'
    BY <1>1, <1>2, ExSendIs
  <2>2. /\ msgs' \in Seq(Messages) /\ Len(msgs) \in Nat /\ Len(msgs') = Len(msgs) + 1
        /\ Len(msgs') <= MaxMessages /\ msgs \in Seq(Messages) /\ Grows
    BY <1>1, <2>1, AppendedIs DEF ExTypes
  <2>3. Outcome /\ Received' /\ Unsent' /\ CompleteIsExact' /\ losses' \in Nat
    <3>1. CASE ReceiveHeader(HeaderOf(n, stream, m)) /\ losses' = losses
      BY <1>1, <2>1, <3>1, HeaderOutcome DEF ExTypes
    <3>2. CASE Lose
      <4>1. Outcome /\ losses' \in Nat /\ recvCtx' = recvCtx /\ fate' = fate
        BY <1>1, <3>2 DEF Lose, Outcome, ExTypes
      <4>2. ASSUME NEW c \in 1..NumRx, recvCtx'[c].used PROVE Serves(c)'
        <5>1. recvCtx'[c] = recvCtx[c] /\ Serves(c)
          BY <1>1, <4>1, <4>2 DEF Received
        <5> QED
          BY <2>1, <2>2, <5>1, StillServes
      <4>3. \A i \in 1..MaxMessages : i > Len(msgs') => i > Len(msgs)
        BY <2>2, ExConstantsAre DEF ExConstants
      <4>4. Unsent' /\ CompleteIsExact'
        BY <1>1, <2>1, <2>2, <4>1, <4>3, StillExact DEF Unsent
      <4> QED
        BY <4>1, <4>2, <4>4 DEF Received
    <3> QED
      BY <2>1, <3>1, <3>2
  <2>4. ExTypes'
    BY <1>1, <2>1, <2>2, <2>3 DEF ExTypes, Outcome
  <2> QED
    BY <1>2, <2>1, <2>3, <2>4, ApartSend, AttendSend DEF ExIInv
<1>3. ASSUME NEW n \in Nodes, NEW stream \in Streams, SendBeyond(n, stream) PROVE ExIInv'
  <2>1. turn' \in [Nodes -> 1..NumTx] /\ halted' \subseteq Nodes
    BY <1>1, <1>3 DEF SendBeyond, ExTypes
  <2> QED
    BY <1>3, <2>1, ExUntouched DEF SendBeyond
<1>4. ASSUME NEW n \in Nodes, ExSendFragment(n) PROVE ExIInv'
  <2>1. /\ sendCtx' \in [Nodes -> [1..NumTx -> SendSet]] /\ Sent' /\ turn' \in [Nodes -> 1..NumTx]
        /\ IsFragment(FragmentOf(n)) /\ Proper(FragmentOf(n))
        /\ \/ ReceiveFragment(FragmentOf(n)) /\ losses' = losses
           \/ Lose
        /\ halted' = halted /\ useCrc' = useCrc /\ msgs' = msgs /\ calm' = calm /\ stale' = stale
    BY <1>1, <1>4, ExFragmentIs, ProperIs
  <2>2. Outcome /\ Received' /\ Unsent' /\ CompleteIsExact' /\ losses' \in Nat
    <3>1. CASE ReceiveFragment(FragmentOf(n)) /\ losses' = losses
      BY <1>1, <2>1, <3>1, FragmentOutcome DEF ExTypes
    <3>2. CASE Lose
      <4>1. Outcome /\ losses' \in Nat /\ recvCtx' = recvCtx /\ fate' = fate
        BY <1>1, <3>2 DEF Lose, Outcome, ExTypes
      <4>2. ASSUME NEW c \in 1..NumRx, recvCtx'[c].used PROVE Serves(c)'
        <5>1. recvCtx'[c] = recvCtx[c] /\ Serves(c) /\ msgs \in Seq(Messages) /\ Grows
          BY <1>1, <2>1, <4>1, <4>2 DEF Received, ExTypes, Grows
        <5> QED
          BY <2>1, <5>1, StillServes
      <4>3. Unsent' /\ CompleteIsExact'
        <5>1. Grows /\ stale \subseteq stale' /\ msgs' \in Seq(Messages) /\ Len(msgs') <= MaxMessages
          BY <1>1, <2>1 DEF Grows, ExTypes
        <5> QED
          BY <1>1, <2>1, <4>1, <5>1, StillExact DEF Unsent
      <4> QED
        BY <4>1, <4>2, <4>3 DEF Received
    <3> QED
      BY <2>1, <3>1, <3>2
  <2>3. ExTypes'
    BY <1>1, <2>1, <2>2 DEF ExTypes, Outcome
  <2> QED
    BY <1>4, <2>1, <2>2, <2>3, ApartFragment, AttendFragment DEF ExIInv
<1>5. ASSUME NEW n \in Nodes, PassTurn(n) PROVE ExIInv'
  <2>1. turn' \in [Nodes -> 1..NumTx]
    <3>1. \A c \in 1..NumTx : NextTurn(c) \in 1..NumTx
      BY ExConstantsAre DEF NextTurn, ExConstants
    <3>2. turn \in [Nodes -> 1..NumTx] /\ turn' = [turn EXCEPT ![n] = NextTurn(turn[n])]
      BY <1>1, <1>5 DEF PassTurn, ExTypes
    <3> QED
      BY <3>1, <3>2
  <2> QED
    BY <1>1, <1>5, <2>1, ExUntouched DEF PassTurn, ExTypes
<1>6. ASSUME NEW c \in 1..NumRx, ExTimeout(c) PROVE ExIInv'
  <2>1. /\ recvCtx[c].used /\ Close(c, "TIMEOUT_ERROR") /\ calm' = FALSE
        /\ UNCHANGED <<sendCtx, turn, halted, useCrc, msgs, losses, stale>>
        /\ UNCHANGED <<msgs, useCrc, stale>>
    BY <1>6 DEF ExTimeout
  <2>2. "TIMEOUT_ERROR" \in Closings /\ "TIMEOUT_ERROR" # "OTHER_DATA"
    BY DEF Closings
  <2>3. Outcome /\ Closed(c, "TIMEOUT_ERROR") /\ Received' /\ Unsent' /\ CompleteIsExact'
    BY <1>1, <2>1, <2>2, CloseIs
  <2>4. ExTypes'
    BY <1>1, <2>1, <2>3 DEF ExTypes, Outcome
  <2>5. Sent'
    BY <1>1, <2>1 DEF Sent, Underway
  <2>6. ~Calm'
    BY <2>1 DEF Calm
  <2>7. Apart'
    <3>1. ASSUME NEW g \in 1..NumRx, recvCtx'[g].used, recvCtx'[g].id \notin stale' PROVE Own(g)' /\ Prefix(g)'
      <4>1. recvCtx'[g] = recvCtx[g]
        BY <2>3, <3>1, FreeRxIs DEF Closed
      <4>2. Own(g) /\ Prefix(g) /\ recvCtx[g].id \in 1..Len(msgs) /\ msgs \in Seq(Messages) /\ Grows
        BY <1>1, <2>1, <3>1, <4>1, ServedIs DEF Apart, ExTypes, Grows
      <4>3. Own(g)'
        BY <2>1, <4>1, <4>2 DEF Own
      <4> QED
        BY <4>1, <4>2, <4>3, StillPrefix
    <3> QED
      BY <3>1 DEF Apart
  <2> QED
    BY <2>3, <2>4, <2>5, <2>6, <2>7 DEF ExIInv, Attended, Accounted
<1>7. CASE UNCHANGED exVars
  BY <1>1, <1>7, ExUntouched DEF exVars, ExTypes
<1> QED
  BY <1>2, <1>3, <1>4, <1>5, <1>6, <1>7 DEF ExNext

(* It holds in every state.                                                   *)
LEMMA ExInvariant == ExSpec => []ExIInv
BY ExInitial, ExInductive, PTL DEF ExSpec

(* A receive context in use always takes a byte and has room for one: the     *)
(* copy loop never stores beyond its buffer (lines 658 to 696). A send context*)
(* in use has bytes to send, unless its message has none, and the turn is     *)
(* always that of a context.                                                  *)
THEOREM ExTypeCorrect == ExSpec => []ExTypeOK
<1>1. ExIInv => ExTypeOK
  <2> SUFFICES ASSUME ExIInv PROVE ExTypeOK
    OBVIOUS
  <2>1. ExTypes /\ Sent /\ Received
    BY DEF ExIInv
  <2>2. ASSUME NEW c \in 1..NumRx, recvCtx[c].used
        PROVE  ExNeed(c) > 0 /\ Len(recvCtx[c].buffer) < BufLen
    <3>1. Len(<<>>) = 0
      OBVIOUS
    <3> QED
      BY <2>1, <2>2, <3>1, ServedIs, SMTT(30) DEF ExNeed
  <2>3. ASSUME NEW n \in Nodes, NEW c \in Busy(n)
        PROVE  \/ sendCtx[n][c].index = 0
               \/ sendCtx[n][c].index \in 1..(msgs[sendCtx[n][c].id].len - 1)
    <3>1. c \in 1..NumTx /\ sendCtx[n][c].used
      BY <2>3 DEF Busy
    <3>2. PICK id \in 1..Len(msgs) : /\ id = sendCtx[n][c].id
                                      /\ (sendCtx[n][c].index < msgs[id].len \/ sendCtx[n][c].index = 0)
      BY <2>1, <3>1 DEF Sent, Underway
    <3>3. msgs[id].len \in Nat
      BY <2>1, CopiedIs DEF ExTypes
    <3>4. sendCtx[n][c] \in SendSet
      <4>1. sendCtx \in [Nodes -> [1..NumTx -> SendSet]]
        BY <2>1 DEF ExTypes
      <4> HIDE DEF SendSet
      <4>2. sendCtx[n] \in [1..NumTx -> SendSet]
        BY <4>1
      <4> QED
        BY <3>1, <4>2
    <3>5. sendCtx[n][c].index \in Nat
      BY <3>4 DEF SendSet
    <3> QED
      BY <3>2, <3>3, <3>5, SMTT(30)
  <2> QED
    BY <2>1, <2>2, <2>3 DEF ExTypes, Sent, ExTypeOK
<1> QED
  BY <1>1, ExInvariant, PTL

(* What a receive context is reported COMPLETE with is the message that its   *)
(* header announced, byte for byte, with or without the CRC and whatever is   *)
(* lost, late or interleaved (lines 489-537 and 632-686), unless its sender   *)
(* began another message on the stream while the context was in use, or the   *)
(* message has a zero byte inside, or no byte.                                *)
THEOREM CompleteExact == ExSpec => []CompleteIsExact
<1>1. ExIInv => CompleteIsExact
  BY DEF ExIInv
<1> QED
  BY <1>1, ExInvariant, PTL

(* Until a frame is lost or a context times out, no two receive contexts serve*)
(* one stream of one sender: the first match (line 638) is the only one.      *)
THEOREM ContextsUnique == ExSpec => []OneContext
<1>1. ExIInv => OneContext
  BY DEF ExIInv, Attended, One, OneContext
<1> QED
  BY <1>1, ExInvariant, PTL

(* Until then, and unless only the senders use the CRC, each message of some  *)
(* bytes, no zero among them, that fits and found a context is COMPLETE by the*)
(* time it is sent, however the streams are interleaved (lines 489-556 and    *)
(* 580-701).                                                                  *)
THEOREM StreamsKeptApart == ExSpec => []StreamsApart
<1>1. ExIInv => StreamsApart
  <2> SUFFICES ASSUME ExIInv, Calm, SameCrc, NEW id \in DOMAIN msgs, Finished(id), fate[id] # "NONE",
                      msgs[id].len <= BufLen, Intact(id)
               PROVE  fate[id] = "COMPLETE"
    BY DEF StreamsApart, SameCrc
  <2>1. id \in 1..Len(msgs)
    BY LenProperties DEF ExIInv, ExTypes
  <2>2. Paired /\ Fated(id)
    BY <2>1 DEF ExIInv, Attended, Accounted, Good
  <2>3. ASSUME NEW c \in 1..NumRx, recvCtx[c].used, recvCtx[c].id = id PROVE FALSE
    <3>1. PICK n \in Nodes, d \in 1..NumTx : Pair(c, n, d)
      BY <2>2, <2>3 DEF Paired
    <3>2. sendCtx[n][d].used /\ sendCtx[n][d].id = id
      BY <2>3, <3>1 DEF Pair
    <3> QED
      BY <3>2 DEF Finished, Busy
  <2> QED
    BY <2>2, <2>3 DEF Fated
<1> QED
  BY <1>1, ExInvariant, PTL
=============================================================================
