# CBUSPicoLib in TLA+

CBUSPicoLib lets a Raspberry Pi Pico take part in a model-railway CBUS network: it receives and
sends CAN frames, keeps the node's identity and its table of learned events in flash, answers
configuration tools, follows a push button and two LEDs, and can forward frames to GridConnect
clients over WiFi. This directory holds models of that code, the TLC runs that check them on
small instances, and proofs, checked by TLAPS, that hold for every instance.

Line numbers refer to the files under `src/`.

## 1. The system

### Components

| component | state | operations | talks to | here |
|---|---|---|---|---|
| frame ring, `CBUSCircularBuffer` | slots, head, tail, full flag, cached size, statistics | put, get, peek, clear, available | written by an interrupt or an lwIP callback, read by the main loop | modelled |
| CAN layer, `CBUSACAN2040` | two rings, the `can2040` driver | `notify_cb` (interrupt), available, getNextMessage, sendMessage, reset | driver, ring, GridConnect server | all but `begin()` and `reset()` |
| message loop, `CBUSbase::process` | `m_bThisNN`, the last node and event number | one turn: LEDs, switch, mode, enumeration, up to 3 frames from own events, GridConnect, CAN in that order | everything | queues and priorities; commands that only answer are one action, their answer |
| mode and identity, `FLiMSWCheck` and the identity commands | `m_flimState`, `m_prevFlimState`, `m_bLearn`; mode, node number and CAN ID in flash | button steps, SNN, CANID, NNLRN, NNULN, setSLiM, renegotiate | switch, LEDs, configuration | modelled |
| learned events, `CBUSConfig` and the learn commands | the event table, its hash table, the collision flag | EVLRN, EVULN, NNCLR, lookup, counts, begin | flash | modelled |
| CAN ID self-enumeration | response bits, start time, three flags | `checkIncomingFrame` (interrupt), `processEnumeration`, ENUM | CAN layer, configuration | modelled |
| flash storage, `CBUSConfig` | RAM copy of the sector, two dirty flags, the sector | write byte, flush, load, NVSET, factory reset | events, identity, node variables | the flash variant |
| long messages, `CBUSLongMessage`, `...Ex` | one sender and one receiver, or contexts of each | send, process, fragment received | CAN layer, the application's callback | modelled |
| GridConnect server | client, saved send buffer, receive ring, parser state | accept, receive, sent, poll, error (lwIP callbacks); canSend, sendCANFrame, get (main loop) | message loop, lwIP | every callback, until a write through a stale pointer |
| GridConnect text | | encodeGC, decodeGC | GridConnect server | modelled |
| switch | debounced level, times and durations | run, reset | mode, factory reset | all but the durations of earlier states |
| LED | level, blink, pulse | on, off, blink, pulse, run | mode | as `FLiMSWCheck` and `process()` use it |
| WiFi, driver wrapper, clock, parameters | | thin layers over the SDK | | not modelled |

### What is hard

- **Interrupts.** `notify_cb` runs the ring's `put()` and the whole of `checkIncomingFrame()`, which
  can even send a frame, between any two memory accesses of the main loop. Nothing masks it: the
  comment in `get()` that says so has no code under it. The GridConnect server's callbacks meet the
  same ring the same way.
- **Derived state.** The cached size of the ring, the hash table and the collision flag, the mode
  in the button handling, the RAM copy of the flash sector and its dirty flags are all copies of
  something else, maintained by hand at every change.
- **Power.** Identity and events are written in several flushes, and a flush erases the only copy
  before programming it.
- **Time.** Self-enumeration, long messages, the LEDs and the debouncing compare `uint32_t` clock
  differences, with start times of any age.
- **Sequences.** Freed and reused event slots, a button pressed while commands change the mode,
  long messages interleaved with others.
- **The network.** Frames of long messages get lost; TCP cuts a client's text anywhere, refuses
  what does not fit, acknowledges late; clients come, go and are reset in the middle of anything.

What each component owes: the ring loses frames only by overwriting the oldest of a full ring and
says so; the loop sees each frame once, whole and in order; the table is a map, however its slots
are reused; the mode, the number and what the LEDs show agree; an enumeration ends with an ID
nobody answered with; a message is delivered as sent or reported as broken; what was stored is
there after a restart; a client gets the frames of the bus and the node those of the client, once
and in order; flash is wiped only after the press that asks for it.

`PROJECT.json` lists the hazards one by one, at their lines, with the properties that look for
them. Where the code meets a hazard and fails, the entry says so instead: no property holds of it
there, and the premise of those next to it leaves the case out, by a history named in section 2.

## 2. Modules

| module | what it is |
|---|---|
| `BoundedFifo` | abstract: a queue that drops its oldest frame when full |
| `CircularBuffer` | the ring, one action per method; refines `BoundedFifo` |
| `RxPath` | extends `CircularBuffer`: the interrupt against the reader's memory accesses |
| `LearnMap` | abstract: the map of known events a configuration tool sees |
| `EventTable`, `MCEventTable` | table, hash table and learn commands; refines `LearnMap`. Two-byte events and a hash with collisions for TLC |
| `FlimNode` | mode, identity, learn mode, LEDs, restarts and power cuts |
| `SelfEnum` | the CAN ID enumeration: the receive interrupt against the loop's readings of the clock |
| `FlashStore`, `MCFlashStore` | sector, copy, flags, commands as batches of writes, power loss, factory reset |
| `LongFrame` | how a long message is cut into frames, for the two modules that follow |
| `LongMessage` | the lite implementation: senders, a lossy bus, a receiver that follows one message |
| `LongMessageEx`, `MCLongMessageEx` | the extended one: contexts at both ends, the CRC |
| `GridText` | `encodeGC()` and `decodeGC()` |
| `GridStream`, `MCGridStream` | extends `GridText`: from TCP's segments to frames, over several connections. Frames for TLC and the parsing loop as it is written |
| `Gateway` | the queues of the message loop with the sending half of the GridConnect server |
| `Switch` | the push button, its debouncing, and the wait of a factory reset |
| `CircularBuffer_proofs`, `EventTable_proofs`, `FlimNode_proofs`, `SelfEnum_proofs`, `FlashStore_proofs`, `LongMessage_proofs`, `Switch_proofs` | theorems about the module each is named after, for every value of its constants; `CircularBuffer_proofs` also about `RxPath`, `LongMessage_proofs` also about `LongMessageEx` |
| `GridConnect_proofs` | theorems about `Gateway`, `GridText` and `GridStream` |

`map` in `PROJECT.json` gives the lines of every definition. In each module an operator whose
comment begins with "mutant" is a plausible slip in the definition that follows it; it takes no
part in the specification and serves to see that a property would notice.

### `CircularBuffer` and `BoundedFifo`

The variables carry the names of the members. `Put`, `Get`, `Peek`, `Clear` are the methods;
`ReturnNull` is `get()` or `peek()` on an empty ring. `size()` both returns and caches the size: it
is `RingSize`, and every action that calls it sets `m_size'`. The counters wrap at `CounterMod`
(2^32 in the code). `dropped` and `returned` are history. Insertion times are not modelled, nor is
the ring whose allocation failed, which does nothing.

### `RxPath`

The main loop's `while (available()) getNextMessage()` becomes a program counter with one action per
access to shared memory: `Locate`, `ClearFull`, `Advance`, in `size()` the load
of the full flag, the comparison of head and tail, their difference and the store of the result, which
`get()` stores again, and the copy of the frame in two halves. `Receive` is the
interrupt, whole, between any two of them. The members are neither `volatile` nor atomic: `size()` names
`m_head` at 232 and again at 234 or 238, and the compiler may load it once or each time. So `headReg` and
`tailReg` hold the values last loaded, and `Reload` may take either from memory again before any use; with
a head that wraps in between, `Difference` is that of a `uint8_t`, as much as 255. `ReloadSize` is the same
for the value `size()` returns. Frames are numbered
in order of arrival, so order and repetition can be read off `delivered`; a frame whose halves
differ is `Torn`. `raced` remembers that an interrupt found no more than one slot free while the reader
was busy with a frame.

### `EventTable` and `LearnMap`

A slot is a function from byte offsets to bytes: first the event, then its variables; `WriteByte`
at an offset beyond the slot lands in the next one, as `writeEventEV()` would. `hash` and
`collisions` are the RAM copies. `Evlrn` is `doEvlrn()` with its refusals, `EvlrnCut` the same cut by
a power loss after `writeEvent()` and followed by `begin()`; `Evuln`, `Nnclr` and `Begin` are the
others. The commands are those of a node in learn mode. The replies a tool can tell apart are in
`reply`. The cache and the flash are one here; that they may be is `FlashStore`'s `ReadBack`.

The abstract map says, among other things, that teaching variable 2 of an unknown event is
acknowledged and forgotten, and that an event newly known has arbitrary values in the variables
not yet taught: that is what the code does (1289, 1345).

### `FlimNode`

One action per branch of `FLiMSWCheck()`, per identity command, per call of the application. How
long the button was held and whether it settled are inputs. An LED is its level, blink and pulse
flags; "the period is over" is a choice (`Toggled`, `Expired`). Every frame makes the LED of the
other mode flicker, as the end of `process()` does. `resetModule()` with LEDs and switch is two
actions: `ResetGivenUp` leaves both LEDs blinking, in whatever mode the node is, and `ResetModule`
stores zeros, a CAN ID of 0 among them, or leaves the defaults where power is lost after the erase,
and restarts. `Restart` keeps the flash and loses the rest; `SnnCut` and `SLiMCut` stop between the
flushes of `doSnn()` and `setSLiM()`, and `torn` remembers it. Node numbers are those a tool
assigns, not zero: `doSnn()` itself would take zero.

### `SelfEnum`

`process()` is a program counter: the two readings of the clock in `processEnumeration()`, the use of
each, the scan for a free ID, its store, the clearing of the flags, then at most one ENUM or CANID
command, whose `doEnum(true)` is again two steps. `Interrupt` is `checkIncomingFrame()`, whole, between
any two of these, for any frame another node may send; so the answers to a request may come early,
late, in any number or not at all. A node starts with an ID that `setCANID()` took, or with the 0 that
`resetModule()` stored past it. `m_enumResponses` is the set of positions of the bits that are
set; `Position` is the index arithmetic of line 1567, which uses the identifier with its priority, and
the scan reads positions as IDs. A frame of the default priority 11 falls beyond the array and has no
effect on this object: the array is followed by some 70 bytes of members and the frame lands behind
them. (Priorities 2 to 8, which this library never sends, would hit those members; they are left
out.) A remote request carries a flag in bit 30 of the identifier and is recorded 64 MB away, which on
an RP2040 is a hard fault: `Fault` stops the node, `Asked` is the machine on which nothing happens.
Extended frames carry bit 31 and would do the same; they are not modelled. The frames the node sends
are not part of the state, since other nodes may send anything at any time anyway. `heard` and
`window` are history; `clock` is forgotten once used, and `heard` and `window` when the enumeration
ends, which no action depends on.

### `FlashStore`

A byte is the set of its bits that are one, so that programming is intersection and erasing sets all
bits. A cell is a byte, or bytes that the code always writes together: mode, CAN ID, node number,
reset flag, the node variables, one cell for each event. `cache`, `modified` and `zeroToOne` are
`m_flashBuf` and its two flags. Every command of `CBUSConfig` is a list of batches, the bytes
written to the copy before each `flushToFlash()`; `Write` is the batch, then come `Unmodified`,
`Erase` or `NoErase` and `Program` once a page. `PowerLoss` may fall between any two of them and
restarts with `begin()`, whose `loadNVs()` stores the defaults on a sector without the flag.
`Nvset` keeps the bounds test of line 1160, which compares a truth value, so its indices run from
one below the table to one beyond the image. `ResetModule` erases the sector and not the copy, as
the code does. Interrupts are off during a flush, and no command begins before the last has ended.

### `LongMessage`, `LongMessageEx` and `LongFrame`

A byte of a message is the pair of the message and its position, so that a hole, a repetition or a
byte of another message shows. `Receive` is `processReceivedMessageFragment()` whole. In the lite
module a sender's `process()` is `SendFragment`, the receiver's is `Timeout`; the pause before a
fragment and the age of the last one are choices. A frame lost on the bus and one refused by the
sender's transmit buffer are the same: the sender counts it as sent. The sequence number sent wraps
at `SeqMod` and the one expected does not. The length in a header is taken modulo `LenMod` (2^16), for the
header has two bytes for it, and may be 0, as `sendLongMessage()` refuses neither: `States` tells whether a
header can state the length of its message. A fragment whose number has wrapped to 0 is read as a
header with whatever length its bytes spell: `Stated`. `mistaken` remembers that the message under way
began with either, `clean` is the set of senders whose message met neither a loss nor a frame of another
sender.

The extended module has `NumTx` contexts at each sender, served in turn, and `NumRx` at the
receiver. A message has whatever CRC it has (`crc`), 0 among them, and a header without one says 0
as well, as the code's does. The receiver calculates one only if the header's is not 0 (670); of the
very bytes announced it is the message's, of any others it may be any, also the same (`Calculated`).
`Copied` is what `strdup()` leaves of a message with a zero byte; what the sender reads behind it is
`Garbage`. `fate` is the last status given for each message, with COMPLETE split into the message
announced and "OTHER_DATA". `stale` is the set of the messages still in a receive context when their
sender began the next one on the stream. A sender that uses the context behind its array stops
(`halted`).

### `GridText` and `GridStream`

A character is a number: the value of a digit, a delimiter, or `Other`. `EncodeGC` and `DecodeGC` follow
the bit arithmetic of the identifiers and the lengths `decodeGC()` demands; sequences stand for the
buffers. In `GridStream` a client's text waits in `unread` and `Recv` delivers any prefix of it:
`serverRecv()` with the whole of `extractAndQueueGC()`. Of that loop the module says what it makes of a
whole text, so that it can be reasoned about: a message ends at each end with a start behind the end
before, and begins at the first such start. `Extract` is the frames of those that decode and `Kept` the
buffer afterwards. The loop as it is written, one message at a time, is `Parse` in `MCGridStream`. The
receive buffer outlives connections, as the member does. `disturbed` remembers the three things that do
break the stream.

### `Gateway`

One action for each step of the loop that a callback can come between: `CheckSend` is `canSend()`,
`Pull` is `getNextMessage()` with the reading of the client's pointer, `Write` is `serverSend()`,
which holds lwIP's lock, and `Handled` ends the handling of the frame (709 to the end of the turn),
whichever queue it is from. Any handler may answer, any number of times: `OwnFrame` is
`sendMessage()`, which forwards without `canSend()` (231 to 234 of `CBUSACAN2040.cpp`), from a
handler or between two frames, and goes back to where it came from (`after`). `Accept`, `Ack`,
`Poll`, `RemoteClose`, `Abort` and `Reset` are the callbacks. lwIP is external and modelled from its
use: control blocks that live and die, a send buffer of `SndBuf` messages for each, memory that may
run out. `OwnEvent` is an event of the application, which is forwarded in the same way and also
queued for the node itself. `due` and `wire` are the frames that `serverSend()` was called with and
those TCP took, up to the first that TCP refused. `Shutdown` is `serverShutdown()`, which closes the
client through whatever pointer the server has. `canSend()` on a null client reads whatever is at
that address: `nullSnd`, the same each time. A write through a pointer lwIP has freed sets `wild`,
and the model says nothing of what follows.

### `Switch`

`Sample` is `run()` up to its first reading of the clock and `Decide` the rest; ticks and bounces of
the pin fall between. `AskReset`, `Check` and `GiveUp` are the loop of `resetModule()`, which calls
`run()` itself. Clock readings wrap at `Mod`, and no reading is compared with anything but through
`Elapsed`. `steady`, `since` and `down` are history.

## 3. Runs

| run | instance | result |
|---|---|---|
| `ring` | 3 slots, 2 frames, counters modulo 3; unbounded histories | 10 801 states, all properties hold |
| `rx_path` | 4 slots, 8 frames received, counters modulo 3 | 252 238 states, all properties hold |
| `event_table` | 3 slots, 2 variables, 5 events of 2 bytes, one pair and the unused event sharing a hash | 13 944 states, all properties hold |
| `flim` | 2 node numbers, CAN IDs 0, 5 and 100 | 7 023 states, all properties hold |
| `self_enum` | IDs 1 to 3 of which 1 and 2 are valid, 2 bits an element, priorities 0, 1 and 2, timeouts 2 and 4, an 8-tick clock, one tick a turn, CAN IDs of the node and the others from 0, one foreign request | 617 289 states, all properties hold |
| `flash` | bytes of 2 bits, pages of 4 cells, one variable, two events, an unowned byte | 401 307 states, all properties hold |
| `long_message` | 2 senders, 2 streams of which one is subscribed to, fragments of 2 bytes, messages of 0, 3, 4 and 6, a buffer of 3, numbers modulo 3, lengths modulo 5, 2 messages each, one frame lost | 1 082 603 states, all properties hold |
| `long_ex` | 2 nodes, 3 streams, 2 contexts at each end, messages of 0, 2, 3 and 4 bytes, one with a zero byte, CRCs 0 and 1, a buffer of 3, 3 messages, one frame lost | 4 063 697 states, all properties hold |
| `grid_stream` | 2 clients, the shortest and the longest frame, one failed allocation | 928 567 states, all properties hold |
| `gateway` | ring and send buffer of 1, 2 frames of the bus, 1 of the client, 1 of the node's own, 2 connections, 1 failure of lwIP's pools | 640 672 states, all properties hold |
| `switch` | a 12-tick clock, debounce 3, hold 4, patience 8, one tick between steps | 2 204 706 states, all properties hold |
| `enum_heard` | the real sizes, priority 11, the times of `self_enum` | `HeardNotTaken` violated |

`grid_stream` also evaluates `RoundTrip`, that `decodeGC()` undoes `encodeGC()`: for each bit of an
extended identifier set alone and cleared alone, all standard identifiers and every value of a byte;
and `LoopExtracts`, that `Extract` and `Kept` say what `Parse` does: for every text of up to five pieces
out of a start, an end, a stray character, a run too long for the buffer and a message, with the buffer
empty and not.

**What each run asks.** `ring`: is the ring, called one method at a time, the drop-oldest queue,
with counters that account for every frame? `rx_path`: what is left of that when the interrupt falls
between memory accesses, and is every loss counted? `event_table`: is the table with its short cut a
map? `flim`: do the button, the stored mode and the blinking agree through every order of presses,
commands, factory resets, restarts and power cuts? `self_enum`: is the answering window kept, an ID
that was heard not taken, every enumeration ended? `flash`: is what is read what is stored, and is
the identity never half there? `long_message`, `long_ex`: is COMPLETE said of nothing but a message
sent, and of every one undisturbed, whatever lengths, CRCs and streams meet? `grid_stream`: do TCP's
segments become the frames written? `gateway`: does a client get every frame, does the node stay on
the bus whatever the client does, is a closed client closed? `switch`: is only a level that lasted
reported, and is every one that lasts?

**Bounds.** Three slots are the smallest ring in which head and tail are apart, adjacent and equal
in both senses; counters modulo 3 wrap many times and in every relation to each other. In `rx_path`
the ring has four, so that frames can wait, arrive and be lost with the reader busy and two slots
still free; eight frames fill it twice, so every overwrite happens at every program counter, and the
head wraps between any two loads of it. `MaxFrames` is the only bound on `RxPath`. In the event
table three slots allow a hole before, between and after two events of one hash; byte values 0, 1
and 255 include the erased byte in the first or the second position and in both. No variable of
`CircularBuffer`, `EventTable`, `FlimNode`, `FlashStore` or `Switch` grows, so those runs are
complete for their constants. `self_enum` shrinks the array to two elements of two bits, so that it
fills up: priority 0 writes the first element, priority 1 the second, and priority 2 stands for
every one that falls beyond. An ID of 3 is free but not valid. The two timeouts keep their ratio.
`MaxLag` and `MaxAsked` bound the lateness of the loop and the requests of other nodes.

Two bits are the fewest that tell a byte that needs an erase from one that does not and from the
erased one. In `flash` the identity is on one page and variables and events on the next, so that
power can be lost with one programmed and the other not. A message of 6 bytes has three
fragments, the last of them numbered 0 again, fills the buffer twice over, and its length is stated as 1; one of
3 ends in a short fragment and fills the buffer exactly; one of 4 does not fit it. With two
messages each, one sender's second can meet the other's first half done. In `long_ex` three streams
exceed the two contexts; the CRC is on at the receiver, and either on or off at the senders, and the
message of 2 bytes has a CRC of 0, so that every message may be checked or not, and mixed bytes may pass
a check.
In `grid_stream` messages are shortened to one data byte (`GC_MAX_MSG` 14 for 28), so that the
longest still fills the buffer to the last character; `MaxUnread` keeps at most two messages in
flight. In `gateway` a ring of one overflows at the second frame and a buffer of one fills with the
first; the first client can still be there, saved message and all, when the second comes.
In `switch` the clock wraps within one wait, and the hold time is longer than the debounce time.

**Fairness.** `process()` is called from the application's `loop()` for ever, and clocks tick: that
is the fairness of the reader in `RxPath`, of the loop and the clock in `SelfEnum`, of `Timeout`,
`Elapse` and `SendFragment` in `LongMessage`, of `Loop` in `Gateway`, of `Tick` and `Loop` in `Switch`. In
`Gateway`, `Poll` and `Ack` are fair, because lwIP polls a connection every half second and TCP
acknowledges, retransmits or gives up. Nothing else is: no frame, client, press or command has to
come. All of it is weak fairness.

The bus is not fair; `QuietDrain` speaks of what happens when it falls silent. Its premise includes
"`available()` does not deny it", because it may (see below). `BusHeard` has the premise that the
server's client is alive, or null with a null client reading as room. `Released` needs no
premise: frames are bounded, so the bus falls silent.

That the loop of `SelfEnum` comes round in time is `MaxLag`: with one tick a turn every enumeration
ends; with two, TLC finds a loop that always comes too early for the end of the window and too late
for anything but the start branch, which it takes for ever, because line 1644 leaves
`m_bEnumerationRequired` set. At that scale, a tick is 50 ms: turns of 50 ms are safe and turns of
100 ms are not. Foreign requests must stop, since each one moves the start time.

**Deadlock.** `rx_path` allows it: after `MaxFrames` frames the bus is silent, and a reader
that finds nothing is idle. A `SelfEnum` node that has faulted stops. `long_message`, `long_ex`,
`grid_stream` and `gateway` end when the bounds on messages, connections and frames are used up, and
`gateway` at a write through a stale pointer. The other runs check it.

### What modelling found

`PROJECT.json` lists the findings with their lines. Only `enum_heard` has a run that fails; the others
were met while a definition was written or a first form of a property was refuted, and the models
behave as the code does, so that the properties say under which condition the code is right.

- *Ring.* An interrupt between the loads of `size()` and the store in `get()` (150, 242) is undone:
  `available()` denies a frame until another arrives; it is not lost (`LossesCounted`). `size()` reads the
  head twice, and an interrupt in between can make the size as large as 255 (232). With the
  ring full or filling, frames come torn, repeated or newest first.
- *Self-enumeration.* Answers are recorded at `msg.id / 16`, `msg.id % 8` with the priority in
  `msg.id`, and read as `8 * i + b`. With the default priority none is recorded and the node takes the
  lowest ID whoever has it: `enum_heard`. `LowNotTaken` says for which frames the code is right:
  priority 0 and an ID below 8.
- *Learning and mode.* EVLRN does not check its variable number against `EE_NUM_EVS` and writes into
  the next event. `setSLiM()` leaves learn mode on. A pulse that was running when the mode was shown
  turns the LED off later. `renegotiate()` asks for a number the node will not take. A factory reset that
  is given up leaves both LEDs blinking (891).
- *Flash.* A factory reset erases the sector but not the copy, which brings the old events back.
- *Long messages.* Frames of other senders spend sequence numbers; the number expected does not
  wrap; the rest of a fragment that fills the buffer is dropped; a header does not look for a
  context already in use; `strdup()` cuts a message at a zero byte; a node with all contexts in use
  takes the one behind the array. Of a length only 16 bits are sent, so a message of 65539 bytes is
  COMPLETE after 3 (109); one of no bytes is never closed, and the next byte completes it (276). A CRC of 0,
  which a message may have, is taken for none (670).
- *Switch.* A button down when `resetModule()` is called counts as held since the module started;
  `stateChanged()` repeats itself while the pin bounces.
- *GridConnect.* The client's pointer is read before the lock is taken; `canSend()` reads a null or
  freed control block; a reset connection takes the listener with it; the saved message is
  overwritten, sent again, and inherited by the next client; two clients share one parser; own
  frames, answers to commands among them, are forwarded before they have an identifier and without
  `canSend()`, so that they overwrite a saved message or make TCP refuse one of the bus.

## 4. Proofs

Every theorem is of the form `Spec => []Inv`, `Spec => [][A]_vars`, or a refinement, for every value of
the constants that satisfies the `ASSUME` of its module. They rest on about 11 800 obligations.

**`CircularBuffer_proofs`.** `TypeOK` and `RingInv` are inductive together; the arithmetic they
need, that `Succ` stays in range and that a step of head or tail changes `RingSize` by one or turns
full into empty, is proved once as lemmas over `%`. `StoredWritten` is proved with them: a put
extends the written range at the end, a get shortens it at the front. `FramesConserved` adds the
counters, each of which wraps on its own: adding one before or after taking the remainder is the
same. `RingIsFifo` shows that each action appends to, or takes the head of, `Contents`, the sequence
read off the ring; a put into a full ring is the drop of the oldest and an append in one step. Of
`RxPath`, `StillSome` is what keeps `get()` from a null pointer: between `available()` and `get()`
only interrupts run, and a put never leaves a size of zero, not even in a full ring. For
`LossesCounted`, as long as nothing has `raced`: `Held` says that the slot the reader has claimed is
the one before the tail and still holds its frame; `Empty`, that while nothing waits whatever the
reader has loaded or computed towards a size comes to zero, which is why a size that is wrong, in
either direction, is never taken for a frame; `Lined`, that the frames waiting are the last that
arrived, those delivered come before them in order, and the rest is what `m_overflows` counts. A put
into a ring with room moves only the head, and one into a full ring, which must find the reader
idle, drops the oldest: both keep all three. The size itself is not bounded by what is stored, and
need not be.

**`EventTable_proofs`.** `IInv` is `TypeOK`, `HashCoherent`, `CollisionsExact` and
`EventsUnique`. They need one another: that no event is stored twice depends on the lookup finding
the slot it is in; the lookup's short cut is right only if the flag is exact and the hashes are
those of the slots. `FindExistingIs` is that step: with an exact flag, either the scan compares every
slot with the hash, or only one slot has it. `CountIsExact` is a bijection between slots in use and
events. `TableIsMap` is the refinement: the map is read off the table as a function of its rows
(`MapOf`), `RowChanged` says what becomes of it when one row changes, and each command changes one
row; that there is room in the map exactly when a slot is free (`RoomIs`) is again the count. The
assumption `InRange`, that tools teach only the event variables a slot has, cannot be dropped: the
write lands in the next slot, whose hash is not refreshed. The hash is any function into 1 .. 255.

**`FlimNode_proofs`.** `IInv` is the conjunction of the four invariants; `StateMatchesConfig` ties
`m_prevFlimState`, the target of two transitions, to the stored mode. `ChangingBlinks` needs the type of the
LEDs only, since each step that enters or leaves the three states also starts or ends the blinking.

**`SelfEnum_proofs`.** `FlagsAgree` is inductive by itself. `WindowHeld` needs
`AgeBoundsClock`: a difference of clock readings modulo the clock's width is never larger than the age
of the request, because wrapping only makes it smaller, and the reading the loop holds is no more recent
than that age. A tick adds at most one to the difference (`TickAddsOne`). Nothing is assumed of `MaxLag`,
so the window is held however late the loop comes, and for a clock of any width. `LowIsNotTaken`
rests on the index arithmetic (`LowPosition`: with priority 0 and an ID below the bits of an element,
the bit written is the bit read) and on `HeardMarked`, that the bit stays until the scan has looked.

**`FlashStore_proofs`.** `Stored` relates copy, sector and flags at each phase: a flush that erases
nothing has a copy below the sector, bit for bit, and pages already programmed equal the copy. For
the identity, `Whole` of both images is not enough: the batches still to come must keep it
(`Safe`), which is where the order of the defaults counts, the flag last.

**`LongMessage_proofs`.** For the lite module `IInv` says of a sender that it is at the first byte
of the fragment its number names; of a clean message (`Follows`) that it is the only one and that
the receiver holds what has been sent of it and expects its next number, or has handed it over; and
of any message received that was not `mistaken` (`Pieces`) that it is in step with its sender
(`InStep`) or, once a frame was lost, a fragment behind (`Behind`). A receiver that is behind stays
behind, since it counts what it takes as the sender counts what it sends, and so wants more when the
sender has none left: that is why COMPLETE is said of whole messages although nothing checks it. It
needs at most one loss: `WholeUntilSecondLoss` says so with no bound on the losses, and
`CompleteMessagesWhole` is the property of the run, for `MaxLost` of 0 or 1. With two losses in
messages of one stream it is false. The clean messages are those of fewer fragments than `SeqMod`
that fit the buffer, as in the property.

For the extended module `ExIInv` ties the contexts of both ends together. `Received` says what a
receive context in use knows of the message it names. That COMPLETE is exact does not rest on the
CRC, of which nothing is assumed: `Apart` says of a context that is not `stale` that its sender sends no other
message on the stream (`Own`) and that it holds the fragments before the one it expects (`Prefix`), so
whatever is lost, a number that fits brings the bytes that follow. A context is stale once its sender
has begun the next message on the stream, which only a lost last fragment or a message dropped on
the way allows; these are the ones for which the code fails. `Attended` is for a bus without losses or timeouts:
every receive context in use is paired with a send context of its sender and stream, at the same byte
and number, and no two serve the same stream of one sender. A header, a fragment and the next `process()` of the
sender change one pair and leave the others, which is most of the proof. With it `Accounted` says that a
message that fits is either not yet begun, in a context, or COMPLETE.

**`GridConnect_proofs`.** Of `Gateway`, `During`: while one client is connected, and until TCP refuses a
message, what the loop holds is all that separates what `serverSend()` was called with from what TCP took, and
unless the node has sent a frame of its own the room that `canSend()` saw is still there at the write, since
callbacks only take messages out of the buffer (`Flowing`). So a refusal means an own frame or a failure of
lwIP's pools, also when it comes at a frame of the bus.

Of `GridText`, `RoundTripExact`: `decodeGC()` accepts what `encodeGC()` made of any frame whose
identifier fits its format and whose data fits a message, and gives it back. `MessageIs` adds what
the stream needs: one start, one end and at most `GC_MAX_MSG` characters. The identifier is put
together again from its fields by division and remainder (`ExtIdBack`), the data from pairs of
digits.

Of `GridStream`, `StreamIInv`: while nothing has disturbed the stream, the text the parser keeps
together with the text TCP has yet to deliver is exactly that of the messages that have not ended, and
`Cuts` gives where each of them ends in it. A segment ends inside or behind some message. The ends before
it are those of the messages up to that one (`EndsFound`), so `Extract` gives their frames, and `Kept` is
the text behind the last of them, or behind the line feed that follows it: the invariant for the rest.
`AllQueued` is read off it. The three things in `disturbed` are the only ones that break it, and the text
may be cut anywhere.

**`Switch_proofs`.** `PressIsAsOld`: a press that began after `resetModule()` was called is no younger
than the clock says. `OnlyDebounced` has an invariant of its own: the start time is as recent as the
level read (`Aged`), but for one case, `Stale`: `reset()` has put a level in the place of the one read,
so the next reading compares with that, and the start time is older than the level until the debounce
time is over. It is over before `resetModule()` gives up if `InTime` holds, that the patience (30 s)
exceeds the debounce time (20 ms) and four turns of the loop.

**Only model-checked.** Liveness, which the prover does not reach: `QuietDrain`, `EnumerationEnds`,
`Released`, `BusHeard`, `ClosesBehind`, `PressSeen`. That `Extract` and `Kept` are what the parsing
loop computes is evaluated for the texts above, since a proof would be by induction over the text.
What `makeHash()` computes is an assumption, and so is nothing of `crc16()`: the properties hold
whatever values it has.

## 5. Not modelled

- `CBUSWiFi`: joining a network or opening an access point, blocking calls of the cyw43 driver one
  after the other; `ACAN2040` and `reset()`/`begin()` of `CBUSACAN2040`: objects of the can2040 library,
  which is not in the repository, made and freed.
- `SystemTick`, `CBUSParams`, `CBUSUtil`, `lwipopts.h`, `GridConnectDummy`: a clock, an array, macros,
  options, an empty class. The tests and mocks were read for what they state.
- The I2C variant of the storage, which writes each byte through the Wire library as it comes.
- What commands that only answer say: QNN, RQNP, RQNPN, NERD, NENRD, REVAL, NVRD. That they answer, and
  where the answer goes, is `OwnFrame` in `Gateway`; elsewhere frames a node sends are state only where
  something depends on them.
- `crc16()` itself. `LongMessageEx` lets a CRC have any value and other bytes the same one.
- In the CAN layer, the transmit side of can2040; in `CBUSSwitch` the durations of earlier states; in
  `CBUSLED` `toggle()` and the pin.
- The heap: allocations succeed, but for those of lwIP in `GridStream` and `Gateway`. After undefined
  behaviour that reaches beyond the object (a write through a freed control block, a context beyond
  the array, a fault) the models stop or the node does.
