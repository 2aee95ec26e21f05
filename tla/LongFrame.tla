----------------------------- MODULE LongFrame -----------------------------
(* The frames of a long message (src/CBUSLongMessage.cpp): what a sender      *)
(* cuts from its buffer, shared by the lite and the extended implementation.  *)
(* A byte is <<message, position>>; a message is whatever identifies it.      *)
EXTENDS Integers, Sequences

CONSTANTS Frag,        \* payload bytes of a data frame: 5
          Streams,     \* the stream IDs in use
          Subscribed,  \* those the receiver subscribes to
          BufLen,      \* _receive_buffer_len
          MaxMessages, \* bound: messages of a sender (lite), or in all (extended)
          MaxLost      \* bound: frames lost

ASSUME FrameAssumption == /\ Frag \in Nat \ {0} /\ BufLen \in Nat \ {0}
                          /\ Subscribed \subseteq Streams
                          /\ MaxMessages \in Nat /\ MaxLost \in Nat

Zero == <<0, 0>>      \* a byte the sender did not fill: a frame starts as zeros
Garbage == <<-1, -1>> \* a byte read from memory that is not the message's

\* The bytes of a message in order.
Content(message, len) == [i \in 1..len |-> <<message, i>>]

\* The payload of the data frame that starts after `index` bytes, and where
\* the next one starts. Only the last one is short, and it is padded.
Payload(data, index) == [j \in 1..Frag |-> IF index + j <= Len(data) THEN data[index + j] ELSE Zero]
After(data, index) == IF index + Frag < Len(data) THEN index + Frag ELSE Len(data)
=============================================================================
