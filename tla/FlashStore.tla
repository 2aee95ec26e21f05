----------------------------- MODULE FlashStore ----------------------------
(* Storage in flash (src/CBUSConfig.cpp): a sector that can only be erased    *)
(* whole and programmed from ones to zeros, the copy of it in RAM that every  *)
(* read and write goes to, and the two flags that decide what a flush does.   *)
(* A command is a list of batches: the bytes written to the copy before each  *)
(* flush. Interrupts are off meanwhile, but power may go at any point.        *)
(* A byte is the set of its bits that are one. A cell is a byte, or bytes     *)
(* always written together: mode, CAN ID, node number, reset flag, one byte   *)
(* no one owns, the node variables, and one cell for each event.              *)
EXTENDS Integers, Sequences

CONSTANTS Bits,       \* the bits of a byte
          NvStart,    \* EE_NVS_START, one based after it
          NumNvs,     \* EE_NUM_NVS
          NumEvents,  \* EE_MAX_EVENTS
          PageSize,   \* cells of a flash page: 256 bytes
          NodeNums,   \* node numbers a tool assigns
          CanIds,     \* CAN IDs it assigns
          Values,     \* values of variables and events
          ResetMark   \* RESET_FLAG

Erased == Bits   \* 0xFF
Zero == {}
FLIM == 0
CANID == 1
NN == 2
RESET == 3
DefaultId == CHOOSE b \in SUBSET Bits : b # Zero /\ b # Erased   \* DEFAULT_CANID
EvStart == NvStart + NumNvs
Cells == 0..(EvStart + NumEvents - 1)
Events == EvStart..(EvStart + NumEvents - 1)
Page(a) == a \div PageSize
LastPage == Page(EvStart + NumEvents - 1)

ASSUME FlashAssumption ==
  /\ NvStart \in Nat /\ NvStart > RESET + 1 /\ NumNvs \in Nat /\ NumEvents \in Nat
  /\ PageSize \in Nat /\ PageSize > RESET
  /\ NodeNums \subseteq (SUBSET Bits) \ {Erased} /\ CanIds \subseteq (SUBSET Bits) \ {Erased}
  /\ Values \subseteq SUBSET Bits /\ ResetMark \in (SUBSET Bits) \ {Erased}
  /\ \E b \in SUBSET Bits : b # Zero /\ b # Erased

VARIABLES
  flash,      \* the sector
  cache,      \* m_flashBuf
  modified,   \* m_bFlashModified
  zeroToOne,  \* m_bFlashZeroToOne
  todo,       \* the batches of the command being executed
  phase,      \* what the processor is doing: "idle", "flush", "program", "waiting"
  page,       \* the next page to program
  rebooting   \* the command ends with reboot()

vars == <<flash, cache, modified, zeroToOne, todo, phase, page, rebooting>>
ram == <<cache, modified, zeroToOne>>
control == <<todo, phase, page, rebooting>>

-----------------------------------------------------------------------------
(* A batch is written to the copy, then flushed.                              *)

\* mutant: the address is not tested.
WrittenAnywhere(batch) == [a \in Cells \cup DOMAIN batch |-> IF a \in DOMAIN batch THEN batch[a] ELSE cache[a]]
\* setChipEEPROMVal() for each byte: an address beyond the buffer is ignored.
Written(batch) == [a \in Cells |-> IF a \in DOMAIN batch THEN batch[a] ELSE cache[a]]

\* mutant: the two values are swapped.
SetsBitsSwapped(new) == \E a \in Cells : ~(cache[a] \subseteq new[a])
\* A byte needs an erase when one of its bits goes from zero to one.
SetsBits(new) == \E a \in Cells : ~(new[a] \subseteq cache[a])

Write == /\ phase = "idle" /\ todo # <<>>
         /\ cache' = Written(Head(todo))
         /\ modified' = (modified \/ Written(Head(todo)) # cache)
         /\ zeroToOne' = (zeroToOne \/ SetsBits(Written(Head(todo))))
         /\ phase' = "flush"
         /\ UNCHANGED <<flash, todo, page, rebooting>>

Flushed == /\ modified' = FALSE /\ zeroToOne' = FALSE
           /\ todo' = Tail(todo)
           /\ phase' = "idle" /\ page' = 0

\* flushToFlash(): nothing to do.
Unmodified == /\ phase = "flush" /\ ~modified
              /\ Flushed
              /\ UNCHANGED <<flash, cache, rebooting>>

\* flushToFlash(), flash_range_erase().
Erase == /\ phase = "flush" /\ modified /\ zeroToOne
         /\ flash' = [a \in Cells |-> Erased]
         /\ phase' = "program"
         /\ UNCHANGED <<ram, todo, page, rebooting>>

NoErase == /\ phase = "flush" /\ modified /\ ~zeroToOne
           /\ phase' = "program"
           /\ UNCHANGED <<flash, ram, todo, page, rebooting>>

\* flash_range_program(), a page at a time: programming clears bits.
Program == /\ phase = "program"
           /\ flash' = [a \in Cells |-> IF Page(a) = page THEN flash[a] \cap cache[a] ELSE flash[a]]
           /\ UNCHANGED <<cache, rebooting>>
           /\ \/ /\ page = LastPage
                 /\ Flushed
              \/ /\ page # LastPage
                 /\ page' = page + 1
                 /\ UNCHANGED <<modified, zeroToOne, todo, phase>>

-----------------------------------------------------------------------------
(* Commands. None starts before the last has ended.                           *)

Ready == phase = "idle" /\ todo = <<>> /\ ~rebooting
One(a, v) == [x \in {a} |-> v]
Perform(batches) == /\ Ready
                    /\ todo' = batches
                    /\ UNCHANGED <<flash, ram, phase, page, rebooting>>

SetFLiM(flim) == Perform(<<One(FLIM, flim)>>)
SetCANID(canid) == canid # Zero /\ Perform(<<One(CANID, canid)>>)
SetNodeNum(nn) == Perform(<<One(NN, nn)>>)

\* doSnn(): two flushes.
Flim == DefaultId   \* true is stored as 1
Snn(nn) == Perform(<<One(NN, nn), One(FLIM, Flim)>>)

\* doNvset(): the bounds test of line 1160 lets every index through, so that
\* zero and large ones write the bytes around the table.
Nvset(index, v) == Perform(<<One(NvStart + index - 1, v)>>)

\* writeEvent() of an event or of evInfoUnused, and clearEventsEEPROM().
WriteEvent(e, v) == Perform(<<One(e, v)>>)
ClearEvents == Perform(<<[e \in Events |-> Erased]>>)

\* mutant: the flag first.
BootFlagFirst(image) == IF image[RESET] = Erased
               THEN <<One(RESET, Zero), One(FLIM, Zero), One(CANID, DefaultId), One(NN, Zero)>>
               ELSE <<>>
\* loadNVs(): on an erased sector the defaults are stored, the flag last.
Boot(image) == IF image[RESET] = Erased
               THEN <<One(FLIM, Zero), One(CANID, DefaultId), One(NN, Zero), One(RESET, Zero)>>
               ELSE <<>>

\* begin(): the copy is read from flash.
Begin == /\ cache' = flash
         /\ modified' = FALSE /\ zeroToOne' = FALSE
         /\ todo' = Boot(flash)
         /\ phase' = "idle" /\ page' = 0 /\ rebooting' = FALSE
         /\ UNCHANGED flash

\* Power is lost, at any point, and comes back.
PowerLoss == Begin

\* resetModule() with the button: it waits for a second long press, and gives
\* up after half a minute.
AskReset == /\ Ready
            /\ phase' = "waiting"
            /\ UNCHANGED <<flash, ram, todo, page, rebooting>>
GiveUp == /\ phase = "waiting"
          /\ phase' = "idle"
          /\ UNCHANGED <<flash, ram, todo, page, rebooting>>

\* resetModule(): the sector is erased, the copy is not; the identity, the mark
\* and, in a flush each, the variables are written, and the module reboots.
Defaults == [a \in {FLIM, CANID, NN, RESET} |-> IF a = RESET THEN ResetMark ELSE Zero]
ResetModule == /\ Ready \/ phase = "waiting"
               /\ flash' = [a \in Cells |-> Erased]
               /\ todo' = <<Defaults>> \o [i \in 1..NumNvs |-> One(NvStart + i - 1, Zero)]
               /\ phase' = "idle" /\ rebooting' = TRUE
               /\ UNCHANGED <<ram, page>>
Reboot == /\ rebooting /\ phase = "idle" /\ todo = <<>>
          /\ Begin

Init == /\ flash = [a \in Cells |-> Erased]
        /\ cache = flash
        /\ modified = FALSE /\ zeroToOne = FALSE
        /\ todo = Boot(flash)
        /\ phase = "idle" /\ page = 0 /\ rebooting = FALSE

Indexes == 0..(NumNvs + NumEvents + 1)   \* one byte before the table to one beyond the image

Command == \/ \E flim \in {Zero, Flim} : SetFLiM(flim)
           \/ \E canid \in CanIds : SetCANID(canid)
           \/ \E nn \in NodeNums : SetNodeNum(nn) \/ Snn(nn)
           \/ \E i \in Indexes, v \in Values : Nvset(i, v)
           \/ \E e \in Events, v \in Values \cup {Erased} : WriteEvent(e, v)
           \/ ClearEvents
Flush == Write \/ Unmodified \/ Erase \/ NoErase \/ Program
Restart == PowerLoss \/ AskReset \/ GiveUp \/ ResetModule \/ Reboot

Next == Command \/ Flush \/ Restart
Spec == Init /\ [][Next]_vars

-----------------------------------------------------------------------------
Image == [Cells -> SUBSET Bits]

\* The sector, the copy and the flush stay in range.
TypeOK == /\ flash \in Image /\ cache \in Image
          /\ modified \in BOOLEAN /\ zeroToOne \in BOOLEAN /\ rebooting \in BOOLEAN
          /\ phase \in {"idle", "flush", "program", "waiting"}
          /\ page \in 0..LastPage

\* What the program reads is what is stored: between commands the copy and the
\* sector are equal, although the sector is only erased when the flags, which
\* look at the copy and are cleared by every flush, say so.
ReadBack == Ready => cache = flash

\* A node never starts with half an identity: whenever power is lost, a sector
\* whose reset flag is programmed has a whole mode, CAN ID and node number, and
\* the others start with the defaults.
IdentityWhole == flash[RESET] # Erased => \A a \in {FLIM, CANID, NN} : flash[a] # Erased

=============================================================================
