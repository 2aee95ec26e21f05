------------------------- MODULE FlashStore_proofs -------------------------
(* For bytes of any width, pages and tables of any size, and power lost before *)
(* or after any erase or page: what the program reads is what is stored, and a *)
(* node never starts with half an identity.                                    *)
EXTENDS FlashStore, TLAPS

Byte == SUBSET Bits
Batch == UNION {[D -> Byte] : D \in SUBSET Int}
Identity == {FLIM, CANID, NN}

\* Programming the copy would give the copy: no bit has to go to one.
Below == \A a \in Cells : cache[a] \subseteq flash[a]

\* The copy and the sector. A flush that erases nothing has a copy that lies
\* below the sector; but for a factory reset they agree between flushes.
Stored ==
  /\ zeroToOne => modified
  /\ phase \in {"idle", "waiting"} => ~modified /\ page = 0 /\ Below
  /\ phase = "flush" => page = 0 /\ (~zeroToOne => Below)
  /\ phase = "program" => Below /\ \A a \in Cells : Page(a) < page => flash[a] = cache[a]
  /\ ~rebooting => /\ phase \in {"idle", "waiting"} => flash = cache
                   /\ phase = "flush" /\ ~modified => flash = cache

\* The identity: whole in the sector and in the copy if they hold the flag, and
\* the batches to come keep it so, because the flag comes last.
Whole(image) == image[RESET] # Erased => \A c \in Identity : image[c] # Erased
Kept(t) == \A i \in DOMAIN t : \A c \in Identity : c \in DOMAIN t[i] => t[i][c] # Erased
FlagLast(t, image) ==
  \A i \in DOMAIN t : RESET \in DOMAIN t[i] =>
    \A c \in Identity : image[c] # Erased \/ \E j \in 1..i : c \in DOMAIN t[j]
Safe(t, image) == t \in Seq(Batch) /\ Kept(t) /\ FlagLast(t, image)
WrittenHead == phase \in {"flush", "program"} =>
  /\ todo # <<>>
  /\ \A c \in Identity : c \in DOMAIN todo[1] => cache[c] # Erased

IInv == /\ TypeOK
        /\ Stored
        /\ Whole(flash) /\ Whole(cache)
        /\ Safe(todo, cache) /\ WrittenHead

-----------------------------------------------------------------------------
LEMMA Constants ==
  /\ NvStart \in Nat /\ NumNvs \in Nat /\ NumEvents \in Nat /\ EvStart \in Nat
  /\ NvStart > 4 /\ EvStart > 4
  /\ PageSize \in Nat /\ PageSize > 3
  /\ Cells \subseteq Nat /\ {0, 1, 2, 3} \subseteq Cells
  /\ Cells = 0..(EvStart + NumEvents - 1)
BY FlashAssumption DEF Cells, EvStart, RESET

LEMMA Bytes ==
  /\ Erased \in Byte /\ Zero \in Byte /\ DefaultId \in Byte /\ Flim \in Byte
  /\ Zero # Erased /\ DefaultId # Erased /\ Flim # Erased
<1>1. \E b \in SUBSET Bits : b # Zero /\ b # Erased
  BY FlashAssumption
<1>2. DefaultId \in SUBSET Bits /\ DefaultId # Zero /\ DefaultId # Erased
  BY <1>1 DEF DefaultId
<1>3. Zero # Erased
  BY <1>1 DEF Zero, Erased
<1> QED
  BY <1>2, <1>3 DEF Byte, Erased, Zero, Flim

\* The identity is on the first page, and the last page is the last.
LEMMA Pages ==
  /\ \A a \in Cells : Page(a) \in Nat /\ Page(a) <= LastPage
  /\ LastPage \in Nat
  /\ \A a \in {FLIM, CANID, NN, RESET} : a \in Cells /\ Page(a) = 0
<1>1. \A a \in Nat, p \in Nat \ {0} : a \div p \in Nat
  BY SMT
<1>2. \A a, b \in Nat, p \in Nat \ {0} : a <= b => a \div p <= b \div p
  <2> SUFFICES ASSUME NEW a \in Nat, NEW b \in Nat, NEW p \in Nat \ {0}, a <= b
               PROVE  a \div p <= b \div p
    OBVIOUS
  <2> QED
    BY SMT
<1>3. \A a, p \in Nat : a < p => a \div p = 0
  <2> SUFFICES ASSUME NEW a \in Nat, NEW p \in Nat, a < p PROVE a \div p = 0
    OBVIOUS
  <2> QED
    BY SMT
<1>4. EvStart + NumEvents - 1 \in Nat /\ \A a \in Cells : a <= EvStart + NumEvents - 1
  BY Constants
<1>5. PageSize \in Nat \ {0}
  BY Constants
<1>6. \A a \in {FLIM, CANID, NN, RESET} : a \in Cells /\ a \in Nat /\ a < PageSize
  BY Constants DEF FLIM, CANID, NN, RESET
<1> QED
  BY <1>1, <1>2, <1>3, <1>4, <1>5, <1>6, Constants DEF Page, LastPage

LEMMA FirstPage == 0 \in 0..LastPage
BY Pages

-----------------------------------------------------------------------------
(* Batches.                                                                    *)

LEMMA OneIs ==
  ASSUME NEW a \in Nat, NEW v \in Byte
  PROVE  One(a, v) \in Batch /\ DOMAIN One(a, v) = {a} /\ One(a, v)[a] = v
<1>1. One(a, v) \in [{a} -> Byte]
  BY DEF One
<1>2. {a} \in SUBSET Int
  OBVIOUS
<1> QED
  BY <1>1, <1>2 DEF Batch, One

\* A single write of anything but the flag.
LEMMA OneSafe ==
  ASSUME NEW a \in Nat, a # RESET, NEW v \in Byte, a \in Identity => v # Erased, NEW image
  PROVE  Safe(<<One(a, v)>>, image)
<1>1. <<One(a, v)>> \in Seq(Batch)
  <2>1. One(a, v) \in Batch
    BY OneIs
  <2> QED
    BY <2>1
<1>2. \A i \in DOMAIN <<One(a, v)>> : i = 1
  OBVIOUS
<1>3. <<One(a, v)>>[1] = One(a, v)
  OBVIOUS
<1>4. DOMAIN One(a, v) = {a} /\ One(a, v)[a] = v
  BY OneIs
<1>5. Kept(<<One(a, v)>>)
  BY <1>2, <1>3, <1>4 DEF Kept
<1>6. FlagLast(<<One(a, v)>>, image)
  BY <1>2, <1>3, <1>4 DEF FlagLast
<1> QED
  BY <1>1, <1>5, <1>6 DEF Safe

\* What a command has left after its first batch was written.
LEMMA TailSafe ==
  ASSUME NEW t, NEW image, Safe(t, image), t # <<>>,
         \A c \in Identity : c \in DOMAIN t[1] => image[c] # Erased
  PROVE  Safe(Tail(t), image)
<1>1. t \in Seq(Batch)
  BY DEF Safe
<1>2. /\ Tail(t) \in Seq(Batch)
      /\ \A i \in DOMAIN Tail(t) : i \in Nat /\ i >= 1 /\ i + 1 \in DOMAIN t /\ Tail(t)[i] = t[i + 1]
  BY <1>1
<1>3. Kept(Tail(t))
  BY <1>2 DEF Kept, Safe
<1>4. FlagLast(Tail(t), image)
  <2> SUFFICES ASSUME NEW i \in DOMAIN Tail(t), RESET \in DOMAIN Tail(t)[i],
                      NEW c \in Identity, image[c] = Erased
               PROVE  \E j \in 1..i : c \in DOMAIN Tail(t)[j]
    BY DEF FlagLast
  <2>1. \E j \in 1..(i + 1) : c \in DOMAIN t[j]
    BY <1>2 DEF FlagLast, Safe
  <2>2. PICK j \in 1..(i + 1) : c \in DOMAIN t[j]
    BY <2>1
  <2>3. j # 1
    BY <2>2
  <2>4. j - 1 \in 1..i
    BY <2>2, <2>3, <1>2
  <2>5. j - 1 \in DOMAIN Tail(t) /\ Tail(t)[j - 1] = t[j]
    <3>1. i <= Len(Tail(t))
      BY <1>2
    <3>2. j - 1 \in DOMAIN Tail(t)
      BY <3>1, <2>4, <1>2
    <3> QED
      BY <3>2, <1>2, <2>2
  <2> QED
    BY <2>2, <2>4, <2>5
<1> QED
  BY <1>2, <1>3, <1>4 DEF Safe

\* Storing the defaults, the flag last.
LEMMA BootSafe ==
  ASSUME NEW image \in Image
  PROVE  Safe(Boot(image), image)
<1>1. CASE image[RESET] # Erased
  <2>1. Boot(image) = <<>>
    BY <1>1 DEF Boot
  <2> QED
    BY <2>1 DEF Safe, Kept, FlagLast
<1>2. CASE image[RESET] = Erased
  <2> DEFINE t == <<One(FLIM, Zero), One(CANID, DefaultId), One(NN, Zero), One(RESET, Zero)>>
  <2>1. Boot(image) = t
    BY <1>2 DEF Boot
  <2>2. \A a \in {FLIM, CANID, NN, RESET}, v \in {Zero, DefaultId} :
          One(a, v) \in Batch /\ DOMAIN One(a, v) = {a} /\ One(a, v)[a] = v
    BY OneIs, Bytes DEF FLIM, CANID, NN, RESET
  <2>3. t \in Seq(Batch)
    BY <2>2
  <2>4. DOMAIN t = {1, 2, 3, 4}
    OBVIOUS
  <2>5. /\ DOMAIN t[1] = {FLIM} /\ t[1][FLIM] = Zero
        /\ DOMAIN t[2] = {CANID} /\ t[2][CANID] = DefaultId
        /\ DOMAIN t[3] = {NN} /\ t[3][NN] = Zero
        /\ DOMAIN t[4] = {RESET}
    BY <2>2
  <2> HIDE DEF t
  <2>6. Kept(t)
    BY <2>4, <2>5, Bytes DEF Kept, Identity, FLIM, CANID, NN, RESET
  <2>7. FlagLast(t, image)
    <3>1. \A i \in DOMAIN t : RESET \in DOMAIN t[i] => i = 4
      BY <2>4, <2>5 DEF FLIM, CANID, NN, RESET
    <3>2. 1 \in 1..4 /\ 2 \in 1..4 /\ 3 \in 1..4
      OBVIOUS
    <3>3. \A c \in Identity : \E j \in 1..4 : c \in DOMAIN t[j]
      BY <2>5, <3>2 DEF Identity
    <3> QED
      BY <3>1, <3>3 DEF FlagLast
  <2> QED
    BY <2>1, <2>3, <2>6, <2>7 DEF Safe
<1> QED
  BY <1>1, <1>2

\* What a factory reset writes: the flag and the identity in one batch.
LEMMA DefaultsSafe ==
  ASSUME NEW image
  PROVE  Safe(<<Defaults>> \o [i \in 1..NumNvs |-> One(NvStart + i - 1, Zero)], image)
<1> DEFINE nvs == [i \in 1..NumNvs |-> One(NvStart + i - 1, Zero)]
           t == <<Defaults>> \o nvs
<1>1. Defaults \in Batch /\ DOMAIN Defaults = {FLIM, CANID, NN, RESET}
      /\ \A c \in Identity : Defaults[c] = Zero
  <2>1. {FLIM, CANID, NN, RESET} \in SUBSET Int
    BY DEF FLIM, CANID, NN, RESET
  <2>2. ResetMark \in Byte
    BY FlashAssumption DEF Byte
  <2>3. Defaults \in [{FLIM, CANID, NN, RESET} -> Byte]
    BY <2>2, Bytes DEF Defaults
  <2>4. \A c \in Identity : c \in {FLIM, CANID, NN, RESET} /\ c # RESET
    BY DEF Identity, FLIM, CANID, NN, RESET
  <2> QED
    BY <2>1, <2>3, <2>4 DEF Batch, Defaults
<1>2. \A i \in 1..NumNvs :
        /\ One(NvStart + i - 1, Zero) \in Batch
        /\ DOMAIN One(NvStart + i - 1, Zero) = {NvStart + i - 1}
        /\ NvStart + i - 1 > 3
  <2> SUFFICES ASSUME NEW i \in 1..NumNvs
               PROVE  /\ One(NvStart + i - 1, Zero) \in Batch
                      /\ DOMAIN One(NvStart + i - 1, Zero) = {NvStart + i - 1}
                      /\ NvStart + i - 1 > 3
    OBVIOUS
  <2>1. NvStart + i - 1 \in Nat /\ NvStart + i - 1 > 3
    BY Constants
  <2> QED
    BY <2>1, OneIs, Bytes
<1>3. nvs \in Seq(Batch) /\ Len(nvs) = NumNvs
  <2>1. nvs \in [1..NumNvs -> Batch]
    BY <1>2
  <2> HIDE DEF nvs
  <2> QED
    BY <2>1, Constants
<1>4. t \in Seq(Batch)
  <2>1. <<Defaults>> \in Seq(Batch)
    BY <1>1
  <2> QED
    BY <1>3, <2>1
<1>5. /\ 1 \in DOMAIN t /\ t[1] = Defaults
      /\ \A i \in DOMAIN t : i # 1 => i - 1 \in 1..NumNvs /\ t[i] = nvs[i - 1]
  <2>1. <<Defaults>> \in Seq(Batch) /\ Len(<<Defaults>>) = 1 /\ <<Defaults>>[1] = Defaults
    BY <1>1
  <2> HIDE DEF nvs
  <2> QED
    BY <1>3, <2>1, Constants
<1>6. \A i \in DOMAIN t : i # 1 => \E a \in Nat : a > 3 /\ DOMAIN t[i] = {a}
  <2> SUFFICES ASSUME NEW i \in DOMAIN t, i # 1
               PROVE  \E a \in Nat : a > 3 /\ DOMAIN t[i] = {a}
    OBVIOUS
  <2>1. i - 1 \in 1..NumNvs /\ t[i] = nvs[i - 1]
    BY <1>5
  <2>2. PICK k \in 1..NumNvs : k = i - 1
    BY <2>1
  <2>3. t[i] = One(NvStart + k - 1, Zero)
    BY <2>1, <2>2
  <2>4. DOMAIN t[i] = {NvStart + k - 1} /\ NvStart + k - 1 > 3
    BY <2>3, <1>2
  <2>5. NvStart + k - 1 \in Nat
    BY Constants, <2>2
  <2> QED
    BY <2>4, <2>5
<1> HIDE DEF t, nvs
<1>7. Kept(t)
  <2> SUFFICES ASSUME NEW i \in DOMAIN t, NEW c \in Identity, c \in DOMAIN t[i]
               PROVE  t[i][c] # Erased
    BY DEF Kept
  <2>1. c <= 3 /\ c \in Nat
    BY DEF Identity, FLIM, CANID, NN
  <2>2. i = 1
    <3> SUFFICES ASSUME i # 1 PROVE FALSE
      OBVIOUS
    <3>1. PICK a \in Nat : a > 3 /\ DOMAIN t[i] = {a}
      BY <1>6
    <3> QED
      BY <3>1, <2>1
  <2> QED
    BY <2>2, <1>5, <1>1, Bytes
<1>8. FlagLast(t, image)
  <2> SUFFICES ASSUME NEW i \in DOMAIN t, RESET \in DOMAIN t[i], NEW c \in Identity
               PROVE  \E j \in 1..i : c \in DOMAIN t[j]
    BY DEF FlagLast
  <2>1. i = 1
    <3> SUFFICES ASSUME i # 1 PROVE FALSE
      OBVIOUS
    <3>1. PICK a \in Nat : a > 3 /\ DOMAIN t[i] = {a}
      BY <1>6
    <3> QED
      BY <3>1 DEF RESET
  <2>2. c \in DOMAIN t[1] /\ 1 \in 1..i
    BY <2>1, <1>5, <1>1 DEF Identity
  <2> QED
    BY <2>2
<1> QED
  BY <1>4, <1>7, <1>8 DEF Safe, t, nvs

-----------------------------------------------------------------------------
(* The steps.                                                                  *)

LEMMA WrittenType ==
  ASSUME cache \in Image, NEW b \in Batch
  PROVE  Written(b) \in Image
<1>1. PICK D \in SUBSET Int : b \in [D -> Byte]
  BY DEF Batch
<1>2. \A a \in Cells : a \in DOMAIN b => b[a] \in SUBSET Bits
  BY <1>1 DEF Byte
<1>3. \A a \in Cells : (IF a \in DOMAIN b THEN b[a] ELSE cache[a]) \in SUBSET Bits
  BY <1>2 DEF Image
<1> QED
  BY <1>3 DEF Written, Image

LEMMA PerformInv ==
  ASSUME IInv, NEW t, Safe(t, cache), Perform(t)
  PROVE  IInv'
<1>1. /\ UNCHANGED <<flash, cache, modified, zeroToOne, phase, page, rebooting>>
      /\ todo' = t /\ phase = "idle"
  BY DEF Perform, Ready, ram
<1>2. TypeOK'
  BY <1>1 DEF IInv, TypeOK
<1>3. Stored'
  BY <1>1 DEF IInv, Stored, Below
<1>4. Whole(flash)' /\ Whole(cache)'
  BY <1>1 DEF IInv, Whole
<1>5. Safe(todo, cache)'
  BY <1>1
<1>6. WrittenHead'
  BY <1>1 DEF WrittenHead
<1> QED
  BY <1>2, <1>3, <1>4, <1>5, <1>6 DEF IInv

LEMMA WriteInv ==
  ASSUME IInv, Write
  PROVE  IInv'
<1> DEFINE new == Written(Head(todo))
<1>1. /\ phase = "idle" /\ phase' = "flush" /\ todo # <<>> /\ cache' = new
      /\ modified' = (modified \/ new # cache)
      /\ zeroToOne' = (zeroToOne \/ SetsBits(new))
      /\ UNCHANGED <<flash, todo, page, rebooting>>
  BY DEF Write
<1>2. Safe(todo, cache) /\ todo \in Seq(Batch)
  BY DEF IInv, Safe
<1>3. Head(todo) = todo[1] /\ todo[1] \in Batch /\ 1 \in DOMAIN todo
  BY <1>1, <1>2
<1>4. new \in Image
  BY <1>3, WrittenType DEF IInv, TypeOK
<1>5. \A a \in Cells : new[a] = IF a \in DOMAIN todo[1] THEN todo[1][a] ELSE cache[a]
  BY <1>3 DEF Written
<1> HIDE DEF new
<1>6. TypeOK'
  BY <1>1, <1>4 DEF IInv, TypeOK
<1>7. Stored'
  <2>1. ~modified /\ ~zeroToOne /\ page = 0 /\ Below /\ (~rebooting => flash = cache)
    BY <1>1 DEF IInv, Stored
  <2>2. SetsBits(new) => new # cache
    BY DEF SetsBits
  <2>3. ~SetsBits(new) => \A a \in Cells : new[a] \subseteq flash[a]
    BY <2>1 DEF SetsBits, Below
  <2> QED
    BY <1>1, <2>1, <2>2, <2>3 DEF Stored, Below
<1>8. \A c \in Identity : c \in Cells /\ (c \in DOMAIN todo[1] => todo[1][c] # Erased)
  BY <1>2, <1>3, Pages DEF Safe, Kept, Identity
<1>9. \A c \in Identity : cache[c] # Erased \/ c \in DOMAIN todo[1] => new[c] # Erased
  BY <1>5, <1>8
<1>10. Whole(flash)' /\ Whole(cache)'
  <2>1. Whole(flash)'
    BY <1>1 DEF IInv, Whole
  <2>2. ASSUME new[RESET] # Erased PROVE \A c \in Identity : new[c] # Erased
    <3>1. CASE RESET \in DOMAIN todo[1]
      <4>1. \A c \in Identity : cache[c] # Erased \/ \E j \in 1..1 : c \in DOMAIN todo[j]
        BY <1>2, <1>3, <3>1 DEF Safe, FlagLast
      <4> QED
        BY <4>1, <1>9
    <3>2. CASE RESET \notin DOMAIN todo[1]
      <4>1. cache[RESET] # Erased
        BY <3>2, <2>2, <1>5, Pages
      <4> QED
        BY <4>1, <1>9 DEF IInv, Whole
    <3> QED
      BY <3>1, <3>2
  <2> QED
    BY <1>1, <2>1, <2>2 DEF Whole
<1>11. Safe(todo, cache)'
  BY <1>1, <1>2, <1>9 DEF Safe, FlagLast, Kept
<1>12. WrittenHead'
  BY <1>1, <1>9 DEF WrittenHead
<1> QED
  BY <1>6, <1>7, <1>10, <1>11, <1>12 DEF IInv

LEMMA UnmodifiedInv ==
  ASSUME IInv, Unmodified
  PROVE  IInv'
<1>1. /\ phase = "flush" /\ ~modified /\ ~modified' /\ ~zeroToOne'
      /\ todo' = Tail(todo) /\ phase' = "idle" /\ page' = 0
      /\ UNCHANGED <<flash, cache, rebooting>>
  BY DEF Unmodified, Flushed, IInv, TypeOK
<1>2. TypeOK'
  BY <1>1, FirstPage DEF IInv, TypeOK, Unmodified, Flushed
<1>3. Stored'
  BY <1>1 DEF IInv, Stored, Below
<1>4. Whole(flash)' /\ Whole(cache)'
  BY <1>1 DEF IInv, Whole
<1>5. Safe(todo, cache)'
  <2>1. Safe(Tail(todo), cache)
    BY <1>1, TailSafe DEF IInv, WrittenHead
  <2> QED
    BY <1>1, <2>1
<1>6. WrittenHead'
  BY <1>1 DEF WrittenHead
<1> QED
  BY <1>2, <1>3, <1>4, <1>5, <1>6 DEF IInv

LEMMA EraseInv ==
  ASSUME IInv, Erase
  PROVE  IInv'
<1>1. /\ phase = "flush" /\ phase' = "program" /\ flash' = [a \in Cells |-> Erased]
      /\ UNCHANGED <<cache, modified, zeroToOne, todo, page, rebooting>>
  BY DEF Erase, ram
<1>2. TypeOK'
  BY <1>1, Bytes DEF IInv, TypeOK, Image, Byte
<1>3. Stored'
  <2>1. page = 0 /\ (zeroToOne => modified)
    BY <1>1 DEF IInv, Stored
  <2>2. \A a \in Cells : cache[a] \subseteq Erased
    BY DEF IInv, TypeOK, Image, Erased
  <2>3. \A a \in Cells : ~(Page(a) < 0)
    BY Pages
  <2> QED
    BY <1>1, <2>1, <2>2, <2>3 DEF Stored, Below
<1>4. Whole(flash)' /\ Whole(cache)'
  BY <1>1, Pages DEF IInv, Whole
<1>5. Safe(todo, cache)' /\ WrittenHead'
  BY <1>1 DEF IInv, WrittenHead
<1> QED
  BY <1>2, <1>3, <1>4, <1>5 DEF IInv

LEMMA NoEraseInv ==
  ASSUME IInv, NoErase
  PROVE  IInv'
<1>1. /\ phase = "flush" /\ ~zeroToOne /\ phase' = "program"
      /\ UNCHANGED <<flash, cache, modified, zeroToOne, todo, page, rebooting>>
  BY DEF NoErase, ram
<1>2. TypeOK'
  BY <1>1 DEF IInv, TypeOK
<1>3. Stored'
  <2>1. \A a \in Cells : ~(Page(a) < 0)
    BY Pages
  <2> QED
    BY <1>1, <2>1 DEF IInv, Stored, Below
<1>4. Whole(flash)' /\ Whole(cache)'
  BY <1>1 DEF IInv, Whole
<1>5. Safe(todo, cache)' /\ WrittenHead'
  BY <1>1 DEF IInv, WrittenHead
<1> QED
  BY <1>2, <1>3, <1>4, <1>5 DEF IInv

\* A page programmed holds what the copy holds: every page when the last is.
LEMMA ProgramInv ==
  ASSUME IInv, Program
  PROVE  IInv'
<1>1. /\ phase = "program"
      /\ flash' = [a \in Cells |-> IF Page(a) = page THEN flash[a] \cap cache[a] ELSE flash[a]]
      /\ UNCHANGED <<cache, rebooting>>
  BY DEF Program
<1>2. Below /\ \A a \in Cells : Page(a) < page => flash[a] = cache[a]
  BY <1>1 DEF IInv, Stored
<1>3. \A a \in Cells : Page(a) \in Nat /\ Page(a) <= LastPage
  BY Pages
<1>4. \A a \in Cells : cache[a] \subseteq flash'[a]
  BY <1>1, <1>2 DEF Below
<1>5. \A a \in Cells : Page(a) = page => flash'[a] = cache[a]
  BY <1>1, <1>2 DEF Below
<1>6. \A a \in Cells : Page(a) < page => flash'[a] = cache[a]
  BY <1>1, <1>2, <1>3 DEF IInv, TypeOK
<1>7. flash' \in Image /\ cache' \in Image /\ page \in 0..LastPage
  BY <1>1 DEF IInv, TypeOK, Image
<1>8. Whole(flash)' /\ Whole(cache)'
  <2>1. \A c \in Identity \cup {RESET} : c \in Cells /\ Page(c) = 0
    BY Pages DEF Identity
  <2>2. CASE page = 0
    BY <1>1, <1>5, <2>1, <2>2 DEF IInv, Whole
  <2>3. CASE page # 0
    BY <1>1, <2>1, <2>3 DEF IInv, Whole
  <2> QED
    BY <2>2, <2>3
<1>9. CASE page = LastPage /\ Flushed
  <2>1. /\ ~modified' /\ ~zeroToOne' /\ todo' = Tail(todo) /\ phase' = "idle" /\ page' = 0
    BY <1>9 DEF Flushed
  <2>2. flash' = cache
    <3>1. \A a \in Cells : flash'[a] = cache[a]
      BY <1>3, <1>5, <1>6, <1>7, <1>9
    <3> QED
      BY <3>1, <1>1, <1>7 DEF Image
  <2>3. TypeOK'
    BY <1>1, <1>7, <1>9, <2>1, FirstPage DEF IInv, TypeOK, Flushed
  <2>4. Stored'
    BY <1>1, <2>1, <2>2, <1>4 DEF Stored, Below
  <2>5. Safe(todo, cache)'
    <3>1. Safe(Tail(todo), cache)
      BY <1>1, TailSafe DEF IInv, WrittenHead
    <3> QED
      BY <1>1, <2>1, <3>1
  <2>6. WrittenHead'
    BY <2>1 DEF WrittenHead
  <2> QED
    BY <1>8, <2>3, <2>4, <2>5, <2>6 DEF IInv
<1>10. CASE page # LastPage /\ page' = page + 1 /\ UNCHANGED <<modified, zeroToOne, todo, phase>>
  <2>1. page + 1 \in 0..LastPage
    BY <1>7, <1>10, Pages
  <2>2. TypeOK'
    BY <1>1, <1>7, <1>10, <2>1 DEF IInv, TypeOK
  <2>3. \A a \in Cells : Page(a) < page + 1 => flash'[a] = cache[a]
    BY <1>3, <1>5, <1>6, <1>7
  <2>4. Stored'
    BY <1>1, <1>4, <1>10, <2>3 DEF IInv, Stored, Below
  <2>5. Safe(todo, cache)' /\ WrittenHead'
    BY <1>1, <1>10 DEF IInv, WrittenHead
  <2> QED
    BY <1>8, <2>2, <2>4, <2>5 DEF IInv
<1> QED
  BY <1>9, <1>10 DEF Program

\* Whenever power is lost, the sector alone decides.
LEMMA BeginInv ==
  ASSUME IInv, Begin
  PROVE  IInv'
<1>1. /\ cache' = flash /\ flash' = flash /\ modified' = FALSE /\ zeroToOne' = FALSE
      /\ todo' = Boot(flash) /\ phase' = "idle" /\ page' = 0 /\ rebooting' = FALSE
  BY DEF Begin
<1>2. TypeOK'
  BY <1>1, FirstPage DEF IInv, TypeOK
<1>3. Stored'
  BY <1>1 DEF Stored, Below
<1>4. Whole(flash)' /\ Whole(cache)'
  BY <1>1 DEF IInv, Whole
<1>5. Safe(todo, cache)'
  BY <1>1, BootSafe DEF IInv, TypeOK
<1>6. WrittenHead'
  BY <1>1 DEF WrittenHead
<1> QED
  BY <1>2, <1>3, <1>4, <1>5, <1>6 DEF IInv

LEMMA WaitingInv ==
  ASSUME IInv, AskReset \/ GiveUp
  PROVE  IInv'
<1>1. /\ {phase, phase'} = {"idle", "waiting"}
      /\ UNCHANGED <<flash, cache, modified, zeroToOne, todo, page, rebooting>>
  BY DEF AskReset, GiveUp, Ready, ram
<1>2. TypeOK' /\ Stored'
  BY <1>1 DEF IInv, TypeOK, Stored, Below
<1>3. Whole(flash)' /\ Whole(cache)' /\ Safe(todo, cache)'
  BY <1>1 DEF IInv, Whole
<1>4. WrittenHead'
  BY <1>1 DEF WrittenHead
<1> QED
  BY <1>2, <1>3, <1>4 DEF IInv

LEMMA ResetModuleInv ==
  ASSUME IInv, ResetModule
  PROVE  IInv'
<1>1. /\ phase \in {"idle", "waiting"} /\ phase' = "idle" /\ rebooting' = TRUE
      /\ flash' = [a \in Cells |-> Erased]
      /\ todo' = <<Defaults>> \o [i \in 1..NumNvs |-> One(NvStart + i - 1, Zero)]
      /\ UNCHANGED <<cache, modified, zeroToOne, page>>
  BY DEF ResetModule, Ready, ram
<1>2. TypeOK'
  BY <1>1, Bytes DEF IInv, TypeOK, Image, Byte
<1>3. Stored'
  <2>1. ~modified /\ page = 0 /\ ~zeroToOne
    BY <1>1 DEF IInv, Stored
  <2>2. \A a \in Cells : cache[a] \subseteq Erased
    BY DEF IInv, TypeOK, Image, Erased
  <2> QED
    BY <1>1, <2>1, <2>2 DEF Stored, Below
<1>4. Whole(flash)' /\ Whole(cache)'
  BY <1>1, Pages DEF IInv, Whole
<1>5. Safe(todo, cache)'
  BY <1>1, DefaultsSafe
<1>6. WrittenHead'
  BY <1>1 DEF WrittenHead
<1> QED
  BY <1>2, <1>3, <1>4, <1>5, <1>6 DEF IInv

-----------------------------------------------------------------------------
(* Commands: none of them clears the identity or writes the flag. The address  *)
(* of NVSET is not tested, but no index is far enough below zero.              *)

\* writing two cells one after the other, as SNN does
LEMMA TwoSafe ==
  ASSUME NEW a \in Nat, a # RESET, NEW v \in Byte, v # Erased,
         NEW b \in Nat, b # RESET, NEW w \in Byte, w # Erased, NEW image
  PROVE  Safe(<<One(a, v), One(b, w)>>, image)
<1> DEFINE t == <<One(a, v), One(b, w)>>
<1>1. /\ One(a, v) \in Batch /\ DOMAIN One(a, v) = {a} /\ One(a, v)[a] = v
      /\ One(b, w) \in Batch /\ DOMAIN One(b, w) = {b} /\ One(b, w)[b] = w
  BY OneIs
<1>2. t \in Seq(Batch) /\ DOMAIN t = {1, 2} /\ t[1] = One(a, v) /\ t[2] = One(b, w)
  BY <1>1
<1> HIDE DEF t
<1>3. Kept(t)
  BY <1>1, <1>2 DEF Kept
<1>4. FlagLast(t, image)
  BY <1>1, <1>2 DEF FlagLast
<1> QED
  BY <1>2, <1>3, <1>4 DEF Safe, t

LEMMA ClearSafe ==
  ASSUME NEW image
  PROVE  Safe(<<[e \in Events |-> Erased]>>, image)
<1> DEFINE b == [e \in Events |-> Erased]
           t == <<b>>
<1>1. Events \in SUBSET Int /\ \A e \in Events : e > 4
  BY Constants DEF Events
<1>2. b \in Batch /\ DOMAIN b = Events
  BY <1>1, Bytes DEF Batch
<1> HIDE DEF b
<1>3. t \in Seq(Batch) /\ DOMAIN t = {1} /\ t[1] = b
  BY <1>2
<1> HIDE DEF t
<1>4. Kept(t)
  BY <1>1, <1>2, <1>3 DEF Kept, Identity, FLIM, CANID, NN
<1>5. FlagLast(t, image)
  BY <1>1, <1>2, <1>3 DEF FlagLast, RESET
<1> QED
  BY <1>3, <1>4, <1>5 DEF Safe, t, b

LEMMA CommandInv ==
  ASSUME IInv, Command
  PROVE  IInv'
<1>1. \A a \in Nat : (a \in Identity \/ a > 3) => a # RESET
  BY DEF Identity, FLIM, CANID, NN, RESET
<1>2. FLIM \in Nat /\ CANID \in Nat /\ NN \in Nat /\ Identity = {FLIM, CANID, NN}
      /\ \A a \in Nat : a > 3 => a \notin Identity
  BY DEF Identity, FLIM, CANID, NN
<1>3. ASSUME NEW flim \in {Zero, Flim}, SetFLiM(flim) PROVE IInv'
  <2>1. Safe(<<One(FLIM, flim)>>, cache)
    BY <1>1, <1>2, Bytes, OneSafe
  <2> QED
    BY <1>3, <2>1, PerformInv DEF SetFLiM
<1>4. ASSUME NEW canid \in CanIds, SetCANID(canid) PROVE IInv'
  <2>1. canid \in Byte /\ canid # Erased
    BY FlashAssumption DEF Byte
  <2>2. Safe(<<One(CANID, canid)>>, cache)
    BY <1>1, <1>2, <2>1, OneSafe
  <2> QED
    BY <1>4, <2>2, PerformInv DEF SetCANID
<1>5. ASSUME NEW nn \in NodeNums, SetNodeNum(nn) \/ Snn(nn) PROVE IInv'
  <2>1. nn \in Byte /\ nn # Erased
    BY FlashAssumption DEF Byte
  <2>2. CASE SetNodeNum(nn)
    <3>1. Safe(<<One(NN, nn)>>, cache)
      BY <1>1, <1>2, <2>1, OneSafe
    <3> QED
      BY <2>2, <3>1, PerformInv DEF SetNodeNum
  <2>3. CASE Snn(nn)
    <3>1. Safe(<<One(NN, nn), One(FLIM, Flim)>>, cache)
      BY <1>1, <1>2, <2>1, Bytes, TwoSafe
    <3> QED
      BY <2>3, <3>1, PerformInv DEF Snn
  <2> QED
    BY <1>5, <2>2, <2>3
<1>6. ASSUME NEW i \in Indexes, NEW v \in Values, Nvset(i, v) PROVE IInv'
  <2>1. v \in Byte
    BY FlashAssumption DEF Byte
  <2>2. NvStart + i - 1 \in Nat /\ NvStart + i - 1 > 3
    BY Constants DEF Indexes
  <2>3. Safe(<<One(NvStart + i - 1, v)>>, cache)
    BY <1>1, <1>2, <2>1, <2>2, OneSafe
  <2> QED
    BY <1>6, <2>3, PerformInv DEF Nvset
<1>7. ASSUME NEW e \in Events, NEW v \in Values \cup {Erased}, WriteEvent(e, v) PROVE IInv'
  <2>1. v \in Byte
    BY FlashAssumption, Bytes DEF Byte
  <2>2. e \in Nat /\ e > 3
    BY Constants DEF Events
  <2>3. Safe(<<One(e, v)>>, cache)
    BY <1>1, <1>2, <2>1, <2>2, OneSafe
  <2> QED
    BY <1>7, <2>3, PerformInv DEF WriteEvent
<1>8. ASSUME ClearEvents PROVE IInv'
  BY <1>8, ClearSafe, PerformInv DEF ClearEvents
<1> QED
  BY <1>3, <1>4, <1>5, <1>6, <1>7, <1>8 DEF Command

-----------------------------------------------------------------------------
LEMMA Initial == Init => IInv
<1> SUFFICES ASSUME Init PROVE IInv
  OBVIOUS
<1>1. flash \in Image /\ cache = flash /\ Erased \subseteq Bits
  BY DEF Init, Image, Erased
<1>2. TypeOK
  BY <1>1, FirstPage DEF Init, TypeOK
<1>3. Stored
  BY <1>1 DEF Init, Stored, Below
<1>4. Whole(flash) /\ Whole(cache)
  BY <1>1, Pages DEF Init, Whole
<1>5. Safe(todo, cache)
  BY <1>1, BootSafe DEF Init
<1>6. WrittenHead
  BY DEF Init, WrittenHead
<1> QED
  BY <1>2, <1>3, <1>4, <1>5, <1>6 DEF IInv

LEMMA Inductive == IInv /\ [Next]_vars => IInv'
<1> SUFFICES ASSUME IInv, [Next]_vars PROVE IInv'
  OBVIOUS
<1>1. CASE Command
  BY <1>1, CommandInv
<1>2. CASE Flush
  BY <1>2, WriteInv, UnmodifiedInv, EraseInv, NoEraseInv, ProgramInv DEF Flush
<1>3. CASE Restart
  BY <1>3, BeginInv, WaitingInv, ResetModuleInv DEF Restart, PowerLoss, Reboot
<1>4. CASE UNCHANGED vars
  <2>1. UNCHANGED <<flash, cache, modified, zeroToOne, todo, phase, page, rebooting>>
    BY <1>4 DEF vars
  <2>2. TypeOK' /\ Stored'
    BY <2>1 DEF IInv, TypeOK, Stored, Below
  <2>3. Whole(flash)' /\ Whole(cache)' /\ Safe(todo, cache)'
    BY <2>1 DEF IInv
  <2>4. WrittenHead'
    BY <2>1 DEF IInv, WrittenHead
  <2> QED
    BY <2>2, <2>3, <2>4 DEF IInv
<1> QED
  BY <1>1, <1>2, <1>3, <1>4 DEF Next

LEMMA Always == Spec => []IInv
<1> QED
  BY Initial, Inductive, PTL DEF Spec

\* The sector, the copy and the page number stay in range, whatever address
\* NVSET writes to.
THEOREM TypeCorrect == Spec => []TypeOK
<1>1. IInv => TypeOK
  BY DEF IInv
<1> QED
  BY <1>1, Always, PTL

\* setChipEEPROMVal() and flushToFlash(): between commands the copy that is read
\* is what is stored, although the sector is erased only when a flag says so and
\* a factory reset leaves the copy as it was.
THEOREM StoredIsRead == Spec => []ReadBack
<1>1. IInv => ReadBack
  BY DEF IInv, Stored, ReadBack, Ready
<1> QED
  BY <1>1, Always, PTL

\* loadNVs() and resetModule(): wherever power is lost, a sector that holds the
\* reset flag holds a whole identity, and the others are given the defaults.
THEOREM IdentityIsWhole == Spec => []IdentityWhole
<1>1. IInv => IdentityWhole
  BY DEF IInv, Whole, IdentityWhole, Identity
<1> QED
  BY <1>1, Always, PTL

=============================================================================
