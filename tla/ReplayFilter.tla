---------------------------- MODULE ReplayFilter ----------------------------
(***************************************************************************)
(* The sliding-window replay filter of pkgs/giznet/internal/noise/         *)
(* replay.go, down to its words: the bitmap is an array of Words words of  *)
(* WordBits bits (32 words of 64 bits in the code), bit n of the window    *)
(* stands for the nonce maxNonce - n, and the window slides by whole words *)
(* first and by bits with a carry from word to word after that.            *)
(*                                                                         *)
(* A word is the set of the positions of its 1 bits.                       *)
(***************************************************************************)
EXTENDS Integers

CONSTANTS
  WordBits,   \* bits in a word of the bitmap (64)
  Words       \* words in the bitmap (replayWindowWords)

ASSUME FilterAssumption == /\ WordBits \in Nat \ {0}
                           /\ Words \in Nat \ {0}

ReplayWindowSize == WordBits * Words

Bit  == 0 .. WordBits - 1
Word == 0 .. Words - 1

Bitmap == [Word -> SUBSET Bit]

Filter == [bitmap : Bitmap, maxNonce : Nat]

NewReplayFilter == [bitmap |-> [w \in Word |-> {}], maxNonce |-> 0]

\* TRUE iff the nonce is neither recorded nor older than the window.
checkLocked(rf, nonce) ==
  \/ nonce > rf.maxNonce
  \/ LET delta == rf.maxNonce - nonce
     IN  /\ delta < ReplayWindowSize
         /\ delta % WordBits \notin rf.bitmap[delta \div WordBits]

\* The copy of whole words to higher indices; the vacated words are cleared.
wordSlide(bitmap, wordShift) ==
  [w \in Word |-> IF w >= wordShift THEN bitmap[w - wordShift] ELSE {}]

\* A wrong form, for the mutation runs: the bits that leave a word are lost.
bitSlideNoCarry(bitmap, bitShift) ==
  [w \in Word |-> {b \in Bit : b >= bitShift /\ b - bitShift \in bitmap[w]}]

\* The left shift inside each word, the bits that leave a word being carried
\* into the low end of the next one.
bitSlide(bitmap, bitShift) ==
  [w \in Word |->
     {b \in Bit : \/ b >= bitShift /\ b - bitShift \in bitmap[w]
                  \/ /\ b < bitShift
                     /\ w > 0
                     /\ b + WordBits - bitShift \in bitmap[w - 1]}]

slideWindow(bitmap, shift) ==
  IF shift >= ReplayWindowSize
    THEN [w \in Word |-> {}]
    ELSE bitSlide(wordSlide(bitmap, shift \div WordBits), shift % WordBits)

\* bitmap[word] |= 1 << bit
setBit(bitmap, word, bit) == [bitmap EXCEPT ![word] = @ \union {bit}]

\* A wrong form, for the mutation runs: late nonces are not recorded.
updateHighOnly(rf, nonce) ==
  IF nonce > rf.maxNonce
    THEN [bitmap   |-> setBit(slideWindow(rf.bitmap, nonce - rf.maxNonce), 0, 0),
          maxNonce |-> nonce]
    ELSE rf

\* Records a nonce that passed the check.
updateLocked(rf, nonce) ==
  IF nonce > rf.maxNonce
    THEN [bitmap   |-> setBit(slideWindow(rf.bitmap, nonce - rf.maxNonce), 0, 0),
          maxNonce |-> nonce]
    ELSE LET delta == rf.maxNonce - nonce
         IN  IF delta < ReplayWindowSize
               THEN [rf EXCEPT !.bitmap = setBit(@, delta \div WordBits,
                                                    delta % WordBits)]
               ELSE rf

=============================================================================
