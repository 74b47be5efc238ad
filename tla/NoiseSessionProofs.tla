------------------------- MODULE NoiseSessionProofs -------------------------
(***************************************************************************)
(* Proofs about NoiseSession, for every word size, window, counter width   *)
(* and set of workers.                                                     *)
(***************************************************************************)
EXTENDS NoiseSession, TLAPS

-----------------------------------------------------------------------------
(* Arithmetic of positions in the bitmap.                                  *)

\* A position is its word times the word size plus its bit, and the bit is
\* one of the word's bits.
LEMMA DivModExists ==
  ASSUME NEW p \in Nat
  PROVE  /\ p \div WordBits \in Nat
         /\ p % WordBits \in Bit
         /\ p = WordBits * (p \div WordBits) + (p % WordBits)
BY FilterAssumption DEF Bit

\* ... and that decomposition is unique.
LEMMA DivModUnique ==
  ASSUME NEW p \in Nat, NEW w \in Nat, NEW b \in Bit, p = WordBits * w + b
  PROVE  /\ p \div WordBits = w
         /\ p % WordBits = b
BY FilterAssumption DEF Bit

\* Word boundaries keep their order.
LEMMA WordOrder ==
  ASSUME NEW v \in Nat, NEW w \in Nat
  PROVE  /\ WordBits * v \in Nat
         /\ v < w => WordBits * v + WordBits <= WordBits * w
BY FilterAssumption

-----------------------------------------------------------------------------
(* The bitmap as a set of positions.                                       *)

Position == 0 .. ReplayWindowSize - 1

Seen(bitmap, p) == p % WordBits \in bitmap[p \div WordBits]

\* Every position of the window lies in a word of the bitmap.
LEMMA PositionInWord ==
  ASSUME NEW p \in Position
  PROVE  /\ p \in Nat
         /\ p \div WordBits \in Word
         /\ p % WordBits \in Bit
<1>1. p \in Nat /\ p < WordBits * Words
  BY FilterAssumption DEF Position, ReplayWindowSize
<1> DEFINE w == p \div WordBits
<1>2. w \in Nat /\ p % WordBits \in Bit /\ p = WordBits * w + (p % WordBits)
  BY <1>1, DivModExists
<1>3. w < Words
  <2>1. SUFFICES ASSUME ~(w < Words) PROVE FALSE
    OBVIOUS
  <2>2. WordBits * Words <= WordBits * w
    BY <1>2, <2>1, WordOrder, FilterAssumption
  <2> HIDE DEF w
  <2>3. QED
    BY <1>1, <1>2, <2>2, FilterAssumption DEF Bit
<1>4. QED
  BY <1>1, <1>2, <1>3, FilterAssumption DEF Word

\* setBit adds exactly one position.
LEMMA SetBitSeen ==
  ASSUME NEW bitmap \in Bitmap, NEW q \in Position
  PROVE  LET new == setBit(bitmap, q \div WordBits, q % WordBits)
         IN  /\ new \in Bitmap
             /\ \A p \in Position : Seen(new, p) <=> p = q \/ Seen(bitmap, p)
<1> DEFINE new == setBit(bitmap, q \div WordBits, q % WordBits)
<1>1. q \div WordBits \in Word /\ q % WordBits \in Bit /\ q \in Nat
  BY PositionInWord
<1>2. new \in Bitmap
  BY <1>1 DEF setBit, Bitmap
<1>3. ASSUME NEW p \in Position
      PROVE  Seen(new, p) <=> p = q \/ Seen(bitmap, p)
  <2>1. p \div WordBits \in Word /\ p % WordBits \in Bit /\ p \in Nat
    BY PositionInWord
  <2>2. (p \div WordBits = q \div WordBits /\ p % WordBits = q % WordBits) => p = q
    BY <1>1, <2>1, DivModExists
  <2> DEFINE pw == p \div WordBits
             pb == p % WordBits
             qw == q \div WordBits
             qb == q % WordBits
  <2>3. pb \in new[pw] <=> (pw = qw /\ pb = qb) \/ pb \in bitmap[pw]
    <3> HIDE DEF pw, pb, qw, qb
    <3> QED BY <1>1, <2>1 DEF setBit, Bitmap, pw, pb, qw, qb
  <2>4. QED
    BY <2>2, <2>3 DEF Seen
<1>4. QED
  BY <1>2, <1>3

\* The two passes of slideWindow, over whole words and over bits with a carry,
\* move every position up by the shift and leave the vacated ones clear.
LEMMA SlideSeen ==
  ASSUME NEW bitmap \in Bitmap, NEW shift \in Nat
  PROVE  LET new == slideWindow(bitmap, shift)
         IN  /\ new \in Bitmap
             /\ \A p \in Position :
                  Seen(new, p) <=> p >= shift /\ Seen(bitmap, p - shift)
<1> DEFINE new == slideWindow(bitmap, shift)
<1>1. CASE shift >= ReplayWindowSize
  <2>1. new = [w \in Word |-> {}]
    BY <1>1 DEF slideWindow
  <2>2. new \in Bitmap
    BY <2>1 DEF Bitmap
  <2>3. ASSUME NEW p \in Position
        PROVE  ~Seen(new, p) /\ ~(p >= shift)
    <3>1. p \div WordBits \in Word
      BY PositionInWord
    <3>2. ~Seen(new, p)
      BY <2>1, <3>1 DEF Seen
    <3>3. p < ReplayWindowSize /\ ReplayWindowSize \in Nat /\ p \in Nat
      BY FilterAssumption DEF Position, ReplayWindowSize
    <3>4. QED
      BY <1>1, <3>2, <3>3
  <2>4. QED
    BY <2>2, <2>3
<1>2. CASE ~(shift >= ReplayWindowSize)
  <2> DEFINE ws == shift \div WordBits
             bs == shift % WordBits
             mid == wordSlide(bitmap, ws)
  <2>1. ReplayWindowSize \in Nat
    BY FilterAssumption DEF ReplayWindowSize
  <2>2. ws \in Nat /\ bs \in Bit /\ shift = WordBits * ws + bs
    BY DivModExists
  <2>3. new = bitSlide(mid, bs)
    BY <1>2 DEF slideWindow
  <2>4. new \in Bitmap
    BY <2>3 DEF bitSlide, Bitmap
  <2> HIDE DEF ws, bs, mid, new
  <2>5. ASSUME NEW p \in Position
        PROVE  Seen(new, p) <=> p >= shift /\ Seen(bitmap, p - shift)
    <3> DEFINE w == p \div WordBits
               b == p % WordBits
    <3>1. p \in Nat /\ w \in Word /\ b \in Bit /\ p = WordBits * w + b
      BY PositionInWord, DivModExists
    <3> HIDE DEF w, b
    <3>2. w \in Nat /\ b \in Nat /\ b < WordBits /\ bs \in Nat /\ bs < WordBits
          /\ WordBits \in Nat
      BY <2>2, <3>1, FilterAssumption DEF Word, Bit
    <3>3. Seen(new, p) <=> \/ b >= bs /\ b - bs \in mid[w]
                           \/ b < bs /\ w > 0 /\ b + WordBits - bs \in mid[w - 1]
      BY <2>3, <3>1 DEF Seen, bitSlide, w, b
    <3>4. ASSUME NEW v \in Word
          PROVE  mid[v] = IF v >= ws THEN bitmap[v - ws] ELSE {}
      BY DEF mid, wordSlide
    <3>5. CASE b >= bs /\ w >= ws
      <4>1. p - shift = WordBits * (w - ws) + (b - bs) /\ p - shift \in Nat
        BY <2>2, <3>1, <3>2, <3>5
      <4>2. w - ws \in Nat /\ b - bs \in Bit
        BY <2>2, <3>1, <3>2, <3>5 DEF Bit
      <4>3. Seen(bitmap, p - shift) <=> b - bs \in bitmap[w - ws]
        BY <4>1, <4>2, DivModUnique DEF Seen
      <4>4. Seen(new, p) <=> b - bs \in bitmap[w - ws]
        BY <3>1, <3>2, <3>3, <3>4, <3>5
      <4>5. p >= shift
        BY <4>1, <3>1
      <4>6. QED
        BY <4>3, <4>4, <4>5
    <3>6. CASE b >= bs /\ w < ws
      <4>1. ~Seen(new, p)
        BY <2>2, <3>1, <3>2, <3>3, <3>4, <3>6
      <4>2. WordBits * w + WordBits <= WordBits * ws
        BY <2>2, <3>2, <3>6, WordOrder
      <4>3. p < shift
        BY <4>2, <2>2, <3>1, <3>2, WordOrder
      <4>4. QED
        BY <4>1, <4>3, <3>1
    <3>7. CASE b < bs /\ w > ws
      <4>1. p - shift = WordBits * (w - 1 - ws) + (b + WordBits - bs)
        BY <2>2, <3>1, <3>2, <3>7
      <4>2. w - 1 - ws \in Nat /\ b + WordBits - bs \in Bit /\ w - 1 \in Word
        BY <2>2, <3>1, <3>2, <3>7, FilterAssumption DEF Bit, Word
      <4>3. p - shift \in Nat
        BY <4>1, <4>2, <3>2, WordOrder DEF Bit
      <4>4. Seen(bitmap, p - shift) <=> b + WordBits - bs \in bitmap[w - 1 - ws]
        BY <4>1, <4>2, <4>3, DivModUnique DEF Seen
      <4>5. Seen(new, p) <=> b + WordBits - bs \in bitmap[w - 1 - ws]
        BY <2>2, <3>2, <3>3, <3>4, <3>7, <4>2
      <4>6. p >= shift
        BY <4>3, <3>1
      <4>7. QED
        BY <4>4, <4>5, <4>6
    <3>8. CASE b < bs /\ w <= ws
      <4>1. ~Seen(new, p)
        <5>1. CASE w = 0
          BY <3>2, <3>3, <3>8, <5>1
        <5>2. CASE w > 0
          <6>1. w - 1 \in Word /\ ~(w - 1 >= ws)
            BY <2>2, <3>1, <3>2, <3>8, <5>2, FilterAssumption DEF Word
          <6>2. mid[w - 1] = {}
            BY <6>1, <3>4
          <6>3. QED
            BY <3>2, <3>3, <3>8, <6>2
        <5>3. QED
          BY <3>2, <5>1, <5>2
      <4>2. WordBits * w <= WordBits * ws
        BY <2>2, <3>2, <3>8, WordOrder
      <4>3. p < shift
        BY <4>2, <2>2, <3>1, <3>2, <3>8, WordOrder
      <4>4. QED
        BY <4>1, <4>3, <3>1
    <3>9. QED
      BY <2>2, <3>2, <3>5, <3>6, <3>7, <3>8
  <2>6. QED
    BY <2>4, <2>5 DEF new
<1>3. QED
  BY <1>1, <1>2

-----------------------------------------------------------------------------
(* The filter against the set of nonces it has recorded.                   *)

Exact(rf, recorded) ==
  /\ \A n \in recorded : n <= rf.maxNonce
  /\ \A p \in Position : Seen(rf.bitmap, p) <=> rf.maxNonce - p \in recorded

\* An exact filter lets through what is neither recorded nor too old.
LEMMA CheckExact ==
  ASSUME NEW rf \in Filter, NEW recorded \in SUBSET Nat, Exact(rf, recorded),
         NEW n \in Nat
  PROVE  checkLocked(rf, n) <=> /\ n \notin recorded
                                /\ rf.maxNonce - n < ReplayWindowSize
<1> DEFINE max == rf.maxNonce
<1>1. max \in Nat /\ ReplayWindowSize \in Nat \ {0}
  BY FilterAssumption DEF Filter, ReplayWindowSize
<1>2. CASE n > max
  BY <1>1, <1>2 DEF checkLocked, Exact
<1>3. CASE n <= max /\ max - n < ReplayWindowSize
  <2>1. max - n \in Position
    BY <1>1, <1>3 DEF Position
  <2>2. Seen(rf.bitmap, max - n) <=> max - (max - n) \in recorded
    BY <2>1 DEF Exact
  <2>3. max - (max - n) = n
    BY <1>1
  <2>4. Seen(rf.bitmap, max - n) <=> n \in recorded
    BY <2>2, <2>3
  <2>5. checkLocked(rf, n) <=> ~Seen(rf.bitmap, max - n)
    BY <1>1, <1>3 DEF checkLocked, Seen
  <2>6. QED
    BY <1>3, <2>4, <2>5
<1>4. CASE n <= max /\ ~(max - n < ReplayWindowSize)
  BY <1>1, <1>4 DEF checkLocked
<1>5. QED
  BY <1>1, <1>2, <1>3, <1>4

\* Recording a nonce that passed the check keeps the filter exact.
LEMMA UpdateExact ==
  ASSUME NEW rf \in Filter, NEW recorded \in SUBSET Nat, Exact(rf, recorded),
         NEW n \in Nat, checkLocked(rf, n)
  PROVE  /\ updateLocked(rf, n) \in Filter
         /\ Exact(updateLocked(rf, n), recorded \union {n})
<1> DEFINE max == rf.maxNonce
           new == updateLocked(rf, n)
<1>1. max \in Nat /\ ReplayWindowSize \in Nat \ {0} /\ rf.bitmap \in Bitmap
  BY FilterAssumption DEF Filter, ReplayWindowSize
<1>2. CASE n > max
  <2> DEFINE slid == slideWindow(rf.bitmap, n - max)
  <2>1. n - max \in Nat /\ n - max > 0
    BY <1>1, <1>2
  <2>2. /\ slid \in Bitmap
        /\ \A p \in Position :
             Seen(slid, p) <=> p >= n - max /\ Seen(rf.bitmap, p - (n - max))
    BY <1>1, <2>1, SlideSeen
  <2>3. 0 \in Position
    BY <1>1 DEF Position
  <2>4. 0 \div WordBits = 0 /\ 0 % WordBits = 0
    BY FilterAssumption, DivModUnique DEF Bit
  <2> HIDE DEF slid
  <2>5. /\ setBit(slid, 0, 0) \in Bitmap
        /\ \A p \in Position : Seen(setBit(slid, 0, 0), p) <=> p = 0 \/ Seen(slid, p)
    BY <2>2, <2>3, <2>4, SetBitSeen
  <2>6. new = [bitmap |-> setBit(slid, 0, 0), maxNonce |-> n]
    BY <1>2 DEF updateLocked, slid
  <2>7. new \in Filter
    BY <2>5, <2>6 DEF Filter
  <2>8. ASSUME NEW p \in Position
        PROVE  Seen(new.bitmap, p) <=> new.maxNonce - p \in recorded \union {n}
    <3>1. p \in Nat
      BY <1>1 DEF Position
    <3>2. Seen(new.bitmap, p) <=> \/ p = 0
                                  \/ p >= n - max /\ Seen(rf.bitmap, p - (n - max))
      BY <2>2, <2>5, <2>6
    <3>3. CASE p < n - max
      <4>1. n - p > max
        BY <1>1, <3>1, <3>3
      <4>2. n - p \notin recorded
        BY <1>1, <3>1, <4>1 DEF Exact
      <4>3. n - p = n <=> p = 0
        BY <3>1
      <4>4. QED
        BY <1>1, <2>1, <2>6, <3>1, <3>2, <3>3, <4>2, <4>3
    <3>4. CASE p >= n - max
      <4>1. p - (n - max) \in Position
        BY <1>1, <2>1, <3>1, <3>4 DEF Position
      <4>2. Seen(rf.bitmap, p - (n - max)) <=> max - (p - (n - max)) \in recorded
        BY <4>1 DEF Exact
      <4>3. max - (p - (n - max)) = n - p /\ p # 0 /\ n - p # n
        BY <1>1, <2>1, <3>1, <3>4
      <4>4. QED
        BY <2>6, <3>2, <3>4, <4>2, <4>3
    <3>5. QED
      BY <1>1, <3>1, <3>3, <3>4
  <2>9. \A m \in recorded \union {n} : m <= new.maxNonce
    BY <1>1, <1>2, <2>6 DEF Exact
  <2>10. QED
    BY <2>7, <2>8, <2>9 DEF Exact
<1>3. CASE ~(n > max)
  <2> DEFINE q == max - n
  <2>1. q \in Nat /\ q < ReplayWindowSize
    BY <1>1, <1>3 DEF checkLocked
  <2>2. q \in Position
    BY <1>1, <2>1 DEF Position
  <2> DEFINE set == setBit(rf.bitmap, q \div WordBits, q % WordBits)
  <2>3. /\ set \in Bitmap
        /\ \A p \in Position : Seen(set, p) <=> p = q \/ Seen(rf.bitmap, p)
    BY <1>1, <2>2, SetBitSeen
  <2>4. new = [rf EXCEPT !.bitmap = set]
    BY <1>3, <2>1 DEF updateLocked
  <2> HIDE DEF set
  <2>5. new \in Filter /\ new.bitmap = set /\ new.maxNonce = max
    BY <2>3, <2>4 DEF Filter
  <2>6. ASSUME NEW p \in Position
        PROVE  Seen(new.bitmap, p) <=> new.maxNonce - p \in recorded \union {n}
    <3>1. p \in Nat
      BY <1>1 DEF Position
    <3>2. max - p = n <=> p = q
      BY <1>1, <3>1
    <3>3. Seen(rf.bitmap, p) <=> max - p \in recorded
      BY DEF Exact
    <3>4. QED
      BY <2>3, <2>5, <3>2, <3>3
  <2>7. \A m \in recorded \union {n} : m <= new.maxNonce
    BY <1>1, <1>3, <2>5 DEF Exact
  <2>8. QED
    BY <2>5, <2>6, <2>7 DEF Exact
<1>4. QED
  BY <1>2, <1>3

\* Recording any nonce yields a filter.
LEMMA UpdateType ==
  ASSUME NEW rf \in Filter, NEW n \in Nat
  PROVE  updateLocked(rf, n) \in Filter
<1> DEFINE max == rf.maxNonce
           q   == max - n
<1>1. max \in Nat /\ ReplayWindowSize \in Nat \ {0} /\ rf.bitmap \in Bitmap
  BY FilterAssumption DEF Filter, ReplayWindowSize
<1>2. CASE n > max
  <2>1. slideWindow(rf.bitmap, n - max) \in Bitmap
    BY <1>1, <1>2, SlideSeen
  <2>2. setBit(slideWindow(rf.bitmap, n - max), 0, 0) \in Bitmap
    <3> DEFINE slid == slideWindow(rf.bitmap, n - max)
    <3> HIDE DEF slid
    <3> QED BY <2>1, FilterAssumption DEF setBit, Bitmap, Word, Bit, slid
  <2>3. QED
    BY <1>2, <2>2 DEF updateLocked, Filter
<1>3. CASE ~(n > max) /\ q < ReplayWindowSize
  <2>1. q \in Position
    BY <1>1, <1>3 DEF Position
  <2>2. setBit(rf.bitmap, q \div WordBits, q % WordBits) \in Bitmap
    BY <1>1, <2>1, SetBitSeen
  <2>3. QED
    BY <1>3, <2>2 DEF updateLocked, Filter
<1>4. CASE ~(n > max) /\ ~(q < ReplayWindowSize)
  BY <1>4 DEF updateLocked
<1>5. QED
  BY <1>2, <1>3, <1>4

-----------------------------------------------------------------------------
(* Type correctness.                                                       *)

LEMMA InitType ==
  Init => TypeOK
<1> SUFFICES ASSUME Init PROVE TypeOK
  OBVIOUS
<1>1. recvNonce \in Filter
  BY DEF Init, NewSession, NewReplayFilter, Filter, Bitmap
<1>2. QED
  BY <1>1, SessionAssumption
     DEF Init, NewSession, TypeOK, SessionState, Nonces, Idle, Datagram, Damaged,
         Calls

LEMMA StepType ==
  TypeOK /\ [Next]_vars => TypeOK'
<1> SUFFICES ASSUME TypeOK, [Next]_vars PROVE TypeOK'
  OBVIOUS
<1> USE SessionAssumption
<1>1. ASSUME NEW e \in Encryptors, EncryptCheck(e) PROVE TypeOK'
  BY <1>1 DEF TypeOK, EncryptCheck, recvVars
<1>2. ASSUME NEW e \in Encryptors, EncryptSeal(e) PROVE TypeOK'
  <2>1. sendNonce' \in Nonces
    BY <1>2 DEF TypeOK, EncryptSeal, Nonces
  <2>2. calls' \in 0 .. MaxCalls /\ calls + 1 \in Calls
    BY <1>2 DEF TypeOK, EncryptSeal, Calls
  <2>3. wire' \subseteq [id : Calls, nonce : Nonces]
    BY <1>2, <2>2 DEF TypeOK, EncryptSeal
  <2>4. QED
    BY <1>2, <2>1, <2>2, <2>3 DEF TypeOK, EncryptSeal, recvVars
<1>3. ASSUME NEW d \in Decryptors, DecryptCheck(d) PROVE TypeOK'
  <2>1. PICK pkt \in Received : dec' = [dec EXCEPT ![d] = [pc |-> "checked", pkt |-> pkt]]
    BY <1>3 DEF DecryptCheck
  <2>2. pkt \in Datagram
    BY <2>1 DEF Received, TypeOK, Datagram
  <2>3. dec' \in [Decryptors -> [pc : {"idle", "checked", "passed"}, pkt : Datagram]]
    BY <2>1, <2>2 DEF TypeOK
  <2>4. QED
    BY <1>3, <2>3 DEF TypeOK, DecryptCheck, sendVars
<1>4. ASSUME NEW d \in Decryptors, DecryptFilter(d) PROVE TypeOK'
  <2> DEFINE pkt == dec[d].pkt
  <2>1. pkt \in Datagram /\ pkt.nonce \in Nonces /\ pkt.nonce \in Nat
    BY DEF TypeOK, Datagram, Nonces
  <2>2. recvNonce' \in Filter
    BY <1>4, <2>1, UpdateType DEF TypeOK, DecryptFilter
  <2>3. consumed' \subseteq Nonces
    BY <1>4, <2>1 DEF TypeOK, DecryptFilter
  <2>4. Idle \in [pc : {"idle", "checked", "passed"}, pkt : Datagram]
    BY DEF Idle, Datagram, Damaged, Nonces
  <2>5. dec' \in [Decryptors -> [pc : {"idle", "checked", "passed"}, pkt : Datagram]]
    BY <1>4, <2>4 DEF TypeOK, DecryptFilter
  <2>6. QED
    BY <1>4, <2>2, <2>3, <2>5 DEF TypeOK, DecryptFilter, sendVars
<1>5. ASSUME NEW d \in Decryptors, DecryptOpen(d) PROVE TypeOK'
  <2>1. Idle \in [pc : {"idle", "checked", "passed"}, pkt : Datagram]
    BY DEF Idle, Datagram, Damaged, Nonces
  <2>2. dec' \in [Decryptors -> [pc : {"idle", "checked", "passed"}, pkt : Datagram]]
    BY <1>5, <2>1 DEF TypeOK, DecryptOpen
  <2>3. delivered' \in [Calls -> Nat]
    BY <1>5 DEF TypeOK, DecryptOpen
  <2>4. QED
    BY <1>5, <2>2, <2>3 DEF TypeOK, DecryptOpen, sendVars
<1>6. CASE ExpireSender
  BY <1>6 DEF TypeOK, ExpireSender, recvVars, SessionState
<1>7. CASE ExpireReceiver
  BY <1>7 DEF TypeOK, ExpireReceiver, sendVars, SessionState
<1>8. CASE UNCHANGED vars
  BY <1>8 DEF TypeOK, vars
<1>9. QED
  BY <1>1, <1>2, <1>3, <1>4, <1>5, <1>6, <1>7, <1>8 DEF Next

\* The fields of both sessions, the workers' steps and the histories keep their
\* types in every execution of the concurrent Encrypt and Decrypt.
THEOREM TypeCorrect == Spec => []TypeOK
BY InitType, StepType, PTL DEF Spec

-----------------------------------------------------------------------------
(* The receiving end: the filter is exact, and a plaintext comes out once. *)

\* The filter records the set of consumed nonces.
FilterInv == Exact(recvNonce, consumed)

\* A call's datagram is unique, and its number is one already taken.
WireInv ==
  /\ \A m \in wire : m.id <= calls
  /\ \A m1, m2 \in wire : m1.id = m2.id => m1 = m2

\* An intact datagram held by a worker was sent.
HeldInv == \A d \in Decryptors : dec[d].pkt.id \in Calls => dec[d].pkt \in wire

Passed(d) == dec[d].pc = "passed" /\ dec[d].pkt.id \in Calls

\* The right to deliver a call is held once: by one worker past the filter, or
\* by the delivery itself; either way the nonce is consumed.
DeliverInv ==
  /\ \A c \in Calls : delivered[c] \in {0, 1}
  /\ \A c \in Calls : delivered[c] = 1 =>
       \E m \in wire : m.id = c /\ m.nonce \in consumed
  /\ \A d \in Decryptors : Passed(d) =>
       dec[d].pkt.nonce \in consumed /\ delivered[dec[d].pkt.id] = 0
  /\ \A d1, d2 \in Decryptors :
       Passed(d1) /\ Passed(d2) /\ dec[d1].pkt.id = dec[d2].pkt.id => d1 = d2

RecvInv == TypeOK /\ FilterInv /\ WireInv /\ HeldInv /\ DeliverInv

LEMMA InitRecv ==
  Init => RecvInv
<1> SUFFICES ASSUME Init PROVE RecvInv
  OBVIOUS
<1>1. TypeOK
  BY InitType
<1>2. FilterInv
  <2>1. \A p \in Position : ~Seen(recvNonce.bitmap, p)
    BY PositionInWord DEF Seen, Init, NewSession, NewReplayFilter
  <2>2. QED
    BY <2>1 DEF FilterInv, Exact, Init
<1>3. QED
  BY <1>1, <1>2
     DEF RecvInv, Init, WireInv, HeldInv, DeliverInv, Passed, Idle, Damaged, Calls

LEMMA StepRecv ==
  RecvInv /\ [Next]_vars => RecvInv'
<1> SUFFICES ASSUME RecvInv, [Next]_vars PROVE RecvInv'
  OBVIOUS
<1> USE SessionAssumption DEF RecvInv
<1>0. TypeOK'
  BY StepType
<1>1. ASSUME NEW e \in Encryptors, EncryptCheck(e) PROVE RecvInv'
  BY <1>0, <1>1
     DEF EncryptCheck, recvVars, FilterInv, WireInv, HeldInv, DeliverInv, Passed
<1>2. ASSUME NEW e \in Encryptors, EncryptSeal(e) PROVE RecvInv'
  <2>1. calls \in Nat /\ calls' = calls + 1
    BY <1>2 DEF EncryptSeal, TypeOK
  <2>2. \A m \in wire : m.id \in Nat
    BY DEF TypeOK, Calls
  <2>3. WireInv'
    BY <1>2, <2>1, <2>2 DEF EncryptSeal, WireInv
  <2>4. wire \subseteq wire'
    BY <1>2 DEF EncryptSeal
  <2>5. HeldInv'
    BY <1>2, <2>4 DEF EncryptSeal, recvVars, HeldInv
  <2>6. DeliverInv'
    BY <1>2, <2>4 DEF EncryptSeal, recvVars, DeliverInv, Passed
  <2>7. QED
    BY <1>0, <1>2, <2>3, <2>5, <2>6 DEF EncryptSeal, recvVars, FilterInv
<1>3. ASSUME NEW d \in Decryptors, DecryptCheck(d) PROVE RecvInv'
  <2>1. PICK pkt \in Received : dec' = [dec EXCEPT ![d] = [pc |-> "checked", pkt |-> pkt]]
    BY <1>3 DEF DecryptCheck
  <2>2. pkt.id \in Calls => pkt \in wire
    BY <2>1 DEF Received, Damaged, Calls
  <2>3. HeldInv'
    BY <1>3, <2>1, <2>2 DEF HeldInv, DecryptCheck, TypeOK
  <2>4. \A c \in Decryptors : Passed(c)' => Passed(c) /\ dec'[c] = dec[c]
    BY <2>1 DEF Passed, TypeOK
  <2>5. DeliverInv'
    BY <1>3, <2>4 DEF DeliverInv, DecryptCheck
  <2>6. QED
    BY <1>0, <1>3, <2>3, <2>5 DEF DecryptCheck, sendVars, FilterInv, WireInv
<1>4. ASSUME NEW d \in Decryptors, DecryptFilter(d) PROVE RecvInv'
  <2> DEFINE pkt == dec[d].pkt
  <2>1. pkt.nonce \in Nat /\ recvNonce \in Filter /\ consumed \in SUBSET Nat
    BY DEF TypeOK, Datagram, Nonces
  <2>2. CASE checkLocked(recvNonce, pkt.nonce)
    <3>1. pkt.nonce \notin consumed
      BY <2>1, <2>2, CheckExact DEF FilterInv
    <3>2. /\ recvNonce' = updateLocked(recvNonce, pkt.nonce)
          /\ consumed' = consumed \union {pkt.nonce}
          /\ dec' = [dec EXCEPT ![d].pc = "passed"]
          /\ wire' = wire /\ delivered' = delivered /\ calls' = calls
      BY <1>4, <2>2 DEF DecryptFilter, sendVars
    <3>3. FilterInv'
      BY <2>1, <2>2, <3>2, UpdateExact DEF FilterInv
    <3>4. /\ dec'[d].pc = "passed" /\ dec'[d].pkt = pkt
          /\ \A c \in Decryptors : dec'[c].pkt = dec[c].pkt
          /\ \A c \in Decryptors \ {d} : dec'[c] = dec[c]
      BY <3>2 DEF TypeOK
    <3>5. HeldInv'
      BY <3>2, <3>4 DEF HeldInv
    <3>6. WireInv'
      BY <3>2 DEF WireInv
    <3>7. ASSUME pkt.id \in Calls
          PROVE  /\ delivered[pkt.id] = 0
                 /\ \A c \in Decryptors : ~(Passed(c) /\ dec[c].pkt.id = pkt.id)
      <4>1. pkt \in wire
        BY <3>7 DEF HeldInv
      <4>2. \A m \in wire : m.id = pkt.id => m = pkt
        BY <4>1 DEF WireInv
      <4>3. delivered[pkt.id] # 1
        BY <3>1, <3>7, <4>2 DEF DeliverInv
      <4>4. ASSUME NEW c \in Decryptors, Passed(c), dec[c].pkt.id = pkt.id PROVE FALSE
        <5>1. dec[c].pkt \in wire
          BY <3>7, <4>4 DEF HeldInv
        <5>2. dec[c].pkt.nonce \in consumed
          BY <4>4 DEF DeliverInv
        <5>3. QED
          BY <3>1, <4>2, <4>4, <5>1, <5>2
      <4>5. QED
        BY <3>7, <4>3, <4>4 DEF DeliverInv
    <3>8. DeliverInv'
      <4>1. \A c \in Calls : delivered'[c] \in {0, 1}
        BY <3>2 DEF DeliverInv
      <4>2. \A c \in Calls : delivered'[c] = 1 =>
              \E m \in wire' : m.id = c /\ m.nonce \in consumed'
        BY <3>2 DEF DeliverInv
      <4>3. ASSUME NEW c \in Decryptors, Passed(c)'
            PROVE  dec'[c].pkt.nonce \in consumed' /\ delivered'[dec'[c].pkt.id] = 0
        <5>1. CASE c = d
          BY <3>2, <3>4, <3>7, <4>3, <5>1 DEF Passed
        <5>2. CASE c # d
          BY <3>2, <3>4, <4>3, <5>2 DEF Passed, DeliverInv
        <5>3. QED
          BY <5>1, <5>2
      <4>4. ASSUME NEW c1 \in Decryptors, NEW c2 \in Decryptors, Passed(c1)', Passed(c2)',
                   dec'[c1].pkt.id = dec'[c2].pkt.id
            PROVE  c1 = c2
        BY <3>4, <3>7, <4>4 DEF Passed, DeliverInv
      <4>5. QED
        BY <4>1, <4>2, <4>3, <4>4 DEF DeliverInv
    <3>9. QED
      BY <1>0, <3>3, <3>5, <3>6, <3>8
  <2>3. CASE ~checkLocked(recvNonce, pkt.nonce)
    <3>1. /\ dec' = [dec EXCEPT ![d] = Idle]
          /\ recvNonce' = recvNonce /\ consumed' = consumed /\ wire' = wire
          /\ delivered' = delivered /\ calls' = calls
      BY <1>4, <2>3 DEF DecryptFilter, sendVars
    <3>2. \A c \in Decryptors : Passed(c)' => Passed(c) /\ dec'[c] = dec[c]
      BY <3>1 DEF Passed, TypeOK, Idle
    <3>3. HeldInv'
      BY <3>1 DEF HeldInv, TypeOK, Idle, Damaged, Calls
    <3>4. DeliverInv'
      BY <3>1, <3>2 DEF DeliverInv
    <3>5. QED
      BY <1>0, <3>1, <3>3, <3>4 DEF FilterInv, WireInv
  <2>4. QED
    BY <2>2, <2>3
<1>5. ASSUME NEW d \in Decryptors, DecryptOpen(d) PROVE RecvInv'
  <2> DEFINE pkt == dec[d].pkt
  <2>1. /\ dec' = [dec EXCEPT ![d] = Idle]
        /\ recvNonce' = recvNonce /\ consumed' = consumed /\ wire' = wire /\ calls' = calls
      BY <1>5 DEF DecryptOpen, sendVars
  <2>2. HeldInv'
    BY <2>1 DEF HeldInv, TypeOK, Idle, Damaged, Calls
  <2>3. \A c \in Decryptors : Passed(c)' => Passed(c) /\ dec'[c] = dec[c] /\ c # d
    BY <2>1 DEF Passed, TypeOK, Idle
  <2>4. DeliverInv'
    <3>1. CASE pkt.id \in Calls
      <4>1. Passed(d) /\ delivered' = [delivered EXCEPT ![pkt.id] = @ + 1]
        BY <1>5, <3>1 DEF DecryptOpen, Passed
      <4>2. delivered[pkt.id] = 0 /\ pkt.nonce \in consumed /\ pkt \in wire
        BY <3>1, <4>1 DEF DeliverInv, HeldInv
      <4>3. delivered'[pkt.id] = 1
        BY <3>1, <4>1, <4>2 DEF TypeOK
      <4>4. \A c \in Calls : c # pkt.id => delivered'[c] = delivered[c]
        BY <4>1 DEF TypeOK
      <4>5. \A c \in Calls : delivered'[c] \in {0, 1}
        BY <4>3, <4>4 DEF DeliverInv
      <4>6. \A c \in Calls : delivered'[c] = 1 =>
              \E m \in wire' : m.id = c /\ m.nonce \in consumed'
        BY <2>1, <4>2, <4>4 DEF DeliverInv
      <4>7. ASSUME NEW c \in Decryptors, Passed(c)'
            PROVE  dec'[c].pkt.nonce \in consumed' /\ delivered'[dec'[c].pkt.id] = 0
        <5>1. Passed(c) /\ dec'[c] = dec[c] /\ c # d
          BY <2>3, <4>7
        <5>2. dec[c].pkt.id # pkt.id
          BY <4>1, <5>1 DEF DeliverInv
        <5>3. QED
          BY <2>1, <4>4, <5>1, <5>2 DEF DeliverInv, Passed
      <4>8. \A d1, d2 \in Decryptors :
              Passed(d1)' /\ Passed(d2)' /\ dec'[d1].pkt.id = dec'[d2].pkt.id => d1 = d2
        BY <2>3 DEF DeliverInv
      <4>9. QED
        BY <4>5, <4>6, <4>7, <4>8 DEF DeliverInv
    <3>2. CASE pkt.id \notin Calls
      <4>1. delivered' = delivered
        BY <1>5, <3>2 DEF DecryptOpen
      <4>2. QED
        BY <2>1, <2>3, <4>1 DEF DeliverInv
    <3>3. QED
      BY <3>1, <3>2
  <2>5. QED
    BY <1>0, <2>1, <2>2, <2>4 DEF FilterInv, WireInv
<1>6. CASE ExpireSender
  BY <1>0, <1>6
     DEF ExpireSender, recvVars, FilterInv, WireInv, HeldInv, DeliverInv, Passed
<1>7. CASE ExpireReceiver
  BY <1>0, <1>7
     DEF ExpireReceiver, sendVars, FilterInv, WireInv, HeldInv, DeliverInv, Passed
<1>8. CASE UNCHANGED vars
  BY <1>0, <1>8 DEF vars, FilterInv, WireInv, HeldInv, DeliverInv, Passed
<1>9. QED
  BY <1>1, <1>2, <1>3, <1>4, <1>5, <1>6, <1>7, <1>8 DEF Next

LEMMA RecvInvariant == Spec => []RecvInv
BY InitRecv, StepRecv, PTL DEF Spec

\* For every word size and window, the word-level filter refuses exactly the
\* nonces recorded and those a window behind, whatever the workers interleave.
THEOREM FilterIsExact == Spec => []FilterExact
<1>1. RecvInv => FilterExact
  <2> SUFFICES ASSUME RecvInv, NEW n \in Nonces
               PROVE  checkLocked(recvNonce, n) <=>
                        n \notin consumed /\ recvNonce.maxNonce - n < ReplayWindowSize
    BY DEF FilterExact
  <2>1. n \in Nat /\ recvNonce \in Filter /\ consumed \in SUBSET Nat
    BY SessionAssumption DEF RecvInv, TypeOK, Nonces
  <2>2. QED
    BY <2>1, CheckExact DEF RecvInv, FilterInv
<1>2. QED
  BY <1>1, RecvInvariant, PTL

\* No plaintext is returned twice by the concurrent Decrypt, for any number of
\* workers and any duplication by the network, even after the counter wraps.
THEOREM DeliveredAtMostOnce == Spec => []AtMostOnce
<1>1. RecvInv => AtMostOnce
  BY DEF RecvInv, DeliverInv, AtMostOnce
<1>2. QED
  BY <1>1, RecvInvariant, PTL

-----------------------------------------------------------------------------
(* The sending end.                                                        *)

\* While the counter has not wrapped it counts the calls, so that a datagram's
\* nonce identifies its call.
SendInv ==
  /\ TypeOK
  /\ sendNonce = IF calls = NonceSpace THEN 0 ELSE calls
  /\ \A m \in wire : m.nonce = m.id - 1 /\ m.id <= calls
  /\ \A m1, m2 \in wire : m1.id = m2.id => m1 = m2

\* As long as Encrypt is called at most 2^64 times, no nonce is sealed twice.
THEOREM NonceIsFresh ==
  ASSUME MaxCalls <= NonceSpace
  PROVE  Spec => []NonceFresh
<1> USE SessionAssumption
<1>1. Init => SendInv
  BY InitType DEF Init, NewSession, SendInv
<1>2. SendInv /\ [Next]_vars => SendInv'
  <2> SUFFICES ASSUME SendInv, [Next]_vars PROVE SendInv'
    OBVIOUS
  <2>0. TypeOK'
    BY StepType DEF SendInv
  <2>1. ASSUME NEW e \in Encryptors, EncryptSeal(e) PROVE SendInv'
    <3>1. calls \in Nat /\ calls < NonceSpace /\ calls' = calls + 1 /\ sendNonce = calls
      BY <2>1 DEF EncryptSeal, SendInv, TypeOK
    <3>2. sendNonce' = (calls + 1) % NonceSpace
      BY <2>1, <3>1 DEF EncryptSeal
    <3>3. sendNonce' = IF calls' = NonceSpace THEN 0 ELSE calls'
      BY <3>1, <3>2
    <3>4. wire' \subseteq wire \union {[id |-> calls + 1, nonce |-> calls]}
      BY <2>1, <3>1 DEF EncryptSeal
    <3>5. \A m \in wire : m.id \in Nat /\ m.id <= calls /\ m.nonce = m.id - 1
      BY DEF SendInv, TypeOK, Calls
    <3>6. \A m \in wire' : m.nonce = m.id - 1 /\ m.id <= calls'
      BY <3>1, <3>4, <3>5
    <3>7. \A m1, m2 \in wire' : m1.id = m2.id => m1 = m2
      BY <3>1, <3>4, <3>5 DEF SendInv
    <3>8. QED
      BY <2>0, <3>3, <3>6, <3>7 DEF SendInv
  <2>2. CASE UNCHANGED <<sendNonce, calls, wire>>
    BY <2>0, <2>2 DEF SendInv
  <2>3. ASSUME NEW e \in Encryptors, EncryptCheck(e)
        PROVE  UNCHANGED <<sendNonce, calls, wire>>
    BY <2>3 DEF EncryptCheck
  <2>4. ASSUME NEW d \in Decryptors, DecryptCheck(d) \/ DecryptFilter(d) \/ DecryptOpen(d)
        PROVE  UNCHANGED <<sendNonce, calls, wire>>
    BY <2>4 DEF DecryptCheck, DecryptFilter, DecryptOpen, sendVars
  <2>5. ASSUME ExpireSender \/ ExpireReceiver \/ UNCHANGED vars
        PROVE  UNCHANGED <<sendNonce, calls, wire>>
    BY <2>5 DEF ExpireSender, ExpireReceiver, sendVars, vars
  <2>6. QED
    BY <2>1, <2>2, <2>3, <2>4, <2>5 DEF Next
<1>3. SendInv => NonceFresh
  <2> SUFFICES ASSUME SendInv, NEW m1 \in wire, NEW m2 \in wire, m1.nonce = m2.nonce
               PROVE  m1 = m2
    BY DEF NonceFresh
  <2>1. ASSUME NEW m \in wire PROVE m.id = m.nonce + 1
    <3>1. m.id \in Nat /\ m.nonce = m.id - 1
      BY DEF SendInv, TypeOK, Calls
    <3>2. QED
      BY <3>1
  <2>2. m1.id = m2.id
    BY <2>1
  <2>3. QED
    BY <2>2 DEF SendInv
<1>4. QED
  BY <1>1, <1>2, <1>3, PTL DEF Spec

=============================================================================
