---------------------------- MODULE KcpMuxProofs ----------------------------
(***************************************************************************)
(* Proofs about KcpMux, for every number of stream ids, of goroutines, of  *)
(* active streams and of places in the accept queue.                       *)
(***************************************************************************)
EXTENDS KcpMux, FiniteSetTheorems, SequenceTheorems, WellFoundedInduction, TLAPS

\* A frame that Input has looked up, an id that Accept has taken from the queue
\* and Close's list are of this mux's ids.
InFlight ==
  /\ input \in [pc : {"idle", "apply"}, id : StreamID \union {NoId}, type : FrameType,
                exists : BOOLEAN]
  /\ input.pc = "apply" => input.id \in StreamID
  /\ muxCloser \in [pc : {"idle", "streams", "done"}, todo : SUBSET StreamID]
  /\ muxCloser.pc = "streams" => closing
  /\ \A a \in Acceptors : acceptor[a].pc = "queued" => acceptor[a].id \in StreamID

\* An entry is queued or active, not both, and it has a channel to wait on exactly
\* when closeStream has begun on it (which Close does without a channel).
EntriesSound ==
  \A id \in StreamID :
    Present(id) =>
      /\ streams[id].queued => ~streams[id].active
      /\ streams[id].ack # NoChan => streams[id].localClose
      /\ streams[id].localClose /\ ~closing => streams[id].ack # NoChan

\* closeStream works on a stream of this mux, and has a channel of its own while
\* it drains, or any channel unless Close began.
ClosersSound ==
  \A c \in Closers :
    closer[c].pc \in {"drain", "wait"} =>
      /\ closer[c].id \in StreamID
      /\ closer[c].pc = "drain" \/ ~closing => closer[c].ch # NoChan

IInv == /\ TypeOK /\ InFlight /\ EntriesSound /\ ClosersSound
        /\ ActiveExact /\ QueuedIsAcceptable /\ WaiterIsWakeable /\ ClosedIsEmpty

-----------------------------------------------------------------------------
(* Lemmas about the operators.                                             *)

\* A set of naturals that is not empty has a least element.
LEMMA LeastExists ==
  ASSUME NEW T \in SUBSET Nat, T # {}
  PROVE  \E x \in T : \A y \in T : x <= y
<1>1. IsWellFoundedOn(OpToRel(<, Nat), Nat)
  BY NatLessThanWellFounded
<1>2. PICK x \in T : \A y \in T : ~ (<<y, x>> \in OpToRel(<, Nat))
  BY <1>1, WFMin
<1>3. \A y \in T : ~(y < x)
  BY <1>2 DEF OpToRel
<1>4. QED
  BY <1>3

\* An entry is told from the absence of one.
LEMMA AbsentIsNoEntry == Absent \notin Entry
BY DEF Absent, Entry

\* The sets of ids are finite, so that their members can be counted.
LEMMA ActiveFinite ==
  ASSUME NEW S \in SUBSET StreamID
  PROVE  /\ IsFiniteSet(S)
         /\ IsFiniteSet(ActiveIn(S)) /\ Cardinality(ActiveIn(S)) \in Nat
<1>1. IsFiniteSet(StreamID)
  BY FS_Interval, MuxAssumption DEF StreamID
<1>2. IsFiniteSet(S)
  BY <1>1, FS_Subset
<1>3. ActiveIn(S) \in SUBSET S
  BY DEF ActiveIn
<1>4. QED
  BY <1>2, <1>3, FS_Subset, FS_CardinalityType

\* allocateLocalStreamIDLocked finds an id that is not in use.
LEMMA FreshId ==
  ASSUME TypeOK, FreeSteps # {}
  PROVE  LET id == LocalIdAt(FirstFreeStep)
         IN  /\ id \in StreamID /\ ~Present(id)
             /\ (id + 2) % IdSpace \in StreamID
<1>1. FreeSteps \in SUBSET Nat
  BY DEF FreeSteps
<1>2. FirstFreeStep \in FreeSteps
  BY <1>1, LeastExists DEF FirstFreeStep
<1>3. FirstFreeStep \in Nat /\ ~Present(LocalIdAt(FirstFreeStep))
  BY <1>1, <1>2 DEF FreeSteps
<1>4. ASSUME NEW n \in Nat
      PROVE  n % IdSpace \in StreamID
  BY MuxAssumption DEF StreamID
<1> DEFINE id == LocalIdAt(FirstFreeStep)
<1>5. id \in StreamID
  <2>1. nextLocalStreamID + 2 * FirstFreeStep \in Nat
    BY <1>3 DEF TypeOK, StreamID
  <2>2. QED
    BY <1>4, <2>1 DEF LocalIdAt
<1>6. id + 2 \in Nat
  BY <1>5 DEF StreamID
<1> HIDE DEF id
<1>7. QED
  BY <1>3, <1>4, <1>5, <1>6 DEF id

\* removeStreamLocked: the entries go, the others stay, the counter stays exact
\* and the channels of those that go are closed.
LEMMA RemoveFacts ==
  ASSUME TypeOK, ActiveExact, NEW S \in SUBSET StreamID, Remove(S)
  PROVE  /\ streams' \in [StreamID -> Entry \union {Absent}]
         /\ \A id \in StreamID : Present(id)' <=> Present(id) /\ id \notin S
         /\ \A id \in StreamID \ S : streams'[id] = streams[id]
         /\ activeStreams' \in Nat /\ ActiveExact'
         /\ acked' \subseteq 1 .. MaxChannels /\ acked \subseteq acked'
         /\ \A id \in S : Present(id) /\ streams[id].ack # NoChan => streams[id].ack \in acked'
<1>1. /\ streams' \in [StreamID -> Entry \union {Absent}]
      /\ \A id \in StreamID : streams'[id] = IF id \in S THEN Absent ELSE streams[id]
  BY DEF Remove, TypeOK
<1>2. \A id \in StreamID : Present(id)' <=> Present(id) /\ id \notin S
  BY <1>1 DEF Present
<1>3. ActiveIn(StreamID)' = ActiveIn(StreamID) \ ActiveIn(S)
  BY <1>1, <1>2 DEF ActiveIn
<1> DEFINE A == ActiveIn(StreamID)
           B == ActiveIn(S)
<1>4. B \in SUBSET A /\ A \cap B = B
  BY DEF ActiveIn
<1>5. /\ IsFiniteSet(A) /\ Cardinality(A) \in Nat /\ Cardinality(B) \in Nat
      /\ Cardinality(B) <= Cardinality(A)
  BY <1>4, ActiveFinite, FS_Subset
<1>6. Cardinality(A \ B) = Cardinality(A) - Cardinality(B)
  BY <1>4, <1>5, FS_Difference
<1>7. activeStreams' = Cardinality(A) - Cardinality(B)
  BY <1>5 DEF Remove, CountAfter, ActiveExact
<1>8. activeStreams' \in Nat /\ ActiveExact'
  BY <1>3, <1>5, <1>6, <1>7 DEF ActiveExact
<1>9. /\ acked' \subseteq 1 .. MaxChannels /\ acked \subseteq acked'
      /\ \A id \in S : Present(id) /\ streams[id].ack # NoChan => streams[id].ack \in acked'
  <2>1. \A id \in S : Present(id) => streams[id].ack \in 0 .. MaxChannels
    BY DEF TypeOK, Present, Entry
  <2> DEFINE woken == {streams[id].ack : id \in {i \in S : Present(i)}} \ {NoChan}
  <2>2. woken \subseteq 1 .. MaxChannels
    BY <2>1, MuxAssumption DEF NoChan
  <2>3. acked' = acked \union woken
    BY DEF Remove
  <2>4. QED
    BY <2>2, <2>3 DEF TypeOK
<1>10. QED
  BY <1>1, <1>2, <1>8, <1>9

-----------------------------------------------------------------------------
(* The kinds of steps.  Each keeps the invariant, whatever else it does to   *)
(* the goroutines' progress within these limits.                            *)

CloserType   == [Closers -> [pc : {"idle", "drain", "wait"}, id : StreamID \union {NoId},
                             ch : 0 .. MaxChannels]]
AcceptorType == [Acceptors -> [pc : {"idle", "select", "queued"},
                               id : StreamID \union {NoId}]]

\* closeStream calls go on or end.
ClosersKept == /\ closer' \in CloserType
               /\ \A c \in Closers : closer'[c] = closer[c] \/ closer'[c].pc = "idle"

\* What no other conjunct looks at.
RestTyped == /\ nextLocalStreamID \in StreamID
             /\ opener \in [Openers -> StreamID \union {NoId}]
             /\ channels \in 0 .. MaxChannels
             /\ InFlight

\* Streams are removed, for good if the mux is closed then, and all that are
\* queued if it stops accepting.
Removal(S) ==
  /\ S \subseteq StreamID
  /\ Remove(S)
  /\ UNCHANGED <<acceptCh, acceptor, closing>>
  /\ acceptingRemote' = acceptingRemote \/ QueuedOnly \subseteq S
  /\ closed' = closed \/ \A id \in StreamID : Present(id) => id \in S
  /\ ClosersKept /\ RestTyped'

LEMMA RemovalIInv ==
  ASSUME IInv, NEW S, Removal(S)
  PROVE  IInv'
<1>1. /\ streams' \in [StreamID -> Entry \union {Absent}]
      /\ \A id \in StreamID : Present(id)' <=> Present(id) /\ id \notin S
      /\ \A id \in StreamID \ S : streams'[id] = streams[id]
      /\ activeStreams' \in Nat /\ ActiveExact'
      /\ acked' \subseteq 1 .. MaxChannels /\ acked \subseteq acked'
      /\ \A id \in S : Present(id) /\ streams[id].ack # NoChan => streams[id].ack \in acked'
  BY RemoveFacts DEF IInv, Removal
<1>2. TypeOK' /\ InFlight'
  BY <1>1 DEF IInv, TypeOK, Removal, ClosersKept, CloserType, RestTyped
<1>3. EntriesSound'
  BY <1>1 DEF IInv, EntriesSound, Removal
<1>4. ClosersSound'
  BY DEF IInv, ClosersSound, Removal, ClosersKept
<1>5. QueuedIsAcceptable'
  <2>1. \A id \in StreamID :
          Present(id)' /\ streams'[id].queued => acceptingRemote' = acceptingRemote
    BY <1>1 DEF IInv, EntriesSound, Removal, QueuedOnly
  <2>2. acceptCh' = acceptCh /\ acceptor' = acceptor /\ closing' = closing
    BY DEF Removal
  <2>3. QED
    BY <1>1, <2>1, <2>2 DEF IInv, QueuedIsAcceptable
<1>6. WaiterIsWakeable'
  <2>1. closing' = closing /\ ClosersKept
    BY DEF Removal
  <2>2. ASSUME NEW c \in Closers, closer'[c].pc = "wait", ~closing'
        PROVE  \/ closer'[c].ch \in acked'
               \/ Present(closer[c].id)' /\ streams'[closer'[c].id].ack = closer'[c].ch
    <3>1. closer'[c] = closer[c] /\ closer[c].id \in StreamID /\ closer[c].ch # NoChan
      BY <2>1, <2>2 DEF IInv, ClosersSound, ClosersKept
    <3>2. \/ closer[c].ch \in acked
          \/ Present(closer[c].id) /\ streams[closer[c].id].ack = closer[c].ch
      BY <2>1, <2>2, <3>1 DEF IInv, WaiterIsWakeable
    <3>3. closer[c].id \notin S => streams'[closer[c].id] = streams[closer[c].id]
      BY <1>1, <3>1
    <3>4. QED
      BY <1>1, <3>1, <3>2, <3>3 DEF Present
  <2>3. QED
    BY <2>2 DEF WaiterIsWakeable
<1>7. ClosedIsEmpty'
  <2>1. ASSUME closed'
        PROVE  ActiveIn(StreamID)' = {} /\ \A id \in StreamID : ~Present(id)'
    BY <1>1, <2>1 DEF IInv, ClosedIsEmpty, Removal, ActiveIn
  <2>2. QED
    BY <1>1, <2>1, FS_EmptySet DEF ClosedIsEmpty, ActiveExact
<1>8. QED
  BY <1>1, <1>2, <1>3, <1>4, <1>5, <1>6, <1>7 DEF IInv

\* Nothing happens to the table: goroutines move on.
SameTable ==
  /\ UNCHANGED <<streams, activeStreams, acceptCh, acceptingRemote, closing, closed, acked>>
  /\ acceptor' \in AcceptorType
  /\ \A a \in Acceptors :
       \/ acceptor'[a] = acceptor[a]
       \/ acceptor[a].pc # "queued"
       \/ closed \/ closing \/ ~acceptingRemote
       \/ ~(Present(acceptor[a].id) /\ streams[acceptor[a].id].queued)
  /\ closer' \in CloserType
  /\ \A c \in Closers :
       \/ closer'[c] = closer[c]
       \/ closer'[c].pc = "idle"
       \/ /\ closer'[c].pc = "wait"
          /\ closer'[c].id \in StreamID /\ Present(closer'[c].id)
          /\ streams[closer'[c].id].localClose
          /\ closer'[c].ch = streams[closer'[c].id].ack
  /\ RestTyped'

LEMMA SameTableIInv ==
  ASSUME IInv, SameTable
  PROVE  IInv'
<1>1. TypeOK' /\ InFlight'
  BY DEF IInv, TypeOK, SameTable, CloserType, AcceptorType, RestTyped
<1>2. EntriesSound' /\ ActiveExact' /\ ClosedIsEmpty'
  BY DEF IInv, EntriesSound, ActiveExact, ClosedIsEmpty, SameTable, Present, ActiveIn
<1>3. ClosersSound'
  BY DEF IInv, ClosersSound, EntriesSound, SameTable
<1>4. QueuedIsAcceptable'
  BY DEF IInv, QueuedIsAcceptable, ClosedIsEmpty, SameTable, Present
<1>5. WaiterIsWakeable'
  BY DEF IInv, WaiterIsWakeable, SameTable, Present
<1>6. QED
  BY <1>1, <1>2, <1>3, <1>4, <1>5 DEF IInv

\* One entry is written: a new one, or one that stays as it was but for its
\* conn, the channel of a close that begins, or its being accepted.
EntryWritten(id, e) ==
  /\ id \in StreamID /\ e \in Entry
  /\ streams' = [streams EXCEPT ![id] = e]
  /\ ~closed
  /\ Present(id) =>
       /\ e.queued => streams[id].queued
       /\ streams[id].localClose => e.localClose /\ e.ack = streams[id].ack
  /\ ~Present(id) /\ e.queued /\ ~closing =>
       /\ isRemoteStreamID(id) /\ acceptingRemote
       /\ \E i \in 1 .. Len(acceptCh') : acceptCh'[i] = id
  /\ e.queued => ~e.active
  /\ e.ack # NoChan => e.localClose
  /\ e.localClose /\ ~closing => e.ack # NoChan
  /\ activeStreams' =
       IF e.active /\ ~(Present(id) /\ streams[id].active) THEN activeStreams + 1
                                                            ELSE activeStreams
  /\ Present(id) /\ streams[id].active => e.active
  /\ acceptCh' \in Seq(StreamID) /\ Len(acceptCh') <= AcceptBacklog
  /\ \A i \in 1 .. Len(acceptCh) : i \in 1 .. Len(acceptCh') /\ acceptCh'[i] = acceptCh[i]
  /\ acceptor' \in AcceptorType
  /\ \A a \in Acceptors : \/ acceptor'[a] = acceptor[a]
                          \/ acceptor[a].id = id /\ ~e.queued
  /\ closer' \in CloserType
  /\ \A c \in Closers :
       \/ closer'[c] = closer[c]
       \/ closer'[c].pc = "idle"
       \/ /\ closer'[c].pc = "drain" /\ closer'[c].id \in StreamID
          /\ closer'[c].ch # NoChan
       \/ /\ closer'[c].pc = "wait" /\ closer'[c].id = id
          /\ closer'[c].ch = e.ack /\ e.localClose
  /\ UNCHANGED <<acceptingRemote, closing, closed, acked>>
  /\ RestTyped'

LEMMA EntryWrittenIInv ==
  ASSUME IInv, NEW id, NEW e, EntryWritten(id, e)
  PROVE  IInv'
<1>1. /\ id \in StreamID /\ e \in Entry /\ e # Absent
      /\ streams \in [StreamID -> Entry \union {Absent}]
      /\ streams' \in [StreamID -> Entry \union {Absent}]
      /\ streams'[id] = e
      /\ \A j \in StreamID : j # id => streams'[j] = streams[j]
  BY AbsentIsNoEntry DEF IInv, TypeOK, EntryWritten
<1>2. /\ Present(id)'
      /\ \A j \in StreamID : j # id => (Present(j)' <=> Present(j))
  BY <1>1 DEF Present
<1>3. activeStreams' \in Nat /\ ActiveExact'
  <2> DEFINE A == ActiveIn(StreamID)
  <2>1. IsFiniteSet(A) /\ Cardinality(A) \in Nat /\ activeStreams = Cardinality(A)
    BY ActiveFinite DEF IInv, ActiveExact
  <2>2. id \in A <=> Present(id) /\ streams[id].active
    BY <1>1 DEF ActiveIn
  <2>3. CASE e.active
    <3>1. A' = A \union {id}
      BY <1>1, <1>2, <2>3 DEF ActiveIn
    <3>2. activeStreams' = IF id \in A THEN activeStreams ELSE activeStreams + 1
      BY <2>2, <2>3 DEF EntryWritten
    <3> HIDE DEF A
    <3>3. QED
      BY SMTT(30), <2>1, <3>1, <3>2, FS_AddElement DEF ActiveExact, A
  <2>4. CASE ~e.active
    <3>1. A' = A
      BY <1>1, <1>2, <2>4 DEF ActiveIn, EntryWritten
    <3>2. activeStreams' = activeStreams
      BY <2>4 DEF EntryWritten
    <3>3. QED
      BY <2>1, <3>1, <3>2 DEF ActiveExact
  <2>5. QED
    BY <2>3, <2>4
<1>4. TypeOK' /\ InFlight'
  BY <1>1, <1>3 DEF IInv, TypeOK, EntryWritten, CloserType, AcceptorType, RestTyped
<1>5. EntriesSound'
  BY <1>1, <1>2 DEF IInv, EntriesSound, EntryWritten
<1>6. ClosersSound'
  BY DEF IInv, ClosersSound, EntryWritten
<1>7. QueuedIsAcceptable'
  <2>1. closing' = closing /\ acceptingRemote' = acceptingRemote
    BY DEF EntryWritten
  <2>2. ASSUME NEW j \in StreamID, Present(j)', streams'[j].queued, ~closing
        PROVE  /\ isRemoteStreamID(j) /\ acceptingRemote
               /\ \/ \E i \in 1 .. Len(acceptCh') : acceptCh'[i] = j
                  \/ \E a \in Acceptors : acceptor'[a].pc = "queued" /\ acceptor'[a].id = j
    <3>1. CASE j = id /\ ~Present(id)
      BY <1>1, <2>2, <3>1 DEF EntryWritten
    <3>2. CASE j # id \/ Present(id)
      <4>1. Present(j) /\ streams[j].queued
        BY <1>1, <1>2, <2>2, <3>2 DEF EntryWritten
      <4>2. /\ isRemoteStreamID(j) /\ acceptingRemote
            /\ \/ \E i \in 1 .. Len(acceptCh) : acceptCh[i] = j
               \/ \E a \in Acceptors : acceptor[a].pc = "queued" /\ acceptor[a].id = j
        BY <2>2, <4>1 DEF IInv, QueuedIsAcceptable
      <4>3. \A a \in Acceptors : acceptor[a].id = j => acceptor'[a] = acceptor[a]
        BY <1>1, <2>2 DEF EntryWritten
      <4>4. \A i \in 1 .. Len(acceptCh) : i \in 1 .. Len(acceptCh') /\ acceptCh'[i] = acceptCh[i]
        BY DEF EntryWritten
      <4>5. QED
        BY <4>2, <4>3, <4>4
    <3>3. QED
      BY <3>1, <3>2
  <2>3. QED
    BY <2>1, <2>2 DEF QueuedIsAcceptable
<1>8. WaiterIsWakeable'
  <2>1. closing' = closing /\ acked' = acked
    BY DEF EntryWritten
  <2>2. ASSUME NEW c \in Closers, closer'[c].pc = "wait", ~closing
        PROVE  \/ closer'[c].ch \in acked
               \/ Present(closer[c].id)' /\ streams'[closer'[c].id].ack = closer'[c].ch
    <3>1. CASE closer'[c] = closer[c]
      <4>1. closer[c].id \in StreamID /\ closer[c].ch # NoChan
        BY <2>2, <3>1 DEF IInv, ClosersSound
      <4>2. \/ closer[c].ch \in acked
            \/ Present(closer[c].id) /\ streams[closer[c].id].ack = closer[c].ch
        BY <2>2, <3>1 DEF IInv, WaiterIsWakeable
      <4>3. Present(id) /\ streams[id].ack # NoChan => e.ack = streams[id].ack
        BY <1>1 DEF IInv, EntriesSound, EntryWritten
      <4>4. CASE closer[c].id = id
        BY <1>1, <1>2, <3>1, <4>1, <4>2, <4>3, <4>4 DEF Present
      <4>5. CASE closer[c].id # id
        BY <1>1, <3>1, <4>1, <4>2, <4>5 DEF Present
      <4>6. QED
        BY <4>4, <4>5
    <3>2. CASE closer'[c].id = id /\ closer'[c].ch = e.ack
      BY <1>1, <3>2 DEF Present
    <3>3. QED
      BY <2>2, <3>1, <3>2 DEF EntryWritten
  <2>3. QED
    BY <2>1, <2>2 DEF WaiterIsWakeable
<1>9. ClosedIsEmpty'
  BY DEF ClosedIsEmpty, EntryWritten
<1>10. QED
  BY <1>3, <1>4, <1>5, <1>6, <1>7, <1>8, <1>9 DEF IInv

-----------------------------------------------------------------------------
(* The actions.                                                            *)

\* NewKcpMux.
LEMMA InitIInv == Init => IInv
<1> SUFFICES ASSUME Init PROVE IInv
  OBVIOUS
<1>1. initialLocalStreamID \in StreamID
  BY MuxAssumption DEF initialLocalStreamID, StreamID
<1>2. /\ streams \in [StreamID -> Entry \union {Absent}]
      /\ \A id \in StreamID : ~Present(id)
  BY DEF Init, Present
<1>3. ActiveIn(StreamID) = {} /\ ActiveExact
  BY <1>2, FS_EmptySet DEF ActiveIn, ActiveExact, Init
<1>4. acceptCh \in Seq(StreamID) /\ Len(acceptCh) <= AcceptBacklog
  BY MuxAssumption DEF Init
<1>5. TypeOK
  BY <1>1, <1>2, <1>4, MuxAssumption DEF Init, TypeOK, IdleClose, NoChan
<1>6. InFlight
  BY DEF Init, InFlight, IdleInput, IdleMux, FrameType
<1>7. ClosersSound /\ WaiterIsWakeable
  BY DEF Init, ClosersSound, WaiterIsWakeable, IdleClose
<1>8. EntriesSound /\ QueuedIsAcceptable /\ ClosedIsEmpty
  BY <1>2 DEF EntriesSound, QueuedIsAcceptable, ClosedIsEmpty, Init
<1>9. QED
  BY <1>3, <1>5, <1>6, <1>7, <1>8 DEF IInv

\* The types, as the actions' proofs need them.
LEMMA Types ==
  ASSUME IInv
  PROVE  /\ streams \in [StreamID -> Entry \union {Absent}] /\ Absent \notin Entry
         /\ closer \in CloserType /\ acceptor \in AcceptorType /\ RestTyped
         /\ acceptCh \in Seq(StreamID) /\ Len(acceptCh) <= AcceptBacklog
         /\ Len(acceptCh) \in Nat
BY AbsentIsNoEntry DEF IInv, TypeOK, CloserType, AcceptorType, RestTyped

\* A stream that begins, as it is opened and as it is queued.
LEMMA NewEntry ==
  ASSUME NEW e \in {[newStreamEntry EXCEPT !.active = TRUE],
                    [newStreamEntry EXCEPT !.queued = TRUE]}
  PROVE  /\ e \in Entry /\ ~e.localClose /\ e.ack = NoChan
         /\ e = [newStreamEntry EXCEPT !.active = TRUE] => e.active /\ ~e.queued
         /\ e = [newStreamEntry EXCEPT !.queued = TRUE] => e.queued /\ ~e.active
<1>1. NoChan \in 0 .. MaxChannels
  BY MuxAssumption DEF NoChan
<1>2. newStreamEntry \in Entry
  BY <1>1 DEF newStreamEntry, Entry
<1>3. /\ ~newStreamEntry.active /\ ~newStreamEntry.queued /\ ~newStreamEntry.localClose
      /\ newStreamEntry.ack = NoChan
  BY DEF newStreamEntry
<1>4. QED
  BY <1>2, <1>3 DEF Entry

LEMMA OpenIInv ==
  ASSUME IInv, NEW o \in Openers, OpenStream(o) \/ OpenSent(o) \/ OpenFailed(o)
  PROVE  IInv'
<1>1. CASE OpenStream(o)
  <2> DEFINE id == LocalIdAt(FirstFreeStep)
             e == [newStreamEntry EXCEPT !.active = TRUE]
  <2>1. id \in StreamID /\ ~Present(id) /\ (id + 2) % IdSpace \in StreamID
    BY <1>1, FreshId DEF OpenStream, IInv
  <2>2. e \in Entry /\ e.active /\ ~e.queued /\ ~e.localClose /\ e.ack = NoChan
    BY NewEntry
  <2>3. RestTyped'
    BY <1>1, <2>1, Types DEF OpenStream, RestTyped, InFlight
  <2>4. /\ streams' = [streams EXCEPT ![id] = e]
        /\ activeStreams' = activeStreams + 1 /\ ~closed /\ ~closing
        /\ UNCHANGED <<acceptCh, acceptor, closer, acceptingRemote, closing, closed, acked>>
    BY <1>1 DEF OpenStream, flags
  <2> HIDE DEF id, e
  <2>5. EntryWritten(id, e)
    BY <2>1, <2>2, <2>3, <2>4, Types DEF EntryWritten
  <2>6. QED
    BY <2>5, EntryWrittenIInv
<1>2. CASE OpenSent(o)
  <2>1. SameTable
    BY <1>2, Types DEF OpenSent, flags, SameTable, RestTyped, InFlight
  <2>2. QED
    BY <2>1, SameTableIInv
<1>3. CASE OpenFailed(o)
  <2>1. opener[o] \in StreamID
    BY <1>3, Types DEF OpenFailed, RestTyped
  <2>2. Removal({opener[o]})
    BY <1>3, <2>1, Types DEF OpenFailed, flags, Removal, RestTyped, InFlight, ClosersKept
  <2>3. QED
    BY <2>2, RemovalIInv
<1>4. QED
  BY <1>1, <1>2, <1>3

LEMMA AcceptIInv ==
  ASSUME IInv, NEW a \in Acceptors,
         AcceptCall(a) \/ AcceptReceive(a) \/ AcceptStopped(a) \/ AcceptQueued(a)
  PROVE  IInv'
<1>1. CASE AcceptCall(a) \/ AcceptStopped(a)
  <2>1. /\ acceptor' \in AcceptorType
        /\ acceptor[a].pc # "queued" /\ acceptor'[a].pc # "queued"
        /\ \A b \in Acceptors : b # a => acceptor'[b] = acceptor[b]
    BY <1>1, Types DEF AcceptCall, AcceptStopped, AcceptorType
  <2>2. SameTable
    BY <1>1, <2>1, Types
    DEF AcceptCall, AcceptStopped, flags, SameTable, RestTyped, InFlight, AcceptorType
  <2>3. QED
    BY <2>2, SameTableIInv
<1>2. CASE AcceptReceive(a)
  <2> DEFINE first == Head(acceptCh)
  <2>1. /\ first \in StreamID /\ acceptCh' \in Seq(StreamID)
        /\ Len(acceptCh') = Len(acceptCh) - 1
        /\ \A i \in 1 .. Len(acceptCh) :
             \/ acceptCh[i] = first
             \/ i - 1 \in 1 .. Len(acceptCh') /\ acceptCh'[i - 1] = acceptCh[i]
    <3>1. acceptCh \in Seq(StreamID) /\ acceptCh # << >> /\ acceptCh' = Tail(acceptCh)
      BY <1>2, Types DEF AcceptReceive
    <3>2. /\ Head(acceptCh) \in StreamID /\ Tail(acceptCh) \in Seq(StreamID)
          /\ Len(Tail(acceptCh)) = Len(acceptCh) - 1
          /\ \A i \in 1 .. Len(Tail(acceptCh)) : Tail(acceptCh)[i] = acceptCh[i + 1]
          /\ Head(acceptCh) = acceptCh[1]
      BY <3>1, HeadTailProperties
    <3>3. QED
      BY <3>1, <3>2, Types
  <2>2. /\ acceptor' = [acceptor EXCEPT ![a] = [pc |-> "queued", id |-> first]]
        /\ acceptor[a].pc = "select"
        /\ UNCHANGED <<streams, nextLocalStreamID, activeStreams, flags, opener, closer,
                       input, stopper, muxCloser, acked, channels, opens>>
    BY <1>2 DEF AcceptReceive
  <2> HIDE DEF first
  <2>3. acceptor' \in AcceptorType /\ acceptor'[a].id = first
        /\ \A b \in Acceptors : b # a => acceptor'[b] = acceptor[b]
    BY <2>1, <2>2, Types DEF AcceptorType
  <2>7. TypeOK'
    <3>1. Len(acceptCh') <= AcceptBacklog
      BY <2>1, Types, MuxAssumption
    <3>2. QED
      BY <2>1, <2>2, <2>3, <3>1, Types DEF IInv, TypeOK, AcceptorType
  <2>8. InFlight'
    BY <2>1, <2>2, <2>3 DEF IInv, InFlight, flags
  <2>4. EntriesSound' /\ ActiveExact' /\ ClosedIsEmpty' /\ ClosersSound' /\ WaiterIsWakeable'
    BY <2>2 DEF IInv, EntriesSound, ActiveExact, ClosedIsEmpty, ClosersSound,
                WaiterIsWakeable, Present, ActiveIn, flags
  <2>5. QueuedIsAcceptable'
    <3>1. ASSUME NEW id \in StreamID, Present(id), streams[id].queued, ~closing
          PROVE  \/ \E i \in 1 .. Len(acceptCh') : acceptCh'[i] = id
                 \/ \E b \in Acceptors : acceptor'[b].pc = "queued" /\ acceptor'[b].id = id
      <4>1. CASE \E i \in 1 .. Len(acceptCh) : acceptCh[i] = id
        BY <2>1, <2>2, <4>1, Types DEF AcceptorType
      <4>2. CASE \E b \in Acceptors : acceptor[b].pc = "queued" /\ acceptor[b].id = id
        BY <2>2, <4>2, Types DEF AcceptorType
      <4>3. QED
        BY <3>1, <4>1, <4>2 DEF IInv, QueuedIsAcceptable
    <3>2. QED
      BY <2>2, <3>1 DEF IInv, QueuedIsAcceptable, Present, flags
  <2>6. QED
    BY <2>4, <2>5, <2>7, <2>8 DEF IInv
<1>3. CASE AcceptQueued(a)
  <2> DEFINE id == acceptor[a].id
             e == [streams[id] EXCEPT !.queued = FALSE, !.active = TRUE]
  <2>1. /\ acceptor[a].pc = "queued"
        /\ UNCHANGED <<nextLocalStreamID, acceptCh, flags, opener, closer, input, stopper,
                       muxCloser, acked, channels, opens>>
    BY <1>3 DEF AcceptQueued
  <2>2. acceptor' \in AcceptorType /\ acceptor'[a].pc # "queued"
    BY <1>3, Types DEF AcceptQueued, AcceptorType
  <2>3. \A b \in Acceptors : b # a => acceptor'[b] = acceptor[b]
    BY <1>3, Types DEF AcceptQueued, AcceptorType
  <2>4. RestTyped'
    BY <2>1, <2>2, <2>3, Types DEF RestTyped, InFlight, flags
  <2>5. CASE ~closed /\ ~closing /\ acceptingRemote /\ Present(id) /\ streams[id].queued
    <3>1. id \in StreamID /\ streams[id] \in Entry
      BY <2>1, <2>5, Types DEF IInv, InFlight, Present
    <3>2. ~streams[id].active
      BY <2>5, <3>1 DEF IInv, EntriesSound
    <3>3. /\ streams' = [streams EXCEPT ![id] = e]
          /\ activeStreams' = activeStreams + 1
      BY <1>3, <2>5 DEF AcceptQueued
    <3>4. /\ e \in Entry /\ ~e.queued /\ e.active
          /\ e.localClose = streams[id].localClose /\ e.ack = streams[id].ack
      BY <3>1 DEF Entry
    <3>5. /\ e.ack # NoChan => e.localClose
          /\ e.localClose /\ ~closing => e.ack # NoChan
      BY <2>5, <3>1, <3>4 DEF IInv, EntriesSound
    <3> HIDE DEF e
    <3>6. EntryWritten(id, e)
      BY <2>1, <2>2, <2>3, <2>4, <2>5, <3>1, <3>2, <3>3, <3>4, <3>5, Types
      DEF EntryWritten, flags
    <3>7. QED
      BY <3>6, EntryWrittenIInv
  <2>6. CASE ~(~closed /\ ~closing /\ acceptingRemote /\ Present(id) /\ streams[id].queued)
    <3>1. UNCHANGED <<streams, activeStreams>>
      BY <1>3, <2>6 DEF AcceptQueued
    <3>2. SameTable
      BY <2>1, <2>2, <2>3, <2>4, <2>6, <3>1, Types DEF SameTable, flags
    <3>3. QED
      BY <3>2, SameTableIInv
  <2>7. QED
    BY <2>5, <2>6
<1>4. QED
  BY <1>1, <1>2, <1>3

LEMMA IdleCloseType ==
  /\ IdleClose \in [pc : {"idle", "drain", "wait"}, id : StreamID \union {NoId},
                    ch : 0 .. MaxChannels]
  /\ IdleClose.pc = "idle"
BY MuxAssumption DEF IdleClose, NoChan

LEMMA CloserIInv ==
  ASSUME IInv, NEW c \in Closers,
         \/ \E id \in StreamID : CloseStream(c, id)
         \/ CloseDrain(c) \/ CloseAcked(c) \/ CloseTimeout(c)
  PROVE  IInv'
<1>1. ASSUME NEW id \in StreamID, CloseStream(c, id)
      PROVE  IInv'
  <2>1. /\ ~closed /\ Present(id) /\ streams[id] \in Entry
        /\ UNCHANGED <<nextLocalStreamID, activeStreams, acceptCh, flags, opener, acceptor,
                       input, stopper, muxCloser, acked, opens>>
    BY <1>1, Types DEF CloseStream, Present
  <2>2. streams[id].ack \in 0 .. MaxChannels
    BY <2>1 DEF Entry
  <2>3. CASE streams[id].localClose
    <3>1. /\ closer' = [closer EXCEPT ![c] = [pc |-> "wait", id |-> id,
                                              ch |-> streams[id].ack]]
          /\ UNCHANGED <<streams, channels>>
      BY <1>1, <2>3 DEF CloseStream
    <3>2. closer' \in CloserType
      BY <2>2, <3>1, Types DEF CloserType
    <3>3. SameTable
      BY <2>1, <2>3, <3>1, <3>2, Types DEF SameTable, flags, RestTyped, InFlight, CloserType
    <3>4. QED
      BY <3>3, SameTableIInv
  <2>4. CASE ~streams[id].localClose
    <3> DEFINE n == channels + 1
               e == [streams[id] EXCEPT !.localClose = TRUE, !.ack = n]
    <3>1. /\ channels < MaxChannels /\ channels' = n
          /\ streams' = [streams EXCEPT ![id] = e]
          /\ closer' = [closer EXCEPT ![c] = [pc |-> "drain", id |-> id, ch |-> n]]
      BY <1>1, <2>4, Types DEF CloseStream
    <3>2. n \in 0 .. MaxChannels /\ n # NoChan
      BY <3>1, Types, MuxAssumption DEF RestTyped, NoChan
    <3> HIDE DEF n
    <3>3. /\ e \in Entry /\ e.localClose /\ e.ack = n
          /\ e.queued = streams[id].queued /\ e.active = streams[id].active
      BY <2>1, <3>2 DEF Entry
    <3> HIDE DEF e
    <3>4. closer' \in CloserType /\ closer'[c] = [pc |-> "drain", id |-> id, ch |-> n]
          /\ \A d \in Closers : d # c => closer'[d] = closer[d]
      BY <3>1, <3>2, Types DEF CloserType
    <3>5. RestTyped'
      BY <2>1, <3>1, <3>2, Types DEF RestTyped, InFlight, flags
    <3>6. e.queued => ~e.active
      BY <2>1, <3>3 DEF IInv, EntriesSound
    <3>7. EntryWritten(id, e)
      BY <2>1, <2>4, <3>1, <3>2, <3>3, <3>4, <3>5, <3>6, Types DEF EntryWritten, flags
    <3>8. QED
      BY <3>7, EntryWrittenIInv
  <2>5. QED
    BY <2>3, <2>4
<1>2. CASE CloseDrain(c)
  <2> DEFINE id == closer[c].id
             e == [streams[id] EXCEPT !.open = FALSE]
  <2>1. /\ closer[c].pc = "drain" /\ id \in StreamID /\ closer[c].ch # NoChan
        /\ UNCHANGED <<nextLocalStreamID, activeStreams, acceptCh, flags, opener, acceptor,
                       input, stopper, muxCloser, acked, channels, opens>>
    BY <1>2 DEF CloseDrain, IInv, ClosersSound
  <2>2. RestTyped'
    BY <2>1, Types DEF RestTyped, InFlight, flags
  <2>3. /\ closer' \in CloserType
        /\ \A d \in Closers : d # c => closer'[d] = closer[d]
    <3>1. \/ closer' = [closer EXCEPT ![c].pc = "wait"]
          \/ closer' = [closer EXCEPT ![c] = IdleClose]
      BY <1>2, <2>1 DEF CloseDrain
    <3>2. CASE closer' = [closer EXCEPT ![c].pc = "wait"]
      BY <3>2, Types DEF CloserType
    <3>3. CASE closer' = [closer EXCEPT ![c] = IdleClose]
      BY <3>3, Types, IdleCloseType DEF CloserType
    <3>4. QED
      BY <3>1, <3>2, <3>3
  <2>4. CASE DrainOk(id, closer[c].ch)
    <3>1. /\ Present(id) /\ streams[id] \in Entry /\ ~closed
          /\ streams[id].ack = closer[c].ch /\ streams[id].localClose
      BY <2>1, <2>4, Types DEF DrainOk, Present, IInv, EntriesSound, ClosedIsEmpty
    <3>2. /\ streams' = [streams EXCEPT ![id] = e]
          /\ closer'[c].pc = "idle" \/ closer'[c] = [closer[c] EXCEPT !.pc = "wait"]
      BY SMTT(30), <1>2, <2>1, <2>4, Types DEF CloseDrain, CloserType, IdleClose
    <3>3. /\ e \in Entry /\ e.localClose = streams[id].localClose
          /\ e.ack = streams[id].ack
          /\ e.queued = streams[id].queued /\ e.active = streams[id].active
      BY <3>1 DEF Entry
    <3>4. e.queued => ~e.active
      BY <2>1, <3>1, <3>3 DEF IInv, EntriesSound
    <3>5. \/ closer'[c].pc = "idle"
          \/ closer'[c].pc = "wait" /\ closer'[c].id = id /\ closer'[c].ch = e.ack
      BY <3>1, <3>2, <3>3, Types DEF CloserType
    <3> HIDE DEF e, id
    <3>6. EntryWritten(id, e)
      BY <2>1, <2>2, <2>3, <3>1, <3>2, <3>3, <3>4, <3>5, Types DEF EntryWritten, flags
    <3>7. QED
      BY <3>6, EntryWrittenIInv
  <2>5. CASE ~DrainOk(id, closer[c].ch)
    <3>1. streams' = streams /\ closer'[c].pc = "idle"
      BY <1>2, <2>5, Types DEF CloseDrain, CloserType, IdleClose
    <3>2. SameTable
      BY <2>1, <2>2, <2>3, <3>1, Types DEF SameTable, flags
    <3>3. QED
      BY <3>2, SameTableIInv
  <2>6. QED
    BY <2>4, <2>5
<1>3. CASE CloseAcked(c)
  <2>1. /\ closer' \in CloserType /\ closer'[c].pc = "idle"
        /\ \A d \in Closers : d # c => closer'[d] = closer[d]
    BY <1>3, Types, MuxAssumption DEF CloseAcked, CloserType, IdleClose, NoChan
  <2>2. SameTable
    BY <1>3, <2>1, Types DEF CloseAcked, SameTable, flags, RestTyped, InFlight
  <2>3. QED
    BY <2>2, SameTableIInv
<1>4. CASE CloseTimeout(c)
  <2>1. closer[c].id \in StreamID
    BY <1>4 DEF CloseTimeout, IInv, ClosersSound
  <2>2. /\ closer' \in CloserType /\ closer'[c].pc = "idle"
        /\ \A d \in Closers : d # c => closer'[d] = closer[d]
    BY <1>4, Types, MuxAssumption DEF CloseTimeout, CloserType, IdleClose, NoChan
  <2>3. Removal({closer[c].id})
    BY <1>4, <2>1, <2>2, Types DEF CloseTimeout, Removal, flags, RestTyped, InFlight, ClosersKept
  <2>4. QED
    BY <2>3, RemovalIInv
<1>5. QED
  BY <1>1, <1>2, <1>3, <1>4

LEMMA TimerIInv ==
  ASSUME IInv, NEW id \in StreamID, IdleTimeout(id) \/ ConnTimeout(id)
  PROVE  IInv'
<1>1. CASE IdleTimeout(id)
  <2>1. Removal({id})
    BY <1>1, Types DEF IdleTimeout, Removal, flags, RestTyped, InFlight, ClosersKept
  <2>2. QED
    BY <2>1, RemovalIInv
<1>2. CASE ConnTimeout(id)
  <2> DEFINE e == [streams[id] EXCEPT !.open = FALSE]
  <2>1. /\ Present(id) /\ streams[id] \in Entry /\ ~closed
        /\ streams' = [streams EXCEPT ![id] = e]
        /\ UNCHANGED <<nextLocalStreamID, activeStreams, acceptCh, flags, opener, acceptor,
                       closer, input, stopper, muxCloser, acked, channels, opens>>
    BY <1>2, Types DEF ConnTimeout, Present, IInv, ClosedIsEmpty
  <2>2. /\ e \in Entry /\ e.localClose = streams[id].localClose
        /\ e.ack = streams[id].ack
        /\ e.queued = streams[id].queued /\ e.active = streams[id].active
    BY <2>1 DEF Entry
  <2> HIDE DEF e
  <2>3. RestTyped'
    BY <2>1, Types DEF RestTyped, InFlight, flags
  <2>4. EntryWritten(id, e)
    BY <2>1, <2>2, <2>3, Types DEF EntryWritten, flags, IInv, EntriesSound
  <2>5. QED
    BY <2>4, EntryWrittenIInv
<1>3. QED
  BY <1>1, <1>2

\* handleOpen, for an id of the peer's: refused, or one entry is queued.
LEMMA HandleOpenIInv ==
  ASSUME IInv, NEW id \in StreamID, HandleOpen(id), isRemoteStreamID(id),
         UNCHANGED <<activeStreams, acceptor, closer, acceptingRemote, closing, closed, acked>>,
         RestTyped'
  PROVE  IInv'
<1>1. CASE UNCHANGED <<streams, acceptCh>>
  <2>1. SameTable
    BY <1>1, Types DEF SameTable
  <2>2. QED
    BY <2>1, SameTableIInv
<1>2. CASE ~UNCHANGED <<streams, acceptCh>>
  <2> DEFINE e == [newStreamEntry EXCEPT !.queued = TRUE]
  <2>1. /\ ~closed /\ ~closing /\ acceptingRemote /\ ~Present(id)
        /\ Len(acceptCh) < AcceptBacklog
        /\ streams' = [streams EXCEPT ![id] = e]
        /\ acceptCh' = Append(acceptCh, id)
    BY <1>2, Types, MuxAssumption DEF HandleOpen
  <2>2. e \in Entry /\ e.queued /\ ~e.active /\ ~e.localClose /\ e.ack = NoChan
    BY NewEntry
  <2>3. /\ acceptCh' \in Seq(StreamID) /\ Len(acceptCh') = Len(acceptCh) + 1
        /\ \A i \in 1 .. Len(acceptCh) : acceptCh'[i] = acceptCh[i]
        /\ acceptCh'[Len(acceptCh) + 1] = id
    BY <2>1, Types, AppendProperties
  <2>4. /\ Len(acceptCh') <= AcceptBacklog
        /\ \A i \in 1 .. Len(acceptCh) : i \in 1 .. Len(acceptCh')
        /\ Len(acceptCh) + 1 \in 1 .. Len(acceptCh')
    BY <2>1, <2>3, Types, MuxAssumption
  <2> HIDE DEF e
  <2>5. EntryWritten(id, e)
    BY <2>1, <2>2, <2>3, <2>4, Types DEF EntryWritten
  <2>6. QED
    BY <2>5, EntryWrittenIInv
<1>3. QED
  BY <1>1, <1>2

LEMMA InputIInv ==
  ASSUME IInv,
         \/ \E id \in StreamID, type \in FrameType : InputLookup(id, type)
         \/ InputApply
  PROVE  IInv'
<1>1. ASSUME NEW id \in StreamID, NEW type \in FrameType, InputLookup(id, type)
      PROVE  IInv'
  <2>1. RestTyped'
    <3>1. Present(id) \in BOOLEAN
      BY DEF Present
    <3>2. QED
      BY <1>1, <3>1, Types DEF InputLookup, RestTyped, InFlight, flags
  <2>2. SameTable
    BY <1>1, <2>1, Types DEF InputLookup, SameTable, flags
  <2>3. QED
    BY <2>2, SameTableIInv
<1>2. CASE InputApply
  <2> DEFINE id == input.id
  <2>1. /\ id \in StreamID /\ input' = IdleInput
        /\ UNCHANGED <<nextLocalStreamID, flags, opener, acceptor, closer, stopper,
                       muxCloser, channels, opens>>
    BY <1>2 DEF InputApply, IInv, InFlight
  <2>2. RestTyped'
    BY <2>1, Types DEF RestTyped, InFlight, flags, IdleInput, FrameType
  <2> HIDE DEF id
  <2>3. CASE Remove({id}) /\ UNCHANGED acceptCh
    <3>1. Removal({id})
      BY <2>1, <2>2, <2>3, Types DEF Removal, flags, ClosersKept
    <3>2. QED
      BY <3>1, RemovalIInv
  <2>4. CASE UNCHANGED <<streams, activeStreams, acked, acceptCh>>
    <3>1. SameTable
      BY <2>1, <2>2, <2>4, Types DEF SameTable, flags
    <3>2. QED
      BY <3>1, SameTableIInv
  <2>5. CASE HandleOpen(id) /\ isRemoteStreamID(id) /\ UNCHANGED <<activeStreams, acked>>
    BY <2>1, <2>2, <2>5, HandleOpenIInv DEF flags
  <2>6. QED
    BY <1>2, <2>3, <2>4, <2>5
    DEF InputApply, InputClose, InputOpen, InputInvalid, InputData, id
<1>3. QED
  BY <1>1, <1>2

\* StopAccepting and Close.
LEMMA StopIInv ==
  ASSUME IInv,
         \/ StopAccepting \/ StopAcceptingSignal
         \/ Close \/ CloseEachStream \/ CloseFinish
  PROVE  IInv'
<1>1. CASE StopAccepting
  <2>1. QueuedOnly \subseteq StreamID
    BY DEF QueuedOnly
  <2>2. Removal(QueuedOnly)
    BY <1>1, <2>1, Types DEF StopAccepting, Removal, ClosersKept, RestTyped, InFlight
  <2>3. QED
    BY <2>2, RemovalIInv
<1>2. CASE StopAcceptingSignal
  <2>1. SameTable
    BY <1>2, Types DEF StopAcceptingSignal, SameTable, RestTyped, InFlight
  <2>2. QED
    BY <2>1, SameTableIInv
<1>3. CASE Close
  <2>1. TypeOK' /\ InFlight'
    BY <1>3 DEF Close, IInv, TypeOK, InFlight
  <2>2. EntriesSound' /\ ClosersSound' /\ ActiveExact' /\ ClosedIsEmpty'
    BY <1>3 DEF Close, IInv, EntriesSound, ClosersSound, ActiveExact, ClosedIsEmpty,
                Present, ActiveIn
  <2>3. QueuedIsAcceptable' /\ WaiterIsWakeable'
    BY <1>3 DEF Close, QueuedIsAcceptable, WaiterIsWakeable
  <2>4. QED
    BY <2>1, <2>2, <2>3 DEF IInv
<1>4. CASE CloseEachStream
  <2>1. PICK id \in muxCloser.todo :
          /\ muxCloser' = [muxCloser EXCEPT !.todo = @ \ {id}]
          /\ streams' = IF Present(id)
                          THEN [streams EXCEPT ![id].localClose = TRUE, ![id].open = FALSE]
                          ELSE streams
    BY <1>4 DEF CloseEachStream
  <2>2. /\ id \in StreamID /\ closing
        /\ UNCHANGED <<nextLocalStreamID, activeStreams, acceptCh, flags, opener, acceptor,
                       closer, input, stopper, acked, channels, opens>>
    BY <1>4, <2>1 DEF CloseEachStream, IInv, InFlight
  <2>3. RestTyped'
    BY <2>1, <2>2, Types DEF RestTyped, InFlight, flags
  <2>4. CASE Present(id)
    <3> DEFINE e == [streams[id] EXCEPT !.localClose = TRUE, !.open = FALSE]
    <3>1. /\ streams[id] \in Entry /\ ~closed /\ streams' = [streams EXCEPT ![id] = e]
      BY <2>1, <2>2, <2>4, Types DEF Present, IInv, ClosedIsEmpty
    <3>2. /\ e \in Entry /\ e.localClose /\ e.ack = streams[id].ack
          /\ e.queued = streams[id].queued /\ e.active = streams[id].active
      BY <3>1 DEF Entry
    <3>3. e.queued => ~e.active
      BY <2>2, <2>4, <3>2 DEF IInv, EntriesSound
    <3> HIDE DEF e
    <3>4. EntryWritten(id, e)
      BY <2>2, <2>3, <2>4, <3>1, <3>2, <3>3, Types DEF EntryWritten, flags
    <3>5. QED
      BY <3>4, EntryWrittenIInv
  <2>5. CASE ~Present(id)
    <3>1. SameTable
      BY <2>1, <2>2, <2>3, <2>5, Types DEF SameTable, flags
    <3>2. QED
      BY <3>1, SameTableIInv
  <2>6. QED
    BY <2>4, <2>5
<1>5. CASE CloseFinish
  <2> DEFINE S == {id \in StreamID : Present(id)}
  <2>1. S \subseteq StreamID /\ \A id \in StreamID : Present(id) => id \in S
    OBVIOUS
  <2>2. Remove(S)
    BY <1>5 DEF CloseFinish
  <2> HIDE DEF S
  <2>3. Removal(S)
    BY <1>5, <2>1, <2>2, Types DEF CloseFinish, Removal, ClosersKept, RestTyped, InFlight
  <2>4. QED
    BY <2>3, RemovalIInv
<1>6. QED
  BY <1>1, <1>2, <1>3, <1>4, <1>5

LEMMA StepIInv == IInv /\ [Next]_vars => IInv'
<1> SUFFICES ASSUME IInv, [Next]_vars
             PROVE  IInv'
  OBVIOUS
<1>1. CASE Next
  BY <1>1, OpenIInv, AcceptIInv, CloserIInv, TimerIInv, InputIInv, StopIInv DEF Next
<1>2. CASE UNCHANGED vars
  <2>1. SameTable
    BY <1>2, Types DEF vars, SameTable, RestTyped, InFlight
  <2>2. QED
    BY <2>1, SameTableIInv
<1>3. QED
  BY <1>1, <1>2

LEMMA SpecIInv == Spec => []IInv
BY InitIInv, StepIInv, PTL DEF Spec

-----------------------------------------------------------------------------
(* The theorems.                                                           *)

\* The table, the queue, the counters and the goroutines' progress keep their
\* types: nextLocalStreamID stays in uint32, the queue within its capacity.
THEOREM TypeCorrect == Spec => []TypeOK
<1>1. IInv => TypeOK
  BY DEF IInv
<1>2. QED
  BY SpecIInv, <1>1, PTL

\* m.activeStreams counts the active entries of m.streams, whoever opens,
\* accepts, closes, times out or receives at once: admission by the counter is
\* admission by the streams there are.
THEOREM CounterIsExact == Spec => []ActiveExact
<1>1. IInv => ActiveExact
  BY DEF IInv
<1>2. QED
  BY SpecIInv, <1>1, PTL

\* A queued stream has its id on acceptCh or in the hands of an Accept call, and
\* none is left behind by StopAccepting.
THEOREM QueuedStreamsAcceptable == Spec => []QueuedIsAcceptable
<1>1. IInv => QueuedIsAcceptable
  BY DEF IInv
<1>2. QED
  BY SpecIInv, <1>1, PTL

\* A closeStream that waits in waitForCloseAck has a channel that is closed or
\* that removeStreamLocked will close with the stream.
THEOREM WaitersWakeable == Spec => []WaiterIsWakeable
<1>1. IInv => WaiterIsWakeable
  BY DEF IInv
<1>2. QED
  BY SpecIInv, <1>1, PTL

\* After KcpMux.Close nothing is in the table and nothing is counted, and no Open,
\* Accept or frame that was under way puts anything there.
THEOREM ClosedMuxEmpty == Spec => []ClosedIsEmpty
<1>1. IInv => ClosedIsEmpty
  BY DEF IInv
<1>2. QED
  BY SpecIInv, <1>1, PTL

=============================================================================
