-------------------------- MODULE PeerServingProofs --------------------------
(***************************************************************************)
(* Proofs about PeerServing, for every number of services, of dialing and  *)
(* refreshing goroutines, of events queued and of generations, Conns and   *)
(* runs.                                                                    *)
(*                                                                         *)
(* The inductive invariant has three parts: types of everything (Typed),   *)
(* the listener's table and its lock (TableInv), and the generations       *)
(* (GenInv).                                                                *)
(***************************************************************************)
EXTENDS PeerServing, SequenceTheorems, TLAPS

-----------------------------------------------------------------------------
(* The invariant.                                                          *)

RunPc   == {"ensure", "up", "serving", "close", "closeMux", "closeEnd", "done"}
RunType == [pc : RunPc, conn : ConnId, gen : 0 .. MaxGens]
LoopPc  == {"accept", "smux", "stop", "blocked", "stopService", "refresh", "stopRefresh",
            "emit", "stopEmit", "assign", "stopAssign", "close", "closeMux", "closeEnd",
            "done"}
HasGen  == {"emit", "stopEmit", "assign", "stopAssign", "stopService"}
CallPc  == {"idle", "dial", "down", "connect", "connecting", "failed", "wait",
            "connected", "mux", "emit", "use"}

NetTyped ==
  /\ peer \in [session : BOOLEAN, state : PeerState, mux : 0 .. MaxGens]
  /\ gens \in Seq(BOOLEAN) /\ Len(gens) <= MaxGens
  /\ stopped \subseteq Gen \X Loops

LsnTyped ==
  /\ conns \in Seq([smux : Gen, closed : BOOLEAN]) /\ Len(conns) <= MaxConns
  /\ established \in 0 .. Len(conns)
  /\ lmu \in BOOLEAN

EventsTyped == events \in Seq(PeerState) /\ Len(events) <= EventCap

OnlineTyped == online \in 0 .. Len(conns)

RxTyped == rx \in [pc : {"idle", "emit", "close", "offline"}, gen : 0 .. MaxGens]

AcceptorTyped ==
  /\ acceptor \in [pc : {"select", "check", "mux", "emit", "insert"}, gen : 0 .. MaxGens]
  /\ acceptor.pc \in {"emit", "insert"} => acceptor.gen \in Gen

\* A refresh that gets as far as a mux does it for a Conn.
ClientTyped ==
  /\ client \in [Client -> [pc : CallPc, conn : 0 .. MaxConns, gen : 0 .. MaxGens]]
  /\ \A p \in Client :
       /\ client[p].conn \in 0 .. Len(conns)
       /\ client[p].pc \in {"emit", "use"} => client[p].gen \in Gen
       /\ p \in Manager /\ client[p].pc \notin {"idle", "dial", "down"} => client[p].conn # 0

RunsTyped ==
  /\ runs \in Seq(RunType) /\ Len(runs) <= MaxRuns
  /\ \A r \in 1 .. Len(runs) : runs[r].conn \in 1 .. Len(conns)

LoopTyped ==
  /\ loop \in [RunId -> [Loops -> [pc : LoopPc, gen : 0 .. MaxGens]]]
  /\ \A r \in RunId, l \in Loops :
       loop[r][l].pc \in HasGen => loop[r][l].gen \in Gen

Typed == /\ NetTyped /\ LsnTyped /\ EventsTyped /\ OnlineTyped /\ RxTyped
         /\ AcceptorTyped /\ ClientTyped /\ RunsTyped /\ LoopTyped

\* Who holds the listener's lock: a run, or one of its loops, between the two
\* halves of Conn.Close.
InClose      == {"closeMux", "closeEnd"}
RunHolds(r)  == runs[r].pc \in InClose
LoopHolds(r, l) == loop[r][l].pc \in InClose

\* A Conn that is not closed is the one in the table; the table's Conn is closed
\* only while somebody who is closing it holds the lock, and only one does.
TableInv ==
  /\ \A c \in 1 .. Len(conns) : ~conns[c].closed => established = c
  /\ established # 0 /\ conns[established].closed => lmu
  /\ \A r \in 1 .. Len(runs) :
       RunHolds(r) => lmu /\ established = runs[r].conn /\ conns[established].closed
  /\ \A r \in RunId, l \in Loops :
       LoopHolds(r, l) => /\ r \in 1 .. Len(runs) /\ runs[r].pc = "serving"
                          /\ lmu /\ established = runs[r].conn /\ conns[established].closed
  /\ \A r, q \in 1 .. Len(runs) : RunHolds(r) /\ RunHolds(q) => r = q
  /\ \A r \in 1 .. Len(runs), q \in RunId, l \in Loops : ~(RunHolds(r) /\ LoopHolds(q, l))
  /\ \A r, q \in RunId, l, m \in Loops : LoopHolds(r, l) /\ LoopHolds(q, m) => r = q /\ l = m

\* An open generation is current or about to be closed.
GenInv == /\ peer.state = "offline" => peer.mux = 0
          /\ ForgottenGensClosed

IInv == Typed /\ TableInv /\ GenInv

-----------------------------------------------------------------------------
(* Sequences and frames.                                                   *)

\* What Append does to a sequence and to its indices.
LEMMA AppendFacts ==
  ASSUME NEW S, NEW seq \in Seq(S), NEW e \in S
  PROVE  /\ Len(seq) \in Nat /\ Len(Append(seq, e)) = Len(seq) + 1
         /\ Append(seq, e) \in Seq(S)
         /\ 1 .. Len(Append(seq, e)) = (1 .. Len(seq)) \union {Len(seq) + 1}
         /\ \A i \in 1 .. Len(seq) : Append(seq, e)[i] = seq[i] /\ i # Len(seq) + 1
         /\ Append(seq, e)[Len(seq) + 1] = e
<1>1. /\ Len(seq) \in Nat /\ Len(Append(seq, e)) = Len(seq) + 1
      /\ Append(seq, e) \in Seq(S)
      /\ \A i \in 1 .. Len(seq) : Append(seq, e)[i] = seq[i]
      /\ Append(seq, e)[Len(seq) + 1] = e
  BY AppendProperties, LenProperties
<1>2. QED
  BY <1>1

\* What an update does to a sequence, of an element or of none.
LEMMA UpdateFacts ==
  ASSUME NEW S, NEW seq \in Seq(S), NEW i, NEW e \in S
  PROVE  /\ [seq EXCEPT ![i] = e] \in Seq(S)
         /\ Len([seq EXCEPT ![i] = e]) = Len(seq)
         /\ i \in 1 .. Len(seq) => [seq EXCEPT ![i] = e][i] = e
         /\ \A j \in 1 .. Len(seq) : j # i => [seq EXCEPT ![i] = e][j] = seq[j]
<1>1. CASE i \in 1 .. Len(seq)
  BY <1>1, ExceptSeq
<1>2. CASE i \notin 1 .. Len(seq)
  <2>1. [seq EXCEPT ![i] = e] = seq
    BY <1>2, LenProperties
  <2>2. QED
    BY <1>2, <2>1
<1>3. QED
  BY <1>1, <1>2

\* What a step leaves alone keeps its type; Conns are never taken away.
LEMMA Frames ==
  ASSUME Typed
  PROVE  /\ UNCHANGED net => NetTyped'
         /\ UNCHANGED lsn => LsnTyped'
         /\ UNCHANGED events => EventsTyped'
         /\ UNCHANGED rx => RxTyped'
         /\ UNCHANGED acceptor => AcceptorTyped'
         /\ UNCHANGED loop => LoopTyped'
         /\ Len(conns') \in Nat /\ Len(conns') >= Len(conns) =>
              /\ UNCHANGED online => OnlineTyped'
              /\ UNCHANGED client => ClientTyped'
              /\ UNCHANGED runs => RunsTyped'
         /\ UNCHANGED conns => Len(conns') \in Nat /\ Len(conns') >= Len(conns)
<1>1. Len(conns) \in Nat
  BY LenProperties DEF Typed, LsnTyped
<1>2. /\ UNCHANGED net => NetTyped'
      /\ UNCHANGED lsn => LsnTyped'
      /\ UNCHANGED events => EventsTyped'
      /\ UNCHANGED rx => RxTyped'
      /\ UNCHANGED acceptor => AcceptorTyped'
      /\ UNCHANGED loop => LoopTyped'
  BY DEF Typed, net, lsn, NetTyped, LsnTyped, EventsTyped, RxTyped, AcceptorTyped, LoopTyped, HasGen
<1>3. ASSUME Len(conns') \in Nat, Len(conns') >= Len(conns)
      PROVE  /\ UNCHANGED online => OnlineTyped'
             /\ UNCHANGED client => ClientTyped'
             /\ UNCHANGED runs => RunsTyped'
  BY <1>1, <1>3 DEF Typed, OnlineTyped, ClientTyped, RunsTyped
<1>4. QED
  BY <1>1, <1>2, <1>3

\* emitPeerEvent queues an event or drops it, and may mark the peer down.
LEMMA EmitFacts ==
  ASSUME Typed, NEW state \in PeerState, Emit(state), UNCHANGED conns
  PROVE  EventsTyped' /\ OnlineTyped'
<1>1. EventsTyped'
  <2>1. /\ Append(events, state) \in Seq(PeerState) /\ Len(events) \in Nat
        /\ Len(Append(events, state)) = Len(events) + 1
    BY AppendFacts DEF Typed, EventsTyped
  <2>2. QED
    BY <2>1, ServingAssumption DEF Emit, Typed, EventsTyped
<1>2. OnlineTyped'
  <2>1. Len(conns) \in Nat
    BY LenProperties DEF Typed, LsnTyped
  <2>2. QED
    BY <2>1 DEF Emit, Typed, OnlineTyped
<1>3. QED
  BY <1>1, <1>2

-----------------------------------------------------------------------------
(* Steps that touch neither the table nor a goroutine that is closing.      *)

\* No run gets inside Conn.Close, and none leaves loops that are.
RunsHeld ==
  /\ \A r \in 1 .. Len(runs) :
       /\ r \in 1 .. Len(runs') /\ runs'[r].conn = runs[r].conn
       /\ RunHolds(r)' => RunHolds(r)
       /\ runs[r].pc = "serving" =>
            runs'[r].pc = "serving" \/ \A l \in Loops : ~LoopHolds(r, l)
  /\ \A r \in 1 .. Len(runs') : r \notin 1 .. Len(runs) => ~RunHolds(r)'

LoopsHeld == \A r \in RunId, l \in Loops : LoopHolds(r, l)' => LoopHolds(r, l)

\* And those that are inside it stay where they are.
RunsQuiet == /\ RunsHeld
             /\ \A r \in 1 .. Len(runs) : RunHolds(r) => runs'[r] = runs[r]

LoopsQuiet == /\ LoopsHeld
              /\ \A r \in RunId, l \in Loops : LoopHolds(r, l) => loop'[r][l] = loop[r][l]

RxQuiet == rx.pc = "close" => rx' = rx

TableSame ==
  /\ Len(conns') = Len(conns)
  /\ \A c \in 1 .. Len(conns) : conns'[c].closed = conns[c].closed
  /\ UNCHANGED <<established, lmu>>

LEMMA UnchangedIsQuiet ==
  /\ UNCHANGED runs => RunsQuiet
  /\ UNCHANGED loop => LoopsQuiet
  /\ UNCHANGED rx => RxQuiet
  /\ UNCHANGED lsn => TableSame
BY DEF RunsQuiet, RunsHeld, LoopsQuiet, LoopsHeld, RxQuiet, TableSame, RunHolds, LoopHolds, lsn

\* What a run has.
LEMMA RunFacts ==
  ASSUME Typed, NEW r \in 1 .. Len(runs)
  PROVE  /\ runs[r] \in RunType /\ runs[r].conn \in 1 .. Len(conns) /\ r \in RunId
         /\ runs[r].gen \in 0 .. MaxGens
         /\ conns[runs[r].conn] \in [smux : Gen, closed : BOOLEAN]
         /\ conns[runs[r].conn].smux \in Gen
<1>1. /\ runs \in Seq(RunType) /\ Len(runs) \in Nat /\ Len(runs) <= MaxRuns
      /\ runs[r].conn \in 1 .. Len(conns)
      /\ conns \in Seq([smux : Gen, closed : BOOLEAN])
  BY LenProperties DEF Typed, RunsTyped, LsnTyped
<1>2. runs[r] \in RunType
  BY <1>1, ElementOfSeq
<1>3. conns[runs[r].conn] \in [smux : Gen, closed : BOOLEAN]
  BY <1>1, ElementOfSeq
<1>4. QED
  BY <1>1, <1>2, <1>3, ServingAssumption DEF RunId, RunType

\* Such steps keep the table right ...
LEMMA HeldTable ==
  ASSUME Typed, TableInv, RunsHeld, LoopsHeld, TableSame
  PROVE  TableInv'
<1>0. /\ Len(conns) \in Nat /\ established \in 0 .. Len(conns) /\ Len(runs) \in Nat
      /\ established' = established /\ lmu' = lmu /\ Len(runs) <= MaxRuns
      /\ \A r \in 1 .. Len(runs) : r \in RunId /\ runs[r].conn \in 1 .. Len(conns)
  BY LenProperties, ServingAssumption
     DEF Typed, LsnTyped, RunsTyped, TableSame, RunId
<1>1. \A r \in 1 .. Len(runs') : RunHolds(r)' =>
        r \in 1 .. Len(runs) /\ RunHolds(r) /\ runs'[r].conn = runs[r].conn
  BY DEF RunsHeld
<1>2. \A r \in RunId, l \in Loops : LoopHolds(r, l)' =>
        /\ LoopHolds(r, l) /\ r \in 1 .. Len(runs) /\ r \in 1 .. Len(runs')
        /\ runs'[r].pc = "serving" /\ runs'[r].conn = runs[r].conn
  <2> TAKE r \in RunId, l \in Loops
  <2> HAVE LoopHolds(r, l)'
  <2>1. LoopHolds(r, l)
    BY DEF LoopsHeld
  <2>2. r \in 1 .. Len(runs) /\ runs[r].pc = "serving"
    BY <2>1 DEF TableInv
  <2>3. QED
    BY <2>1, <2>2 DEF RunsHeld
<1>3. (\A c \in 1 .. Len(conns) : ~conns[c].closed => established = c)'
  BY <1>0 DEF TableInv, TableSame
<1>4. (established # 0 /\ conns[established].closed => lmu)'
  BY <1>0 DEF TableInv, TableSame
<1>5. (\A r \in 1 .. Len(runs) :
         RunHolds(r) => lmu /\ established = runs[r].conn /\ conns[established].closed)'
  BY <1>0, <1>1 DEF TableInv, TableSame
<1>6. (\A r \in RunId, l \in Loops :
         LoopHolds(r, l) => /\ r \in 1 .. Len(runs) /\ runs[r].pc = "serving"
                            /\ lmu /\ established = runs[r].conn
                            /\ conns[established].closed)'
  BY <1>0, <1>2 DEF TableInv, TableSame
<1>7. (\A r, q \in 1 .. Len(runs) : RunHolds(r) /\ RunHolds(q) => r = q)'
  BY <1>1 DEF TableInv
<1>8. (\A r \in 1 .. Len(runs), q \in RunId, l \in Loops : ~(RunHolds(r) /\ LoopHolds(q, l)))'
  BY <1>1, <1>2 DEF TableInv
<1>9. (\A r, q \in RunId, l, m \in Loops :
         LoopHolds(r, l) /\ LoopHolds(q, m) => r = q /\ l = m)'
  BY <1>2 DEF TableInv
<1>10. QED
  BY <1>3, <1>4, <1>5, <1>6, <1>7, <1>8, <1>9 DEF TableInv

LEMMA QuietTable ==
  ASSUME Typed, TableInv, RunsQuiet, LoopsQuiet, TableSame
  PROVE  TableInv'
BY HeldTable DEF RunsQuiet, LoopsQuiet

\* ... and whoever closes a generation at it.
LEMMA QuietClosing ==
  ASSUME Typed, RunsQuiet, LoopsQuiet, RxQuiet, NEW g, Closing(g)
  PROVE  Closing(g)'
<1>0. \A r \in 1 .. Len(runs) : r \in RunId
  BY LenProperties, ServingAssumption DEF Typed, RunsTyped, RunId
<1>1. CASE rx.pc = "close" /\ rx.gen = g
  BY <1>1 DEF Closing, RxQuiet
<1>2. ASSUME NEW r \in 1 .. Len(runs), runs[r].pc = "closeMux", runs[r].gen = g
      PROVE  Closing(g)'
  <2>1. RunHolds(r)
    BY <1>2 DEF RunHolds, InClose
  <2>2. r \in 1 .. Len(runs') /\ runs'[r] = runs[r]
    BY <2>1 DEF RunsQuiet, RunsHeld
  <2>3. QED
    BY <1>2, <2>2 DEF Closing
<1>3. ASSUME NEW r \in 1 .. Len(runs), NEW l \in Loops, Running(r, l, "closeMux"),
             loop[r][l].gen = g
      PROVE  Closing(g)'
  <2>1. LoopHolds(r, l) /\ runs[r].pc = "serving"
    BY <1>3 DEF Running, LoopHolds, InClose
  <2>2. r \in 1 .. Len(runs') /\ runs'[r].pc = "serving"
    BY <2>1 DEF RunsQuiet, RunsHeld
  <2>3. loop'[r][l] = loop[r][l]
    BY <1>0, <2>1 DEF LoopsQuiet
  <2>4. Running(r, l, "closeMux")'
    BY <1>3, <2>2, <2>3 DEF Running
  <2>5. QED
    BY <1>3, <2>2, <2>3, <2>4 DEF Closing
<1>4. QED
  BY <1>1, <1>2, <1>3 DEF Closing

\* Generations and the current one are left alone.
LEMMA SameGens ==
  ASSUME Typed, GenInv, UNCHANGED gens, peer'.mux = peer.mux,
         peer'.state = "offline" => peer.state = "offline",
         \A g \in 1 .. Len(gens) : Closing(g) => Closing(g)'
  PROVE  GenInv'
BY DEF GenInv, ForgottenGensClosed

\* createServiceMux: the one that was current, if any, is closed.
LEMMA NewGens ==
  ASSUME Typed, GenInv, NewGeneration, ~IsOpen(peer.mux),
         \A g \in 1 .. Len(gens) : Closing(g) => Closing(g)'
  PROVE  /\ NetTyped' /\ GenInv' /\ Len(gens) + 1 \in Gen
         /\ Len(gens') = Len(gens) + 1 /\ peer'.mux = Len(gens) + 1
<1>1. /\ Len(gens) \in Nat /\ gens' \in Seq(BOOLEAN) /\ Len(gens') = Len(gens) + 1
      /\ 1 .. Len(gens') = (1 .. Len(gens)) \union {Len(gens) + 1}
      /\ \A g \in 1 .. Len(gens) : gens'[g] = gens[g]
  BY AppendFacts DEF NewGeneration, Typed, NetTyped
<1>2. /\ Len(gens) < MaxGens /\ stopped' = stopped
      /\ peer' = [session |-> TRUE, state |-> "established", mux |-> Len(gens) + 1]
  BY DEF NewGeneration
<1>3. Len(gens) + 1 \in Gen /\ Len(gens) + 1 \in 0 .. MaxGens
  BY <1>1, <1>2, ServingAssumption DEF Gen
<1>4. NetTyped'
  BY <1>1, <1>2, <1>3, ServingAssumption DEF NetTyped, Typed, PeerState
<1>5. ASSUME NEW g \in 1 .. Len(gens'), gens'[g], g # peer'.mux
      PROVE  Closing(g)'
  <2>1. g \in 1 .. Len(gens) /\ gens[g]
    BY <1>1, <1>2, <1>5
  <2>2. g # peer.mux
    BY <1>1, <2>1 DEF IsOpen
  <2>3. QED
    BY <2>1, <2>2 DEF GenInv, ForgottenGensClosed
<1>6. GenInv'
  BY <1>2, <1>5 DEF GenInv, ForgottenGensClosed
<1>7. QED
  BY <1>1, <1>2, <1>3, <1>4, <1>6

\* ensureServiceMux yields a generation and forgets none.
LEMMA EnsureGens ==
  ASSUME Typed, GenInv, NEW g, NEW made, EnsureServiceMux(g, made),
         \A h \in 1 .. Len(gens) : Closing(h) => Closing(h)'
  PROVE  NetTyped' /\ GenInv' /\ g \in Gen
<1>1. CASE IsOpen(peer.mux)
  <2>1. g = peer.mux /\ UNCHANGED net /\ peer.mux # 0
    BY <1>1 DEF EnsureServiceMux, IsOpen
  <2>2. NetTyped' /\ GenInv'
    BY <2>1, Frames, SameGens DEF net
  <2>3. QED
    BY <2>1, <2>2, ServingAssumption DEF Typed, NetTyped, Gen
<1>2. CASE ~IsOpen(peer.mux)
  BY <1>2, NewGens DEF EnsureServiceMux
<1>3. QED
  BY <1>1, <1>2

-----------------------------------------------------------------------------
(* The network's side.                                                     *)

LEMMA InitIInv == Init => IInv
<1> SUFFICES ASSUME Init PROVE IInv
  OBVIOUS
<1> USE DEF Init
<1>1. NetTyped /\ LsnTyped /\ EventsTyped /\ OnlineTyped /\ RxTyped /\ RunsTyped
  <2>1. /\ << >> \in Seq(BOOLEAN) /\ << >> \in Seq([smux : Gen, closed : BOOLEAN])
        /\ << >> \in Seq(PeerState) /\ << >> \in Seq(RunType)
        /\ Len(<< >>) = 0
    OBVIOUS
  <2>2. NetTyped
    BY <2>1, ServingAssumption DEF NetTyped, PeerState
  <2>3. LsnTyped /\ OnlineTyped
    <3>1. conns \in Seq([smux : Gen, closed : BOOLEAN]) /\ Len(conns) <= MaxConns
      BY <2>1, ServingAssumption
    <3>2. established \in 0 .. Len(conns) /\ online \in 0 .. Len(conns)
      BY <2>1
    <3>3. lmu \in BOOLEAN
      OBVIOUS
    <3>4. QED
      BY <3>1, <3>2, <3>3 DEF LsnTyped, OnlineTyped
  <2>4. EventsTyped
    BY <2>1, ServingAssumption DEF EventsTyped
  <2>5. RxTyped
    BY ServingAssumption DEF RxTyped
  <2>6. RunsTyped
    BY <2>1, ServingAssumption DEF RunsTyped
  <2>7. QED
    BY <2>2, <2>3, <2>4, <2>5, <2>6
<1>2. AcceptorTyped /\ ClientTyped
  BY ServingAssumption DEF AcceptorTyped, ClientTyped, NoCall, CallPc
<1>3. LoopTyped
  BY ServingAssumption DEF LoopTyped, NoLoop, LoopPc, HasGen
<1>4. TableInv
  BY DEF TableInv, LoopHolds, RunHolds, InClose, NoLoop
<1>5. GenInv
  BY DEF GenInv, ForgottenGensClosed
<1>6. QED
  BY <1>1, <1>2, <1>3, <1>4, <1>5 DEF IInv, Typed

\* What every handler of a message or of a goroutine that only emits leaves alone.
LEMMA InstallIInv ==
  ASSUME IInv, NEW calls, Install(calls)
  PROVE  IInv'
<1> USE DEF IInv
<1>1. UNCHANGED <<lsn, events, rx, client, acceptor, runs, loop, online>>
  BY DEF Install, srv
<1>2. RunsQuiet /\ LoopsQuiet /\ RxQuiet /\ TableSame
  BY <1>1, UnchangedIsQuiet
<1>3. TableInv'
  BY <1>2, QuietTable
<1>4. \A g \in 1 .. Len(gens) : Closing(g) => Closing(g)'
  BY <1>2, QuietClosing
<1>5. NetTyped' /\ GenInv'
  <2>1. CASE peer.mux = 0
    BY <1>4, <2>1, NewGens DEF Install, IsOpen
  <2>2. CASE peer.mux # 0
    <3>1. /\ peer' = [peer EXCEPT !.session = TRUE, !.state = "established"]
          /\ UNCHANGED <<gens, stopped>>
      BY <2>2 DEF Install
    <3>2. NetTyped'
      BY <3>1 DEF Typed, NetTyped, PeerState
    <3>3. peer'.mux = peer.mux /\ peer'.state = "established"
      BY <3>1 DEF Typed, NetTyped
    <3>4. QED
      BY <1>4, <3>1, <3>2, <3>3, SameGens
  <2>3. QED
    BY <2>1, <2>2
<1>6. QED
  BY <1>1, <1>3, <1>5, Frames DEF Typed, lsn

LEMMA HandshakeStepsIInv ==
  ASSUME IInv, HandshakeEmit \/ HandshakeSignal
  PROVE  IInv'
<1> USE DEF IInv
<1>1. UNCHANGED <<net, lsn, rx, acceptor, runs, loop>>
  BY DEF HandshakeEmit, HandshakeSignal, srv
<1>2. RunsQuiet /\ LoopsQuiet /\ RxQuiet /\ TableSame
  BY <1>1, UnchangedIsQuiet
<1>3. TableInv'
  BY <1>2, QuietTable
<1>4. GenInv'
  BY <1>1, <1>2, QuietClosing, SameGens DEF net
<1>5. EventsTyped' /\ OnlineTyped'
  <2>1. CASE HandshakeEmit
    BY <1>1, <2>1, EmitFacts DEF HandshakeEmit, PeerState, lsn
  <2>2. CASE HandshakeSignal
    BY <1>1, <2>2, Frames DEF HandshakeSignal, lsn
  <2>3. QED
    BY <2>1, <2>2
<1>6. ClientTyped'
  <2>1. CASE HandshakeEmit
    BY <1>1, <2>1, Frames DEF HandshakeEmit, lsn
  <2>2. CASE HandshakeSignal
    <3>1. client' = [p \in Client |->
                       IF p \in hs.for /\ client[p].pc = "wait"
                         THEN [client[p] EXCEPT !.pc = "connected"] ELSE client[p]]
      BY <2>2 DEF HandshakeSignal
    <3>2. ASSUME NEW p \in Client
          PROVE  /\ client'[p] \in [pc : CallPc, conn : 0 .. MaxConns, gen : 0 .. MaxGens]
                 /\ client'[p].conn = client[p].conn
                 /\ \/ client'[p] = client[p]
                    \/ client[p].pc = "wait" /\ client'[p].pc = "connected"
      <4>1. client[p] \in [pc : CallPc, conn : 0 .. MaxConns, gen : 0 .. MaxGens]
        BY DEF Typed, ClientTyped
      <4>2. \/ client'[p] = client[p]
            \/ client[p].pc = "wait" /\ client'[p] = [client[p] EXCEPT !.pc = "connected"]
        BY <3>1
      <4>3. QED
        BY <4>1, <4>2 DEF CallPc
    <3>3. UNCHANGED conns
      BY <1>1 DEF lsn
    <3>4. QED
      BY <3>1, <3>2, <3>3 DEF Typed, ClientTyped
  <2>3. QED
    BY <2>1, <2>2
<1>7. QED
  BY <1>1, <1>3, <1>4, <1>5, <1>6, Frames DEF Typed, lsn

LEMMA InboundIInv ==
  ASSUME IInv, InboundData \/ InboundEmit
  PROVE  IInv'
<1> USE DEF IInv
<1>1. UNCHANGED <<lsn, client, acceptor, runs, loop>> /\ rx.pc \in {"idle", "emit"}
  BY DEF InboundData, InboundEmit, srv
<1>2. RunsQuiet /\ LoopsQuiet /\ RxQuiet /\ TableSame
  BY <1>1, UnchangedIsQuiet DEF RxQuiet
<1>3. TableInv'
  BY <1>2, QuietTable
<1>4. \A g \in 1 .. Len(gens) : Closing(g) => Closing(g)'
  BY <1>2, QuietClosing
<1>5. NetTyped' /\ GenInv'
  <2>1. CASE InboundData
    BY <1>4, <2>1, EnsureGens DEF InboundData
  <2>2. CASE InboundEmit
    BY <1>4, <2>2, SameGens, Frames DEF InboundEmit, net
  <2>3. QED
    BY <2>1, <2>2
<1>6. EventsTyped' /\ OnlineTyped'
  <2>1. CASE InboundData
    BY <1>1, <2>1, Frames DEF InboundData, lsn
  <2>2. CASE InboundEmit
    BY <1>1, <2>2, EmitFacts DEF InboundEmit, PeerState, lsn
  <2>3. QED
    BY <2>1, <2>2
<1>7. RxTyped'
  BY DEF Typed, RxTyped, InboundData, InboundEmit
<1>8. QED
  BY <1>1, <1>3, <1>5, <1>6, <1>7, Frames DEF Typed, lsn

\* Closing a generation: nobody has to close that one any more.
LEMMA ClosedGens ==
  ASSUME Typed, GenInv, NEW g, CloseGen(g), UNCHANGED <<peer, stopped>>,
         \A h \in 1 .. Len(gens) : h # g /\ Closing(h) => Closing(h)'
  PROVE  NetTyped' /\ GenInv'
<1>0. gens \in Seq(BOOLEAN) /\ Len(gens) <= MaxGens
  BY DEF Typed, NetTyped
<1>1. /\ gens' \in Seq(BOOLEAN) /\ Len(gens') = Len(gens)
      /\ \A h \in 1 .. Len(gens) : gens'[h] => gens[h] /\ (g = 0 \/ h # g)
  <2>1. CASE g = 0
    BY <1>0, <2>1 DEF CloseGen
  <2>2. CASE g # 0
    <3>1. gens' = [gens EXCEPT ![g] = FALSE]
      BY <2>2 DEF CloseGen
    <3>2. /\ gens' \in Seq(BOOLEAN) /\ Len(gens') = Len(gens)
          /\ g \in 1 .. Len(gens) => gens'[g] = FALSE
          /\ \A h \in 1 .. Len(gens) : h # g => gens'[h] = gens[h]
      <4>1. PICK f \in BOOLEAN : f = FALSE
        OBVIOUS
      <4>2. /\ [gens EXCEPT ![g] = f] \in Seq(BOOLEAN)
            /\ Len([gens EXCEPT ![g] = f]) = Len(gens)
            /\ g \in 1 .. Len(gens) => [gens EXCEPT ![g] = f][g] = f
            /\ \A h \in 1 .. Len(gens) : h # g => [gens EXCEPT ![g] = f][h] = gens[h]
        BY <1>0, UpdateFacts
      <4>3. gens' = [gens EXCEPT ![g] = f]
        BY <3>1, <4>1
      <4>4. QED
        BY <4>1, <4>2, <4>3
    <3>3. QED
      BY <2>2, <3>2
  <2>3. QED
    BY <2>1, <2>2
<1>2. NetTyped'
  BY <1>0, <1>1 DEF Typed, NetTyped
<1>3. ASSUME NEW h \in 1 .. Len(gens), gens'[h], h # peer.mux
      PROVE  Closing(h)'
  <2>1. gens[h] /\ h # g
    <3>1. Len(gens) \in Nat
      BY <1>0, LenProperties
    <3>2. QED
      BY <1>1, <1>3, <3>1
  <2>2. QED
    BY <1>3, <2>1 DEF GenInv, ForgottenGensClosed
<1>4. GenInv'
  BY <1>1, <1>3 DEF GenInv, ForgottenGensClosed
<1>5. QED
  BY <1>2, <1>4

\* The close notice of the peer.
LEMMA RemoteCloseIInv ==
  ASSUME IInv, RemoteClose \/ RemoteCloseMux \/ RemoteCloseEmit
  PROVE  IInv'
<1> USE DEF IInv
<1>1. /\ UNCHANGED <<lsn, client, acceptor, runs, loop, stopped>>
  BY DEF RemoteClose, RemoteCloseMux, RemoteCloseEmit, srv, net
<1>2. RunsQuiet /\ LoopsQuiet /\ TableSame
  BY <1>1, UnchangedIsQuiet
<1>3. TableInv'
  BY <1>2, QuietTable
<1>4. RxTyped'
  <2>1. /\ rx.pc \in {"idle", "emit", "close", "offline"} /\ rx.gen \in 0 .. MaxGens
        /\ rx = [pc |-> rx.pc, gen |-> rx.gen] /\ 0 \in 0 .. MaxGens /\ peer.mux \in 0 .. MaxGens
    BY ServingAssumption DEF Typed, RxTyped, NetTyped
  <2>2. \/ rx' = rx \/ rx' = [pc |-> "close", gen |-> peer.mux]
        \/ rx' = [pc |-> "offline", gen |-> 0] \/ rx' = [rx EXCEPT !.pc = "idle"]
    BY DEF RemoteClose, RemoteCloseMux, RemoteCloseEmit
  <2>3. QED
    BY <2>1, <2>2 DEF RxTyped, Typed
<1>5. EventsTyped' /\ OnlineTyped'
  <2>1. CASE RemoteClose \/ RemoteCloseMux
    BY <1>1, <2>1, Frames DEF RemoteClose, RemoteCloseMux, lsn
  <2>2. CASE RemoteCloseEmit
    BY <1>1, <2>2, EmitFacts DEF RemoteCloseEmit, PeerState, lsn
  <2>3. QED
    BY <2>1, <2>2
<1>6. NetTyped' /\ GenInv'
  <2>1. CASE RemoteClose
    <3>1. /\ rx.pc = "idle" /\ UNCHANGED gens
          /\ rx' = IF peer.state = "offline" THEN rx ELSE [pc |-> "close", gen |-> peer.mux]
          /\ peer' = [peer EXCEPT !.state = "offline", !.mux = 0]
      BY <2>1 DEF RemoteClose, GoOffline
    <3>2. peer' \in [session : BOOLEAN, state : PeerState, mux : 0 .. MaxGens]
          /\ peer'.mux = 0
      <4>1. peer \in [session : BOOLEAN, state : PeerState, mux : 0 .. MaxGens]
            /\ "offline" \in PeerState /\ 0 \in 0 .. MaxGens
        BY ServingAssumption DEF Typed, NetTyped, PeerState
      <4>2. QED
        BY <3>1, <4>1
    <3>3. NetTyped'
      BY <1>1, <3>1, <3>2 DEF Typed, NetTyped
    <3>4. RxQuiet
      BY <3>1 DEF RxQuiet
    <3>5. ASSUME NEW g \in 1 .. Len(gens), gens[g]
          PROVE  Closing(g)'
      <4>1. CASE g = peer.mux
        <5>1. peer.state # "offline"
          <6>1. Len(gens) \in Nat
            BY LenProperties DEF Typed, NetTyped
          <6>2. QED
            BY <4>1, <6>1 DEF GenInv
        <5>2. QED
          BY <3>1, <4>1, <5>1 DEF Closing
      <4>2. CASE g # peer.mux
        <5>1. Closing(g)
          BY <3>5, <4>2 DEF GenInv, ForgottenGensClosed
        <5>2. QED
          BY <1>2, <3>4, <5>1, QuietClosing
      <4>3. QED
        BY <4>1, <4>2
    <3>6. GenInv'
      BY <3>1, <3>2, <3>5 DEF GenInv, ForgottenGensClosed
    <3>7. QED
      BY <3>3, <3>6
  <2>2. CASE RemoteCloseMux
    <3>1. CloseGen(rx.gen) /\ UNCHANGED <<peer, stopped>> /\ rx.pc = "close"
      BY <2>2 DEF RemoteCloseMux
    <3>2. ASSUME NEW h \in 1 .. Len(gens), h # rx.gen, Closing(h)
          PROVE  Closing(h)'
      <4>1. \E r \in 1 .. Len(runs) :
               \/ runs[r].pc = "closeMux" /\ runs[r].gen = h
               \/ \E l \in Loops : Running(r, l, "closeMux") /\ loop[r][l].gen = h
        BY <3>2 DEF Closing
      <4>2. QED
        BY <1>1, <4>1 DEF Closing, Running
    <3>3. QED
      BY <3>1, <3>2, ClosedGens
  <2>3. CASE RemoteCloseEmit
    <3>1. UNCHANGED net /\ RxQuiet
      BY <2>3 DEF RemoteCloseEmit, RxQuiet
    <3>2. QED
      BY <1>2, <3>1, QuietClosing, SameGens, Frames DEF net
  <2>4. QED
    BY <2>1, <2>2, <2>3
<1>7. QED
  BY <1>1, <1>3, <1>4, <1>5, <1>6, Frames DEF Typed, lsn

-----------------------------------------------------------------------------
(* Listener.Accept, and what it shares with Dial.                           *)

\* Nobody is inside Conn.Close while the lock is free.
LEMMA NoHolders ==
  ASSUME Typed, TableInv, ~lmu, RunsQuiet, LoopsQuiet
  PROVE  /\ \A r \in 1 .. Len(runs) : ~RunHolds(r)
         /\ \A r \in 1 .. Len(runs') : ~RunHolds(r)'
         /\ \A r \in RunId, l \in Loops : ~LoopHolds(r, l)'
<1>1. /\ \A r \in 1 .. Len(runs) : ~RunHolds(r)
      /\ \A r \in RunId, l \in Loops : ~LoopHolds(r, l)
  BY DEF TableInv
<1>2. \A r \in 1 .. Len(runs') : ~RunHolds(r)'
  BY <1>1 DEF RunsQuiet, RunsHeld
<1>3. \A r \in RunId, l \in Loops : ~LoopHolds(r, l)'
  BY <1>1 DEF LoopsQuiet, LoopsHeld
<1>4. QED
  BY <1>1, <1>2, <1>3

\* insertConn: a Conn is made only while the table is empty.
LEMMA InsertFacts ==
  ASSUME Typed, TableInv, UNCHANGED lmu, ~lmu, NEW g \in Gen, InsertConn(g)
  PROVE  /\ LsnTyped'
         /\ Len(conns') \in Nat /\ Len(conns') >= Len(conns)
         /\ established' \in 1 .. Len(conns')
         /\ \A c \in 1 .. Len(conns') : ~conns'[c].closed => established' = c
         /\ ~conns'[established'].closed
<1>0. /\ conns \in Seq([smux : Gen, closed : BOOLEAN]) /\ Len(conns) <= MaxConns
      /\ Len(conns) \in Nat /\ established \in 0 .. Len(conns) /\ lmu \in BOOLEAN
  BY LenProperties DEF Typed, LsnTyped
<1>1. CASE established # 0
  <2>1. conns' = conns /\ established' = established
    BY <1>1 DEF InsertConn
  <2>2. QED
    BY <1>0, <1>1, <2>1 DEF LsnTyped, TableInv
<1>2. CASE established = 0
  <2>1. /\ Len(conns) < MaxConns /\ established' = Len(conns) + 1
        /\ conns' = Append(conns, [smux |-> g, closed |-> FALSE])
    BY <1>2 DEF InsertConn
  <2>2. /\ conns' \in Seq([smux : Gen, closed : BOOLEAN]) /\ Len(conns') = Len(conns) + 1
        /\ 1 .. Len(conns') = (1 .. Len(conns)) \union {Len(conns) + 1}
        /\ \A c \in 1 .. Len(conns) : conns'[c] = conns[c]
        /\ conns'[Len(conns) + 1] = [smux |-> g, closed |-> FALSE]
    <3>1. [smux |-> g, closed |-> FALSE] \in [smux : Gen, closed : BOOLEAN]
      OBVIOUS
    <3>2. QED
      BY <1>0, <2>1, <3>1, AppendFacts
  <2>3. \A c \in 1 .. Len(conns) : conns[c].closed
    BY <1>0, <1>2 DEF TableInv
  <2>4. LsnTyped'
    BY <1>0, <2>1, <2>2, ServingAssumption DEF LsnTyped
  <2>5. QED
    BY <1>0, <2>1, <2>2, <2>3, <2>4
<1>3. QED
  BY <1>1, <1>2

LEMMA InsertTable ==
  ASSUME Typed, TableInv, UNCHANGED lmu, ~lmu, RunsQuiet, LoopsQuiet,
         NEW g \in Gen, InsertConn(g)
  PROVE  TableInv'
<1>1. /\ \A r \in 1 .. Len(runs') : ~RunHolds(r)'
      /\ \A r \in RunId, l \in Loops : ~LoopHolds(r, l)'
  BY NoHolders
<1>2. /\ \A c \in 1 .. Len(conns') : ~conns'[c].closed => established' = c
      /\ ~conns'[established'].closed
  BY InsertFacts
<1>3. QED
  BY <1>1, <1>2 DEF TableInv

\* c.smux = smux: the table does not change by it.
LEMMA AssignFacts ==
  ASSUME Typed, NEW c \in 1 .. Len(conns), NEW g \in Gen, UNCHANGED <<established, lmu>>,
         conns' = [conns EXCEPT ![c].smux = g]
  PROVE  /\ LsnTyped' /\ TableSame
         /\ Len(conns') \in Nat /\ Len(conns') >= Len(conns)
<1>1. /\ conns \in Seq([smux : Gen, closed : BOOLEAN]) /\ Len(conns) \in Nat
      /\ conns[c] \in [smux : Gen, closed : BOOLEAN]
  BY LenProperties, ElementOfSeq DEF Typed, LsnTyped
<1>2. PICK e \in [smux : Gen, closed : BOOLEAN] :
         e = [conns[c] EXCEPT !.smux = g] /\ e.closed = conns[c].closed
  BY <1>1
<1>3. conns' = [conns EXCEPT ![c] = e]
  BY <1>2
<1>4. /\ conns' \in Seq([smux : Gen, closed : BOOLEAN]) /\ Len(conns') = Len(conns)
      /\ conns'[c] = e /\ \A d \in 1 .. Len(conns) : d # c => conns'[d] = conns[d]
  BY <1>1, <1>3, UpdateFacts
<1>5. QED
  BY <1>1, <1>2, <1>4 DEF LsnTyped, Typed, TableSame

\* servePeerListener starts a run, which is not closing anything.
LEMMA StartRunFacts ==
  ASSUME Typed, NEW c \in 1 .. Len(conns'), StartRun(c), LsnTyped',
         Len(conns') >= Len(conns)
  PROVE  RunsTyped' /\ RunsQuiet
<1>0. /\ runs \in Seq(RunType) /\ Len(runs) < MaxRuns
      /\ runs' = Append(runs, [pc |-> "ensure", conn |-> c, gen |-> 0])
      /\ Len(conns) \in Nat /\ Len(conns') \in Nat /\ Len(conns') <= MaxConns
  BY LenProperties DEF Typed, RunsTyped, StartRun, LsnTyped
<1>1. [pc |-> "ensure", conn |-> c, gen |-> 0] \in RunType
  BY <1>0, ServingAssumption DEF RunType, RunPc, ConnId
<1>2. /\ runs' \in Seq(RunType) /\ Len(runs') = Len(runs) + 1 /\ Len(runs) \in Nat
      /\ 1 .. Len(runs') = (1 .. Len(runs)) \union {Len(runs) + 1}
      /\ \A r \in 1 .. Len(runs) : runs'[r] = runs[r]
      /\ runs'[Len(runs) + 1] = [pc |-> "ensure", conn |-> c, gen |-> 0]
  BY <1>0, <1>1, AppendFacts
<1>3. RunsTyped'
  BY <1>0, <1>2, ServingAssumption DEF RunsTyped, Typed
<1>4. RunsQuiet
  BY <1>2 DEF RunsQuiet, RunsHeld, RunHolds, InClose
<1>5. QED
  BY <1>3, <1>4

LEMMA AcceptStepIInv ==
  ASSUME IInv, AcceptStep
  PROVE  IInv'
<1> USE DEF IInv
<1>0. UNCHANGED <<rx, hs, client, loop>>
  BY DEF AcceptStep, AcceptEvent, AcceptCheck, AcceptMux, AcceptEmit, AcceptInsert
<1>1. LoopsQuiet /\ RxQuiet
  BY <1>0, UnchangedIsQuiet
<1>2. /\ Len(conns) \in Nat
      /\ events \in Seq(PeerState) /\ Len(events) <= EventCap
      /\ acceptor \in [pc : {"select", "check", "mux", "emit", "insert"}, gen : 0 .. MaxGens]
  BY LenProperties DEF Typed, LsnTyped, EventsTyped, AcceptorTyped
<1>3. CASE AcceptEvent
  <2>1. /\ UNCHANGED <<net, lsn, runs, online>> /\ events # << >> /\ events' = Tail(events)
        /\ acceptor.pc = "select"
        /\ acceptor' = [acceptor EXCEPT !.pc = "check"] \/ acceptor' = acceptor
    BY <1>3 DEF AcceptEvent
  <2>2. EventsTyped'
    <3>1. Tail(events) \in Seq(PeerState) /\ Len(Tail(events)) = Len(events) - 1
      BY <1>2, <2>1, HeadTailProperties
    <3>2. Len(events) \in Nat
      BY <1>2, LenProperties
    <3>3. QED
      BY <1>2, <2>1, <3>1, <3>2, ServingAssumption DEF EventsTyped
  <2>3. AcceptorTyped'
    BY <1>2, <2>1 DEF AcceptorTyped, Typed
  <2>4. RunsQuiet /\ TableSame
    BY <2>1, UnchangedIsQuiet
  <2>5. TableInv' /\ GenInv'
    BY <1>1, <2>1, <2>4, QuietTable, QuietClosing, SameGens DEF net
  <2>6. QED
    BY <1>0, <2>1, <2>2, <2>3, <2>5, Frames DEF Typed, lsn
<1>4. CASE AcceptCheck
  <2>1. /\ UNCHANGED <<net, lsn, events, online>>
        /\ acceptor' = [acceptor EXCEPT !.pc = "select"] \/ acceptor' = [acceptor EXCEPT !.pc = "mux"]
        /\ UNCHANGED conns /\ LsnTyped'
    BY <1>4, Frames DEF AcceptCheck, lsn
  <2>2. AcceptorTyped'
    BY <1>2, <2>1 DEF AcceptorTyped
  <2>3. RunsTyped' /\ RunsQuiet
    <3>1. CASE established # 0
      <4>1. StartRun(established) /\ established \in 1 .. Len(conns')
        BY <1>2, <1>4, <2>1, <3>1 DEF AcceptCheck, Typed, LsnTyped
      <4>2. QED
        BY <1>2, <2>1, <4>1, StartRunFacts
    <3>2. CASE established = 0
      <4>1. UNCHANGED runs
        BY <1>4, <3>2 DEF AcceptCheck
      <4>2. QED
        BY <2>1, <4>1, UnchangedIsQuiet, Frames
    <3>3. QED
      BY <3>1, <3>2
  <2>4. TableSame
    BY <2>1, UnchangedIsQuiet
  <2>5. TableInv' /\ GenInv'
    BY <1>1, <2>1, <2>3, <2>4, QuietTable, QuietClosing, SameGens DEF net
  <2>6. QED
    BY <1>0, <2>1, <2>2, <2>3, <2>5, Frames DEF Typed, lsn
<1>5. CASE AcceptMux
  <2>1. UNCHANGED <<lsn, events, runs, online>>
    BY <1>5 DEF AcceptMux
  <2>2. PICK g \in Gen, made \in BOOLEAN :
          /\ EnsureServiceMux(g, made)
          /\ acceptor' = [pc |-> IF made THEN "emit" ELSE "insert", gen |-> g]
    BY <1>5 DEF AcceptMux
  <2>3. RunsQuiet /\ TableSame
    BY <2>1, UnchangedIsQuiet
  <2>4. TableInv' /\ \A h \in 1 .. Len(gens) : Closing(h) => Closing(h)'
    BY <1>1, <2>3, QuietTable, QuietClosing
  <2>5. NetTyped' /\ GenInv'
    BY <2>2, <2>4, EnsureGens
  <2>6. AcceptorTyped'
    BY <2>2, ServingAssumption DEF AcceptorTyped, Gen
  <2>7. QED
    BY <1>0, <2>1, <2>4, <2>5, <2>6, Frames DEF Typed, lsn
<1>6. CASE AcceptEmit
  <2>1. /\ UNCHANGED <<net, lsn, runs>> /\ Emit("established") /\ acceptor.pc = "emit"
        /\ acceptor' = [acceptor EXCEPT !.pc = "insert"]
    BY <1>6 DEF AcceptEmit
  <2>2. EventsTyped' /\ OnlineTyped'
    BY <2>1, EmitFacts DEF PeerState, lsn
  <2>3. AcceptorTyped'
    BY <1>2, <2>1 DEF AcceptorTyped, Typed
  <2>4. RunsQuiet /\ TableSame
    BY <2>1, UnchangedIsQuiet
  <2>5. TableInv' /\ GenInv'
    BY <1>1, <2>1, <2>4, QuietTable, QuietClosing, SameGens DEF net
  <2>6. QED
    BY <1>0, <2>1, <2>2, <2>3, <2>5, Frames DEF Typed, lsn
<1>7. CASE AcceptInsert
  <2>1. /\ UNCHANGED <<net, lmu, events, online>> /\ acceptor.pc = "insert" /\ ~lmu
        /\ InsertConn(acceptor.gen) /\ StartRun(established')
        /\ acceptor' = [pc |-> "select", gen |-> 0] /\ acceptor.gen \in Gen
    BY <1>7 DEF AcceptInsert, Typed, AcceptorTyped
  <2>2. /\ LsnTyped' /\ Len(conns') \in Nat /\ Len(conns') >= Len(conns)
        /\ established' \in 1 .. Len(conns')
    BY <2>1, InsertFacts
  <2>3. RunsTyped' /\ RunsQuiet
    <3>1. PICK c \in 1 .. Len(conns') : c = established'
      BY <2>2
    <3>2. StartRun(c)
      BY <2>1, <3>1
    <3>3. QED
      BY <2>2, <3>1, <3>2, StartRunFacts
  <2>4. TableInv'
    BY <1>1, <2>1, <2>3, InsertTable
  <2>5. GenInv'
    BY <1>1, <2>1, <2>3, QuietClosing, SameGens DEF net
  <2>6. AcceptorTyped'
    BY <2>1, ServingAssumption DEF AcceptorTyped
  <2>7. QED
    BY <1>0, <2>1, <2>2, <2>3, <2>4, <2>5, <2>6, Frames DEF Typed
<1>8. QED
  BY <1>3, <1>4, <1>5, <1>6, <1>7 DEF AcceptStep

-----------------------------------------------------------------------------
(* Dial and RefreshPeer.                                                    *)

ClientType == [pc : CallPc, conn : 0 .. MaxConns, gen : 0 .. MaxGens]

\* A caller moves on.
LEMMA ClientUpdate ==
  ASSUME Typed, NEW p \in Client, NEW rec \in ClientType,
         client' = [client EXCEPT ![p] = rec],
         rec.conn \in 0 .. Len(conns),
         rec.pc \in {"emit", "use"} => rec.gen \in Gen,
         p \in Manager /\ rec.pc \notin {"idle", "dial", "down"} => rec.conn # 0,
         Len(conns') \in Nat, Len(conns') >= Len(conns)
  PROVE  ClientTyped'
<1>1. /\ client \in [Client -> ClientType] /\ Len(conns) \in Nat
      /\ \A q \in Client : client[q].conn \in 0 .. Len(conns)
  BY LenProperties DEF Typed, ClientTyped, LsnTyped, ClientType
<1>2. client' \in [Client -> ClientType]
  BY <1>1
<1>3. \A q \in Client : client'[q] = IF q = p THEN rec ELSE client[q]
  BY <1>1
<1>4. ASSUME NEW q \in Client
      PROVE  /\ client'[q].conn \in 0 .. Len(conns')
             /\ client'[q].pc \in {"emit", "use"} => client'[q].gen \in Gen
             /\ q \in Manager /\ client'[q].pc \notin {"idle", "dial", "down"} =>
                  client'[q].conn # 0
  <2>1. CASE q = p
    BY <1>1, <1>3, <2>1
  <2>2. CASE q # p
    <3>1. client'[q] = client[q]
      BY <1>3, <2>2
    <3>2. QED
      BY <1>1, <3>1 DEF Typed, ClientTyped
  <2>3. QED
    BY <2>1, <2>2
<1>5. QED
  BY <1>2, <1>4 DEF ClientTyped, ClientType

\* A caller that moves on with what it has.
LEMMA ClientGoto ==
  ASSUME Typed, NEW p \in Client, NEW pc \in CallPc, GotoClient(p, pc),
         pc = "use" => client[p].pc = "emit", pc # "emit",
         p \in Manager /\ pc \notin {"idle", "dial", "down"} => client[p].conn # 0,
         UNCHANGED conns
  PROVE  ClientTyped'
<1>1. /\ client[p] \in ClientType /\ client[p].conn \in 0 .. Len(conns)
      /\ client[p].pc \in {"emit", "use"} => client[p].gen \in Gen
  BY DEF Typed, ClientTyped, ClientType
<1>2. PICK rec \in ClientType : rec = [client[p] EXCEPT !.pc = pc]
  BY <1>1 DEF ClientType
<1>3. rec.pc = pc /\ rec.conn = client[p].conn /\ rec.gen = client[p].gen
  BY <1>1, <1>2 DEF ClientType
<1>4. client' = [client EXCEPT ![p] = rec]
  BY <1>2 DEF GotoClient
<1>5. Len(conns') \in Nat /\ Len(conns') >= Len(conns)
  BY Frames
<1>6. QED
  BY <1>1, <1>3, <1>4, <1>5, ClientUpdate

LEMMA ClientIdle ==
  ASSUME Typed, NEW p \in Client, client' = [client EXCEPT ![p] = NoCall],
         Len(conns') \in Nat, Len(conns') >= Len(conns)
  PROVE  ClientTyped'
<1>1. NoCall \in ClientType /\ NoCall.conn = 0 /\ NoCall.pc = "idle"
  BY ServingAssumption DEF NoCall, ClientType, CallPc
<1>2. Len(conns) \in Nat
  BY LenProperties DEF Typed, LsnTyped
<1>3. PICK rec \in ClientType : rec = NoCall
  BY <1>1
<1>4. rec.conn = 0 /\ rec.pc = "idle" /\ client' = [client EXCEPT ![p] = rec]
  BY <1>1, <1>3
<1>5. rec.conn \in 0 .. Len(conns) /\ rec.pc \notin {"emit", "use"}
  BY <1>2, <1>4
<1>6. QED
  BY <1>4, <1>5, ClientUpdate

\* Steps that change no more than the caller and what the manager has.
LEMMA CallIInv ==
  ASSUME IInv, NEW p \in Client,
         \/ DialCall(p) \/ RefreshPeer(p) \/ RefreshDial(p) \/ RefreshDown(p) \/ Connected(p)
  PROVE  IInv'
<1> USE DEF IInv
<1>1. UNCHANGED <<net, lsn, events, rx, acceptor, runs, loop>> /\ (online' = online \/ online' = 0)
  BY DEF DialCall, RefreshPeer, RefreshDial, RefreshDown, Connected, srv
<1>2. RunsQuiet /\ LoopsQuiet /\ RxQuiet /\ TableSame
  BY <1>1, UnchangedIsQuiet
<1>3. TableInv' /\ GenInv'
  BY <1>1, <1>2, QuietTable, QuietClosing, SameGens DEF net
<1>4. /\ Len(conns) \in Nat /\ UNCHANGED conns /\ online \in 0 .. Len(conns)
      /\ Len(conns') \in Nat /\ Len(conns') >= Len(conns) /\ Len(conns) <= MaxConns
      /\ client[p] \in ClientType /\ client[p].conn \in 0 .. Len(conns)
      /\ p \in Manager /\ client[p].pc \notin {"idle", "dial", "down"} => client[p].conn # 0
  BY <1>1, LenProperties DEF Typed, LsnTyped, OnlineTyped, ClientTyped, ClientType, lsn
<1>5. OnlineTyped'
  BY <1>1, <1>4 DEF OnlineTyped
<1>6. ClientTyped'
  <2>1. CASE DialCall(p)
    <3>1. GotoClient(p, "connect") /\ p \notin Manager
      BY <2>1, ServingAssumption DEF DialCall
    <3>2. QED
      BY <1>4, <3>1, ClientGoto DEF CallPc
  <2>2. CASE RefreshPeer(p)
    <3>1. PICK rec \in ClientType : rec = [pc |-> "dial", conn |-> online, gen |-> 0]
      <4>1. online \in 0 .. MaxConns /\ 0 \in 0 .. MaxGens /\ "dial" \in CallPc
        BY <1>4, ServingAssumption DEF CallPc
      <4>2. [pc |-> "dial", conn |-> online, gen |-> 0] \in ClientType
        BY <4>1 DEF ClientType
      <4>3. QED
        BY <4>2
    <3>2. rec.pc = "dial" /\ rec.conn = online /\ client' = [client EXCEPT ![p] = rec]
      BY <2>2, <3>1 DEF RefreshPeer
    <3>3. QED
      BY <1>4, <3>2, ClientUpdate
  <2>3. CASE RefreshDial(p)
    <3>1. PICK pc \in {"down", "idle", "connect", "mux"} :
             GotoClient(p, pc) /\ (client[p].conn = 0 => pc = "down")
      BY <2>3 DEF RefreshDial
    <3>2. QED
      BY <1>4, <3>1, ClientGoto DEF CallPc
  <2>4. CASE RefreshDown(p)
    BY <1>4, <2>4, ClientIdle DEF RefreshDown
  <2>5. CASE Connected(p)
    <3>1. CASE client' = [client EXCEPT ![p] = NoCall]
      BY <1>4, <3>1, ClientIdle
    <3>2. CASE GotoClient(p, "mux")
      <4>1. client[p].pc = "connected"
        BY <2>5 DEF Connected
      <4>2. QED
        BY <1>4, <3>2, <4>1, ClientGoto DEF CallPc
    <3>3. QED
      BY <2>5, <3>1, <3>2 DEF Connected, GotoClient
  <2>6. QED
    BY <2>1, <2>2, <2>3, <2>4, <2>5
<1>7. QED
  BY <1>1, <1>3, <1>5, <1>6, Frames DEF Typed, lsn

\* initiateHandshake and the mux it ends with: the peer's state and the queue change.
LEMMA ConnectIInv ==
  ASSUME IInv, NEW p \in Client, Connect(p) \/ ConnectEmit(p) \/ ConnectTimeout(p)
  PROVE  IInv'
<1> USE DEF IInv
<1>1. UNCHANGED <<lsn, rx, acceptor, runs, loop, gens, stopped>>
  BY DEF Connect, ConnectEmit, ConnectTimeout, srv, net
<1>2. RunsQuiet /\ LoopsQuiet /\ RxQuiet /\ TableSame
  BY <1>1, UnchangedIsQuiet
<1>3. TableInv'
  BY <1>1, <1>2, QuietTable
<1>4. /\ NetTyped' /\ peer'.mux = peer.mux /\ (peer'.state = "offline" => peer.state = "offline")
  <2>1. peer \in [session : BOOLEAN, state : PeerState, mux : 0 .. MaxGens]
        /\ "connecting" \in PeerState /\ "failed" \in PeerState
    BY DEF Typed, NetTyped, PeerState
  <2>2. \/ peer' = peer \/ peer' = [peer EXCEPT !.state = "connecting"]
        \/ peer' = [peer EXCEPT !.state = "failed"]
    BY DEF Connect, ConnectEmit, ConnectTimeout, net
  <2>3. QED
    BY <1>1, <2>1, <2>2 DEF Typed, NetTyped
<1>5. GenInv'
  BY <1>1, <1>2, <1>4, QuietClosing, SameGens
<1>6. UNCHANGED conns /\ Len(conns') \in Nat /\ Len(conns') >= Len(conns)
      /\ (client[p].pc # "idle" /\ client[p].pc # "dial" /\ client[p].pc # "down"
           => (p \in Manager => client[p].conn # 0))
  BY <1>1, Frames DEF lsn, Typed, ClientTyped
<1>7. EventsTyped' /\ OnlineTyped' /\ ClientTyped'
  <2>1. CASE Connect(p)
    <3>1. GotoClient(p, "connecting") /\ client[p].pc = "connect" /\ UNCHANGED <<events, online>>
      BY <2>1 DEF Connect
    <3>2. QED
      BY <1>6, <3>1, ClientGoto, Frames DEF CallPc
  <2>2. CASE ConnectTimeout(p)
    <3>1. GotoClient(p, "failed") /\ client[p].pc = "wait" /\ UNCHANGED <<events, online>>
      BY <2>2 DEF ConnectTimeout
    <3>2. QED
      BY <1>6, <3>1, ClientGoto, Frames DEF CallPc
  <2>3. CASE ConnectEmit(p)
    <3>1. PICK s \in PeerState : s = client[p].pc
      BY <2>3 DEF ConnectEmit, PeerState
    <3>2. Emit(s)
      BY <2>3, <3>1 DEF ConnectEmit
    <3>3. EventsTyped' /\ OnlineTyped'
      BY <1>6, <3>2, EmitFacts
    <3>4. ClientTyped'
      <4>1. CASE client' = [client EXCEPT ![p] = NoCall]
        BY <1>6, <4>1, ClientIdle
      <4>2. CASE client[p].pc = "connecting" /\ GotoClient(p, "wait")
        BY <1>6, <4>2, ClientGoto DEF CallPc
      <4>3. QED
        BY <2>3, <4>1, <4>2 DEF ConnectEmit, GotoClient
    <3>5. QED
      BY <3>3, <3>4
  <2>4. QED
    BY <2>1, <2>2, <2>3
<1>8. QED
  BY <1>1, <1>3, <1>4, <1>5, <1>7, Frames DEF Typed, lsn

LEMMA ClientMuxIInv ==
  ASSUME IInv, NEW p \in Client, ClientMux(p) \/ ClientEmit(p)
  PROVE  IInv'
<1> USE DEF IInv
<1>1. UNCHANGED <<lsn, rx, acceptor, runs, loop>> /\ client[p].pc \in {"mux", "emit"}
  BY DEF ClientMux, ClientEmit, srv
<1>2. RunsQuiet /\ LoopsQuiet /\ RxQuiet /\ TableSame
  BY <1>1, UnchangedIsQuiet
<1>3. TableInv'
  BY <1>1, <1>2, QuietTable
<1>4. \A h \in 1 .. Len(gens) : Closing(h) => Closing(h)'
  BY <1>2, QuietClosing
<1>5. /\ UNCHANGED conns /\ Len(conns') \in Nat /\ Len(conns') >= Len(conns)
      /\ p \in Manager => client[p].conn # 0
      /\ client[p] \in ClientType /\ client[p].conn \in 0 .. Len(conns)
  BY <1>1, Frames DEF lsn, Typed, ClientTyped, ClientType
<1>6. CASE ClientMux(p)
  <2>1. PICK g \in Gen, made \in BOOLEAN :
          /\ EnsureServiceMux(g, made)
          /\ client' = [client EXCEPT ![p].pc = IF made THEN "emit" ELSE "use", ![p].gen = g]
    BY <1>6 DEF ClientMux
  <2>2. NetTyped' /\ GenInv'
    BY <1>4, <2>1, EnsureGens
  <2>0. PICK pc \in {"emit", "use"} : client' = [client EXCEPT ![p].pc = pc, ![p].gen = g]
    BY <2>1
  <2>3. PICK rec \in ClientType :
          /\ rec = [client[p] EXCEPT !.pc = pc, !.gen = g]
          /\ rec.gen = g /\ rec.conn = client[p].conn /\ rec.pc \in {"emit", "use"}
    <3>1. g \in 0 .. MaxGens /\ "emit" \in CallPc /\ "use" \in CallPc
      BY ServingAssumption DEF Gen, CallPc
    <3>2. pc \in CallPc
      BY <3>1
    <3>3. [client[p] EXCEPT !.pc = pc, !.gen = g] \in ClientType
      BY <1>5, <3>1, <3>2 DEF ClientType
    <3>4. /\ [client[p] EXCEPT !.pc = pc, !.gen = g].gen = g
          /\ [client[p] EXCEPT !.pc = pc, !.gen = g].conn = client[p].conn
          /\ [client[p] EXCEPT !.pc = pc, !.gen = g].pc = pc
      BY <1>5 DEF ClientType
    <3>5. QED
      BY <3>3, <3>4
  <2>4. client' = [client EXCEPT ![p] = rec]
    BY <2>0, <2>3
  <2>5. ClientTyped'
    BY <1>5, <2>3, <2>4, ClientUpdate
  <2>6. UNCHANGED <<events, online>>
    BY <1>6 DEF ClientMux
  <2>7. QED
    BY <1>1, <1>3, <1>5, <2>2, <2>5, <2>6, Frames DEF Typed
<1>7. CASE ClientEmit(p)
  <2>1. UNCHANGED net /\ Emit("established") /\ GotoClient(p, "use") /\ client[p].pc = "emit"
    BY <1>7 DEF ClientEmit
  <2>2. EventsTyped' /\ OnlineTyped'
    BY <1>5, <2>1, EmitFacts DEF PeerState
  <2>3. ClientTyped'
    BY <1>5, <2>1, ClientGoto DEF CallPc
  <2>4. GenInv'
    BY <1>4, <2>1, SameGens DEF net
  <2>5. QED
    BY <1>1, <1>3, <1>5, <2>1, <2>2, <2>3, <2>4, Frames DEF Typed
<1>8. QED
  BY <1>6, <1>7

\* The mux goes into a new Conn (Dial) or into the one the caller has (RefreshPeer).
LEMMA ClientUseIInv ==
  ASSUME IInv, NEW p \in Client, DialInsert(p) \/ RefreshAssign(p)
  PROVE  IInv'
<1> USE DEF IInv
<1>1. /\ UNCHANGED <<net, lmu, events, rx, acceptor, runs, loop, online>>
      /\ client[p].pc = "use" /\ client' = [client EXCEPT ![p] = NoCall]
      /\ client[p].gen \in Gen
  BY DEF DialInsert, RefreshAssign, srv, Typed, ClientTyped
<1>2. RunsQuiet /\ LoopsQuiet /\ RxQuiet
  BY <1>1, UnchangedIsQuiet
<1>3. GenInv'
  BY <1>1, <1>2, QuietClosing, SameGens DEF net
<1>4. TableInv' /\ LsnTyped' /\ Len(conns') \in Nat /\ Len(conns') >= Len(conns)
  <2>1. CASE DialInsert(p)
    <3>1. ~lmu /\ InsertConn(client[p].gen)
      BY <2>1 DEF DialInsert
    <3>2. QED
      BY <1>1, <1>2, <3>1, InsertFacts, InsertTable
  <2>2. CASE RefreshAssign(p)
    <3>1. /\ p \in Manager /\ UNCHANGED <<established, lmu>>
          /\ conns' = [conns EXCEPT ![client[p].conn].smux = client[p].gen]
      BY <2>2 DEF RefreshAssign
    <3>2. /\ client[p].conn \in 1 .. Len(conns)
          /\ conns \in Seq([smux : Gen, closed : BOOLEAN]) /\ Len(conns) \in Nat
      BY SMTT(30), <1>1, <3>1, LenProperties DEF Typed, ClientTyped, LsnTyped
    <3>3. QED
      BY <1>1, <1>2, <3>1, <3>2, AssignFacts, QuietTable
  <2>3. QED
    BY <2>1, <2>2
<1>5. ClientTyped'
  BY <1>1, <1>4, ClientIdle
<1>6. QED
  BY <1>1, <1>3, <1>4, <1>5, Frames DEF Typed

-----------------------------------------------------------------------------
(* Conn.Close, which runs and loops call.                                   *)

\* The half before the mux is closed.
LEMMA CloseBeginFacts ==
  ASSUME Typed, TableInv, NEW c \in 1 .. Len(conns), NEW goto,
         ConnCloseBegin(c, "closeMux", "done", goto)
  PROVE  /\ ~lmu /\ LsnTyped' /\ Len(conns') \in Nat /\ Len(conns') >= Len(conns)
         /\ UNCHANGED <<gens, stopped>>
         /\ goto = "done" =>
              /\ UNCHANGED <<peer, lmu>>
              /\ \A d \in 1 .. Len(conns') : ~conns'[d].closed => established' = d
              /\ established' # 0 => ~conns'[established'].closed
         /\ goto # "done" =>
              /\ goto = "closeMux" /\ GoOffline /\ lmu' = TRUE /\ established' = c
              /\ \A d \in 1 .. Len(conns') : conns'[d].closed
              /\ peer.mux = conns[c].smux
<1>0. /\ conns \in Seq([smux : Gen, closed : BOOLEAN]) /\ Len(conns) \in Nat
      /\ Len(conns) <= MaxConns /\ conns[c] \in [smux : Gen, closed : BOOLEAN]
      /\ established \in 0 .. Len(conns) /\ lmu \in BOOLEAN /\ ~lmu
      /\ UNCHANGED <<gens, stopped>>
  BY LenProperties, ElementOfSeq DEF Typed, LsnTyped, ConnCloseBegin
<1>1. CASE conns[c].closed
  <2>1. goto = "done" /\ UNCHANGED <<peer, conns, established, lmu>>
    BY <1>1 DEF ConnCloseBegin, lsn
  <2>2. QED
    BY <1>0, <2>1 DEF LsnTyped, TableInv
<1>2. CASE ~conns[c].closed
  <2>1. established = c
    BY <1>2 DEF TableInv
  <2>2. conns' = [conns EXCEPT ![c].closed = TRUE]
    BY <1>2 DEF ConnCloseBegin
  <2>3. PICK e \in [smux : Gen, closed : BOOLEAN] :
          e = [conns[c] EXCEPT !.closed = TRUE] /\ e.closed
    <3>1. [conns[c] EXCEPT !.closed = TRUE] \in [smux : Gen, closed : BOOLEAN]
      BY <1>0
    <3>2. [conns[c] EXCEPT !.closed = TRUE].closed
      BY <1>0
    <3>3. QED
      BY <3>1, <3>2
  <2>4. conns' = [conns EXCEPT ![c] = e]
    BY <2>2, <2>3
  <2>5. /\ conns' \in Seq([smux : Gen, closed : BOOLEAN]) /\ Len(conns') = Len(conns)
        /\ conns'[c] = e /\ \A d \in 1 .. Len(conns) : d # c => conns'[d] = conns[d]
    BY <1>0, <2>4, UpdateFacts
  <2>6. \A d \in 1 .. Len(conns') : conns'[d].closed
    BY <2>1, <2>3, <2>5 DEF TableInv
  <2>7. CASE peer.mux # conns[c].smux
    <3>1. goto = "done" /\ established' = 0 /\ UNCHANGED <<peer, lmu>>
      BY <1>2, <2>1, <2>7 DEF ConnCloseBegin
    <3>2. QED
      BY <1>0, <2>5, <2>6, <3>1 DEF LsnTyped
  <2>8. CASE peer.mux = conns[c].smux
    <3>1. goto = "closeMux" /\ GoOffline /\ lmu' = TRUE /\ established' = established
      BY <1>2, <2>8 DEF ConnCloseBegin
    <3>2. QED
      BY <1>0, <2>1, <2>5, <2>6, <2>8, <3>1 DEF LsnTyped
  <2>9. QED
    BY <2>7, <2>8
<1>3. QED
  BY <1>1, <1>2

\* GoOffline takes the current generation out; the one who does it closes it next.
LEMMA OfflineGens ==
  ASSUME Typed, TableInv, GenInv, ~lmu, GoOffline, UNCHANGED <<gens, stopped, rx>>,
         NEW m, m = peer.mux, m # 0 => Closing(m)'
  PROVE  NetTyped' /\ GenInv'
<1>1. /\ peer \in [session : BOOLEAN, state : PeerState, mux : 0 .. MaxGens]
      /\ "offline" \in PeerState /\ 0 \in 0 .. MaxGens
  BY ServingAssumption DEF Typed, NetTyped, PeerState
<1>2. /\ peer' \in [session : BOOLEAN, state : PeerState, mux : 0 .. MaxGens]
      /\ peer'.mux = 0
  BY <1>1 DEF GoOffline
<1>3. NetTyped'
  BY <1>2 DEF Typed, NetTyped
<1>4. ASSUME NEW g \in 1 .. Len(gens), gens[g]
      PROVE  Closing(g)'
  <2>1. CASE g = peer.mux
    <3>1. Len(gens) \in Nat
      BY LenProperties DEF Typed, NetTyped
    <3>2. QED
      BY <2>1, <3>1
  <2>2. CASE g # peer.mux
    <3>1. Closing(g)
      BY <1>4, <2>2 DEF GenInv, ForgottenGensClosed
    <3>2. /\ \A r \in 1 .. Len(runs) : ~RunHolds(r) /\ r \in RunId
          /\ \A r \in RunId, l \in Loops : ~LoopHolds(r, l)
      BY RunFacts DEF TableInv
    <3>3. rx.pc = "close" /\ rx.gen = g
      BY <3>1, <3>2 DEF Closing, Running, RunHolds, LoopHolds, InClose
    <3>4. QED
      BY <3>3 DEF Closing
  <2>3. QED
    BY <2>1, <2>2
<1>5. GenInv'
  BY <1>2, <1>4 DEF GenInv, ForgottenGensClosed
<1>6. QED
  BY <1>3, <1>5

\* The half after it: whoever held the lock has released it.
LEMMA CloseEndFacts ==
  ASSUME Typed, TableInv, NEW c, ConnCloseEnd(c),
         established = c, established # 0, conns[established].closed,
         \A r \in 1 .. Len(runs') : ~RunHolds(r)',
         \A r \in RunId, l \in Loops : ~LoopHolds(r, l)'
  PROVE  LsnTyped' /\ TableInv' /\ UNCHANGED conns
<1>1. /\ Len(conns) \in Nat /\ conns' = conns /\ established' = 0 /\ lmu' = FALSE
  BY LenProperties DEF Typed, LsnTyped, ConnCloseEnd
<1>2. \A d \in 1 .. Len(conns) : conns[d].closed
  BY DEF TableInv
<1>3. LsnTyped'
  <2>1. conns' \in Seq([smux : Gen, closed : BOOLEAN]) /\ Len(conns') <= MaxConns
    BY <1>1 DEF Typed, LsnTyped
  <2>2. established' \in 0 .. Len(conns')
    BY <1>1
  <2>3. lmu' \in BOOLEAN
    BY <1>1
  <2>4. QED
    BY <2>1, <2>2, <2>3 DEF LsnTyped
<1>4. TableInv'
  BY <1>1, <1>2 DEF TableInv
<1>5. QED
  BY <1>1, <1>3, <1>4

-----------------------------------------------------------------------------
(* A serving run.                                                          *)

\* A run moves on.
LEMMA RunUpdate ==
  ASSUME Typed, NEW r \in 1 .. Len(runs), NEW pc \in RunPc, NEW gen \in 0 .. MaxGens,
         \/ runs' = [runs EXCEPT ![r].pc = pc, ![r].gen = gen]
         \/ runs' = [runs EXCEPT ![r].pc = pc] /\ gen = runs[r].gen,
         Len(conns') \in Nat, Len(conns') >= Len(conns)
  PROVE  /\ RunsTyped' /\ Len(runs') = Len(runs)
         /\ runs'[r].pc = pc /\ runs'[r].conn = runs[r].conn /\ runs'[r].gen = gen
         /\ \A q \in 1 .. Len(runs) : q # r => runs'[q] = runs[q]
<1>1. /\ runs \in Seq(RunType) /\ runs[r] \in RunType /\ Len(runs) <= MaxRuns
      /\ \A q \in 1 .. Len(runs) : runs[q].conn \in 1 .. Len(conns)
      /\ Len(conns) \in Nat
  BY LenProperties, ElementOfSeq DEF Typed, RunsTyped, LsnTyped
<1>2. PICK rec \in RunType :
         /\ rec.pc = pc /\ rec.gen = gen /\ rec.conn = runs[r].conn
         /\ runs' = [runs EXCEPT ![r] = rec]
  <2>1. CASE runs' = [runs EXCEPT ![r].pc = pc, ![r].gen = gen]
    <3>1. [runs[r] EXCEPT !.pc = pc, !.gen = gen] \in RunType
      BY <1>1 DEF RunType
    <3>2. /\ [runs[r] EXCEPT !.pc = pc, !.gen = gen].pc = pc
          /\ [runs[r] EXCEPT !.pc = pc, !.gen = gen].gen = gen
          /\ [runs[r] EXCEPT !.pc = pc, !.gen = gen].conn = runs[r].conn
      BY <1>1 DEF RunType
    <3>3. PICK rec \in RunType : rec = [runs[r] EXCEPT !.pc = pc, !.gen = gen]
      BY <3>1
    <3>4. runs' = [runs EXCEPT ![r] = rec]
      BY <2>1, <3>3
    <3>5. QED
      BY <3>2, <3>3, <3>4
  <2>2. CASE runs' = [runs EXCEPT ![r].pc = pc] /\ gen = runs[r].gen
    <3>1. PICK rec \in RunType : rec = [runs[r] EXCEPT !.pc = pc]
      BY <1>1 DEF RunType
    <3>2. rec.pc = pc /\ rec.gen = gen /\ rec.conn = runs[r].conn
      BY <1>1, <2>2, <3>1 DEF RunType
    <3>3. runs' = [runs EXCEPT ![r] = rec]
      BY <2>2, <3>1
    <3>4. QED
      BY <3>2, <3>3
  <2>3. QED
    BY <2>1, <2>2
<1>3. /\ runs' \in Seq(RunType) /\ Len(runs') = Len(runs) /\ runs'[r] = rec
      /\ \A q \in 1 .. Len(runs) : q # r => runs'[q] = runs[q]
  BY <1>1, <1>2, UpdateFacts
<1>4. \A q \in 1 .. Len(runs') : runs'[q].conn \in 1 .. Len(conns')
  <2>1. \A q \in 1 .. Len(runs) : runs'[q].conn = runs[q].conn
    BY <1>2, <1>3
  <2>2. QED
    BY <1>1, <1>3, <2>1
<1>5. QED
  BY <1>1, <1>2, <1>3, <1>4 DEF RunsTyped

\* A run that is not closing its Conn moves on to where it is not either.
LEMMA RunQuiet ==
  ASSUME Typed, NEW r \in 1 .. Len(runs), NEW pc \in RunPc \ InClose,
         Len(runs') = Len(runs), runs'[r].pc = pc, runs'[r].conn = runs[r].conn,
         \A q \in 1 .. Len(runs) : q # r => runs'[q] = runs[q],
         ~RunHolds(r), runs[r].pc = "serving" => \A l \in Loops : ~LoopHolds(r, l)
  PROVE  RunsQuiet
BY DEF RunsQuiet, RunsHeld, RunHolds

\* EnsurePeer, SetPeerUp, and SetPeerDown when both loops have returned.
LEMMA RunQuietIInv ==
  ASSUME IInv, NEW r \in 1 .. Len(runs), RunEnsure(r) \/ RunUp(r) \/ RunDown(r)
  PROVE  IInv'
<1> USE DEF IInv
<1>1. UNCHANGED <<net, lsn, events, rx, acceptor, client, loop>>
  BY DEF RunEnsure, RunUp, RunDown
<1>2. /\ UNCHANGED conns /\ Len(conns') \in Nat /\ Len(conns') >= Len(conns)
      /\ runs[r] \in RunType /\ runs[r].conn \in 1 .. Len(conns) /\ r \in RunId
  BY <1>1, Frames, RunFacts DEF lsn
<1>3. PICK pc \in {"up", "close", "serving"} : GotoRun(r, pc)
  BY DEF RunEnsure, RunUp, RunDown
<1>4. /\ RunsTyped' /\ Len(runs') = Len(runs)
      /\ runs'[r].pc = pc /\ runs'[r].conn = runs[r].conn
      /\ \A q \in 1 .. Len(runs) : q # r => runs'[q] = runs[q]
  <2>1. pc \in RunPc /\ runs[r].gen \in 0 .. MaxGens
    BY <1>2 DEF RunPc, RunType
  <2>2. runs' = [runs EXCEPT ![r].pc = pc]
    BY <1>3 DEF GotoRun
  <2>3. QED
    BY <1>2, <2>1, <2>2, RunUpdate
<1>5. RunsQuiet
  <2>1. pc \in RunPc \ InClose
    BY DEF RunPc, InClose
  <2>2. ~RunHolds(r)
    BY DEF RunEnsure, RunUp, RunDown, RunHolds, InClose
  <2>3. runs[r].pc = "serving" => \A l \in Loops : ~LoopHolds(r, l)
    BY DEF RunEnsure, RunUp, RunDown, LoopHolds, InClose
  <2>4. QED
    BY <1>4, <2>1, <2>2, <2>3, RunQuiet
<1>6. LoopsQuiet /\ RxQuiet /\ TableSame
  BY <1>1, UnchangedIsQuiet
<1>7. TableInv' /\ GenInv'
  BY <1>1, <1>5, <1>6, QuietTable, QuietClosing, SameGens DEF net
<1>8. OnlineTyped'
  <2>1. online' = online \/ online' = runs[r].conn \/ online' = 0
    BY DEF RunEnsure, RunUp, RunDown
  <2>2. QED
    BY <1>2, <2>1, Frames DEF OnlineTyped
<1>9. QED
  BY <1>1, <1>2, <1>4, <1>7, <1>8, Frames DEF Typed

\* The deferred conn.Close of ServeConn, up to the lock.
LEMMA RunCloseIInv ==
  ASSUME IInv, NEW r \in 1 .. Len(runs), RunClose(r)
  PROVE  IInv'
<1> USE DEF IInv
<1>1. UNCHANGED <<events, rx, acceptor, client, loop, online>> /\ runs[r].pc = "close"
  BY DEF RunClose
<1>2. /\ runs[r] \in RunType /\ runs[r].conn \in 1 .. Len(conns) /\ r \in RunId
      /\ conns[runs[r].conn].smux \in Gen
  BY RunFacts
<1>3. PICK c \in 1 .. Len(conns), g \in Gen : c = runs[r].conn /\ g = conns[c].smux
  BY <1>2
<1>4. PICK pc \in {"closeMux", "done"} :
        /\ ConnCloseBegin(c, "closeMux", "done", pc)
        /\ runs' = [runs EXCEPT ![r].pc = pc, ![r].gen = g]
  BY <1>3 DEF RunClose
<1>5. /\ ~lmu /\ LsnTyped' /\ Len(conns') \in Nat /\ Len(conns') >= Len(conns)
      /\ UNCHANGED <<gens, stopped>>
      /\ pc = "done" =>
           /\ UNCHANGED <<peer, lmu>>
           /\ \A d \in 1 .. Len(conns') : ~conns'[d].closed => established' = d
           /\ established' # 0 => ~conns'[established'].closed
      /\ pc # "done" =>
           /\ GoOffline /\ lmu' = TRUE /\ established' = c
           /\ \A d \in 1 .. Len(conns') : conns'[d].closed
           /\ peer.mux = conns[c].smux
  BY <1>4, CloseBeginFacts
<1>6. /\ RunsTyped' /\ Len(runs') = Len(runs)
      /\ runs'[r].pc = pc /\ runs'[r].conn = c /\ runs'[r].gen = g
      /\ \A q \in 1 .. Len(runs) : q # r => runs'[q] = runs[q]
  <2>1. pc \in RunPc /\ g \in 0 .. MaxGens
    BY ServingAssumption DEF RunPc, Gen
  <2>2. /\ runs' = [runs EXCEPT ![r].pc = pc, ![r].gen = g]
        /\ Len(conns') \in Nat /\ Len(conns') >= Len(conns)
    BY <1>4, <1>5
  <2>3. /\ RunsTyped' /\ Len(runs') = Len(runs)
        /\ runs'[r].pc = pc /\ runs'[r].conn = runs[r].conn /\ runs'[r].gen = g
        /\ \A q \in 1 .. Len(runs) : q # r => runs'[q] = runs[q]
    BY <2>1, <2>2, RunUpdate
  <2>4. QED
    BY <1>3, <2>3
<1>7. LoopsQuiet /\ RxQuiet
  BY <1>1, UnchangedIsQuiet
<1>8. CASE pc = "done"
  <2>1. RunsQuiet
    <3>1. pc \in RunPc \ InClose /\ ~RunHolds(r)
      BY <1>1, <1>8 DEF RunPc, InClose, RunHolds
    <3>2. QED
      BY <1>1, <1>3, <1>6, <3>1, RunQuiet
  <2>2. /\ \A q \in 1 .. Len(runs') : ~RunHolds(q)'
        /\ \A q \in RunId, l \in Loops : ~LoopHolds(q, l)'
    BY <1>5, <1>7, <2>1, NoHolders
  <2>3. TableInv'
    BY <1>5, <1>8, <2>2 DEF TableInv
  <2>4. UNCHANGED net
    BY <1>5, <1>8 DEF net
  <2>5. GenInv'
    BY <1>7, <2>1, <2>4, QuietClosing, SameGens DEF net
  <2>6. QED
    BY <1>1, <1>5, <1>6, <2>3, <2>4, <2>5, Frames DEF Typed
<1>9. CASE pc = "closeMux"
  <2>1. /\ \A q \in 1 .. Len(runs) : ~RunHolds(q)
        /\ \A q \in RunId, l \in Loops : ~LoopHolds(q, l)
    BY <1>5 DEF TableInv
  <2>2. /\ \A q \in 1 .. Len(runs') : RunHolds(q)' => q = r
        /\ \A q \in RunId, l \in Loops : ~LoopHolds(q, l)'
    BY <1>1, <1>6, <2>1 DEF RunHolds, LoopHolds
  <2>3. /\ lmu' /\ established' = c /\ conns'[established'].closed
    <3>1. c \in 1 .. Len(conns')
      BY <1>5, LenProperties DEF Typed, LsnTyped
    <3>2. QED
      BY <1>5, <1>9, <3>1
  <2>4. TableInv'
    BY <1>5, <1>6, <1>9, <2>2, <2>3 DEF TableInv
  <2>5. Closing(g)'
    BY <1>6, <1>9 DEF Closing
  <2>6. NetTyped' /\ GenInv'
    BY <1>1, <1>3, <1>5, <1>9, <2>5, OfflineGens
  <2>7. QED
    BY <1>1, <1>5, <1>6, <2>4, <2>6, Frames DEF Typed
<1>10. QED
  BY <1>8, <1>9

\* The rest of it.
LEMMA RunCloseRestIInv ==
  ASSUME IInv, NEW r \in 1 .. Len(runs), RunCloseMux(r) \/ RunCloseEnd(r)
  PROVE  IInv'
<1> USE DEF IInv
<1>1. UNCHANGED <<peer, stopped, rx, acceptor, client, loop>>
  BY DEF RunCloseMux, RunCloseEnd, net
<1>2. /\ runs[r] \in RunType /\ runs[r].conn \in 1 .. Len(conns)
      /\ runs[r].gen \in 0 .. MaxGens /\ r \in RunId
  BY RunFacts
<1>3. UNCHANGED conns /\ Len(conns') \in Nat /\ Len(conns') >= Len(conns)
  BY Frames DEF RunCloseMux, RunCloseEnd, ConnCloseEnd, lsn
<1>4. PICK pc \in {"closeEnd", "done"} : GotoRun(r, pc)
  BY DEF RunCloseMux, RunCloseEnd
<1>5. /\ RunsTyped' /\ Len(runs') = Len(runs)
      /\ runs'[r].pc = pc /\ runs'[r].conn = runs[r].conn
      /\ \A q \in 1 .. Len(runs) : q # r => runs'[q] = runs[q]
  <2>1. pc \in RunPc /\ runs' = [runs EXCEPT ![r].pc = pc]
    BY <1>4 DEF RunPc, GotoRun
  <2>2. QED
    BY <1>2, <1>3, <2>1, RunUpdate
<1>6. RunHolds(r)
  BY DEF RunCloseMux, RunCloseEnd, RunHolds, InClose
<1>7. /\ lmu /\ established = runs[r].conn /\ conns[established].closed
      /\ \A q \in 1 .. Len(runs) : RunHolds(q) => q = r
      /\ \A q \in RunId, l \in Loops : ~LoopHolds(q, l)
  BY <1>6 DEF TableInv
<1>8. ASSUME NEW h, Closing(h), h # runs[r].gen \/ runs[r].pc # "closeMux"
      PROVE  Closing(h)'
  <2>1. rx.pc = "close" /\ rx.gen = h
    <3>1. ~\E q \in 1 .. Len(runs), l \in Loops : Running(q, l, "closeMux")
      BY <1>7, LenProperties, ServingAssumption
         DEF Running, LoopHolds, InClose, Typed, RunsTyped, RunId
    <3>2. ~\E q \in 1 .. Len(runs) : runs[q].pc = "closeMux" /\ runs[q].gen = h
      BY <1>7, <1>8 DEF RunHolds, InClose
    <3>3. QED
      BY <1>8, <3>1, <3>2 DEF Closing
  <2>2. QED
    BY <1>1, <2>1 DEF Closing
<1>9. CASE RunCloseMux(r)
  <2>1. /\ CloseGen(runs[r].gen) /\ UNCHANGED <<lsn, events, online>>
        /\ GotoRun(r, "closeEnd") /\ runs[r].pc = "closeMux"
    BY <1>9 DEF RunCloseMux
  <2>2. NetTyped' /\ GenInv'
    BY <1>1, <1>8, <2>1, ClosedGens
  <2>3. RunsHeld
    <3>1. runs[r].pc # "serving"
      BY <2>1
    <3>2. QED
      BY <1>5, <1>6, <3>1 DEF RunsHeld, RunHolds
  <2>4. LoopsHeld /\ TableSame
    BY <1>1, <2>1, UnchangedIsQuiet DEF LoopsQuiet
  <2>5. TableInv'
    BY <2>3, <2>4, HeldTable
  <2>6. QED
    BY <1>1, <1>3, <1>5, <2>1, <2>2, <2>5, Frames DEF Typed
<1>10. CASE RunCloseEnd(r)
  <2>1. /\ UNCHANGED net /\ Emit("offline") /\ ConnCloseEnd(runs[r].conn)
        /\ runs[r].pc = "closeEnd" /\ runs' = [runs EXCEPT ![r].pc = "done"]
    BY <1>10 DEF RunCloseEnd, GotoRun
  <2>2. NetTyped' /\ GenInv'
    BY <1>8, <2>1, SameGens, Frames DEF net
  <2>3. runs'[r].pc = "done"
    <3>1. "done" \in RunPc
      BY DEF RunPc
    <3>2. QED
      BY <1>2, <1>3, <2>1, <3>1, RunUpdate
  <2>4. /\ \A q \in 1 .. Len(runs') : ~RunHolds(q)'
        /\ \A q \in RunId, l \in Loops : ~LoopHolds(q, l)'
    BY <1>1, <1>5, <1>7, <2>3 DEF RunHolds, LoopHolds, InClose
  <2>5. LsnTyped' /\ TableInv'
    <3>1. established # 0
      BY <1>2, <1>7
    <3>2. QED
      BY <1>7, <2>1, <2>4, <3>1, CloseEndFacts
  <2>6. EventsTyped' /\ OnlineTyped'
    BY <1>3, <2>1, EmitFacts DEF PeerState
  <2>7. QED
    BY <1>1, <1>3, <1>5, <2>2, <2>5, <2>6, Frames DEF Typed
<1>11. QED
  BY <1>9, <1>10

-----------------------------------------------------------------------------
(* An accept loop.                                                         *)

LoopType == [pc : LoopPc, gen : 0 .. MaxGens]

\* A loop moves on.
LEMMA LoopUpdate ==
  ASSUME Typed, NEW r \in RunId, NEW l \in Loops, NEW rec \in LoopType,
         loop' = [loop EXCEPT ![r][l] = rec], rec.pc \in HasGen => rec.gen \in Gen
  PROVE  /\ LoopTyped'
         /\ \A q \in RunId, m \in Loops :
              loop'[q][m] = IF q = r /\ m = l THEN rec ELSE loop[q][m]
<1>1. loop \in [RunId -> [Loops -> LoopType]]
  BY DEF Typed, LoopTyped, LoopType
<1>2. /\ \A q \in RunId, m \in Loops :
           loop'[q][m] = IF q = r /\ m = l THEN rec ELSE loop[q][m]
      /\ loop' \in [RunId -> [Loops -> LoopType]]
  BY <1>1
<1>3. \A q \in RunId, m \in Loops : loop'[q][m].pc \in HasGen => loop'[q][m].gen \in Gen
  BY <1>2 DEF Typed, LoopTyped, HasGen
<1>4. QED
  BY <1>2, <1>3 DEF LoopTyped, LoopType, HasGen

LEMMA LoopGoto ==
  ASSUME Typed, NEW r \in RunId, NEW l \in Loops, NEW pc \in LoopPc, Goto(r, l, pc)
  PROVE  \E rec \in LoopType : /\ rec.pc = pc /\ rec.gen = loop[r][l].gen
                               /\ loop' = [loop EXCEPT ![r][l] = rec]
<1>1. loop[r][l] \in LoopType
  BY DEF Typed, LoopTyped, LoopType
<1>2. PICK rec \in LoopType : rec = [loop[r][l] EXCEPT !.pc = pc]
  BY <1>1 DEF LoopType
<1>3. rec.pc = pc /\ rec.gen = loop[r][l].gen
  BY <1>1, <1>2 DEF LoopType
<1>4. loop' = [loop EXCEPT ![r][l] = rec]
  BY <1>2 DEF Goto
<1>5. QED
  BY <1>3, <1>4

\* Accepting streams, refreshing the Conn's mux, stopping the service.
LoopQuietStep(r, l) ==
  \/ LoopAccept(r, l) \/ LoopServiceMux(r, l) \/ LoopRefresh(r, l) \/ LoopEmit(r, l)
  \/ LoopAssign(r, l) \/ LoopStopService(r, l) \/ LoopStream(r, l) \/ LoopMuxClosed(r, l)

\* Such a step does not get the loop into Conn.Close.
LEMMA LoopQuietTarget ==
  ASSUME Typed, NEW r \in 1 .. Len(runs), NEW l \in Loops, LoopQuietStep(r, l)
  PROVE  \E rec \in LoopType :
           /\ loop' = [loop EXCEPT ![r][l] = rec]
           /\ rec.pc \notin InClose /\ (rec.pc \in HasGen => rec.gen \in Gen)
<1>0. r \in RunId /\ loop[r][l] \in LoopType
  BY RunFacts DEF Typed, LoopTyped, LoopType
<1> DEFINE Target(rec) == /\ loop' = [loop EXCEPT ![r][l] = rec]
                          /\ rec.pc \notin InClose /\ (rec.pc \in HasGen => rec.gen \in Gen)
<1>1. ASSUME NEW pc \in {"stop", "smux", "blocked", "close", "accept"}, Goto(r, l, pc)
      PROVE  \E rec \in LoopType : Target(rec)
  <2>1. pc \in LoopPc /\ pc \notin InClose /\ pc \notin HasGen
    BY <1>1 DEF LoopPc, InClose, HasGen
  <2>2. QED
    BY <1>0, <1>1, <2>1, LoopGoto
<1>2. ASSUME NEW pc \in {"assign", "stopAssign", "stopService"}, Goto(r, l, pc),
             loop[r][l].pc \in HasGen
      PROVE  \E rec \in LoopType : Target(rec)
  <2>1. pc \in LoopPc /\ pc \notin InClose /\ loop[r][l].gen \in Gen
    BY <1>0, <1>2 DEF LoopPc, InClose, HasGen, Typed, LoopTyped
  <2>2. QED
    BY <1>0, <1>2, <2>1, LoopGoto DEF HasGen
<1>3. CASE LoopAccept(r, l)
  BY <1>1, <1>3 DEF LoopAccept
<1>4. CASE LoopServiceMux(r, l)
  <2>1. PICK pc \in {"stop", "close", "blocked", "stopService", "refresh", "stopRefresh"},
             g \in {0, conns[runs[r].conn].smux} :
          /\ loop' = [loop EXCEPT ![r][l] = [pc |-> pc, gen |-> g]]
          /\ pc = "stopService" => g = conns[runs[r].conn].smux
    BY <1>4 DEF LoopServiceMux
  <2>2. conns[runs[r].conn].smux \in Gen
    BY RunFacts
  <2>3. /\ pc \in LoopPc /\ pc \notin InClose /\ g \in 0 .. MaxGens
        /\ pc \in HasGen => g \in Gen
    BY <2>1, <2>2, ServingAssumption DEF LoopPc, InClose, HasGen, Gen
  <2>4. [pc |-> pc, gen |-> g] \in LoopType
    BY <2>3 DEF LoopType
  <2>5. QED
    BY <2>1, <2>3, <2>4
<1>5. CASE LoopRefresh(r, l)
  <2>1. PICK pc \in {"emit", "assign", "stopEmit", "stopAssign"}, g \in Gen :
          loop' = [loop EXCEPT ![r][l] = [pc |-> pc, gen |-> g]]
    BY <1>5 DEF LoopRefresh
  <2>2. pc \in LoopPc /\ pc \notin InClose /\ g \in 0 .. MaxGens
    BY ServingAssumption DEF LoopPc, InClose, Gen
  <2>3. [pc |-> pc, gen |-> g] \in LoopType
    BY <2>2 DEF LoopType
  <2>4. QED
    BY <2>1, <2>2, <2>3
<1>6. CASE LoopEmit(r, l)
  BY <1>2, <1>6 DEF LoopEmit, Running, HasGen
<1>7. CASE LoopAssign(r, l)
  <2>1. PICK pc \in {"blocked", "stopService"} : Goto(r, l, pc)
    BY <1>7 DEF LoopAssign
  <2>2. loop[r][l].pc \in HasGen
    BY <1>7 DEF LoopAssign, Running, HasGen
  <2>3. QED
    BY <1>1, <1>2, <2>1, <2>2
<1>8. CASE LoopStopService(r, l) \/ LoopStream(r, l) \/ LoopMuxClosed(r, l)
  BY <1>1, <1>8 DEF LoopStopService, LoopStream, LoopMuxClosed
<1>9. QED
  BY <1>3, <1>4, <1>5, <1>6, <1>7, <1>8 DEF LoopQuietStep

LEMMA LoopQuietIInv ==
  ASSUME IInv, NEW r \in 1 .. Len(runs), NEW l \in Loops, LoopQuietStep(r, l)
  PROVE  IInv'
<1> USE DEF IInv
<1>1. /\ UNCHANGED <<rx, acceptor, client, runs>>
      /\ loop[r][l].pc \notin InClose
  BY DEF LoopQuietStep, LoopAccept, LoopServiceMux, LoopRefresh, LoopEmit, LoopAssign,
         LoopStopService, LoopStream, LoopMuxClosed, Running, InClose
<1>2. r \in RunId
  BY RunFacts
<1>3. PICK rec \in LoopType :
        /\ loop' = [loop EXCEPT ![r][l] = rec]
        /\ rec.pc \notin InClose /\ (rec.pc \in HasGen => rec.gen \in Gen)
  BY LoopQuietTarget
<1>4. /\ LoopTyped'
      /\ \A q \in RunId, m \in Loops :
           loop'[q][m] = IF q = r /\ m = l THEN rec ELSE loop[q][m]
  BY ZenonT(60), <1>2, <1>3, LoopUpdate
<1>5. LoopsQuiet
  BY <1>1, <1>3, <1>4 DEF LoopsQuiet, LoopsHeld, LoopHolds
<1>6. RunsQuiet /\ RxQuiet
  BY <1>1, UnchangedIsQuiet
<1>7. \A h \in 1 .. Len(gens) : Closing(h) => Closing(h)'
  BY <1>5, <1>6, QuietClosing
<1>8. NetTyped' /\ GenInv'
  <2>1. CASE LoopRefresh(r, l)
    BY <1>7, <2>1, EnsureGens DEF LoopRefresh
  <2>2. CASE LoopStopService(r, l)
    <3>1. /\ UNCHANGED <<peer, gens>> /\ Running(r, l, "stopService")
          /\ stopped' = stopped \union {<<loop[r][l].gen, l>>}
      BY <2>2 DEF LoopStopService
    <3>2. loop[r][l].gen \in Gen
      BY <1>2, <3>1 DEF Running, Typed, LoopTyped, HasGen
    <3>3. NetTyped'
      BY <3>1, <3>2 DEF Typed, NetTyped
    <3>4. GenInv'
      BY <1>7, <3>1, SameGens
    <3>5. QED
      BY <3>3, <3>4
  <2>3. CASE UNCHANGED net
    BY <1>7, <2>3, SameGens, Frames DEF net
  <2>4. QED
    BY <2>1, <2>2, <2>3 DEF LoopQuietStep, LoopAccept, LoopServiceMux, LoopEmit, LoopAssign,
                            LoopStream, LoopMuxClosed
<1>9. LsnTyped' /\ TableSame /\ Len(conns') \in Nat /\ Len(conns') >= Len(conns)
  <2>1. CASE LoopAssign(r, l)
    <3>1. PICK c \in 1 .. Len(conns), g \in Gen : c = runs[r].conn /\ g = loop[r][l].gen
      BY <1>2, <2>1, RunFacts DEF LoopAssign, Running, Typed, LoopTyped, HasGen
    <3>2. conns' = [conns EXCEPT ![c].smux = g] /\ UNCHANGED <<established, lmu>>
      BY <2>1, <3>1 DEF LoopAssign
    <3>3. QED
      BY <3>2, AssignFacts
  <2>2. CASE UNCHANGED lsn
    BY <2>2, UnchangedIsQuiet, Frames DEF lsn
  <2>3. QED
    BY <2>1, <2>2 DEF LoopQuietStep, LoopAccept, LoopServiceMux, LoopRefresh, LoopEmit,
                      LoopStopService, LoopStream, LoopMuxClosed
<1>10. TableInv'
  BY <1>5, <1>6, <1>9, QuietTable
<1>11. EventsTyped' /\ OnlineTyped'
  <2>1. CASE LoopEmit(r, l)
    BY <2>1, EmitFacts DEF LoopEmit, PeerState, lsn
  <2>2. CASE UNCHANGED <<events, online>>
    BY <1>9, <2>2, Frames
  <2>3. QED
    BY <2>1, <2>2 DEF LoopQuietStep, LoopAccept, LoopServiceMux, LoopRefresh, LoopAssign,
                      LoopStopService, LoopStream, LoopMuxClosed
<1>12. QED
  BY <1>1, <1>4, <1>8, <1>9, <1>10, <1>11, Frames DEF Typed

\* The deferred conn.Close of serveAdmin and servePublic, up to the lock.
LEMMA LoopCloseIInv ==
  ASSUME IInv, NEW r \in 1 .. Len(runs), NEW l \in Loops, LoopClose(r, l)
  PROVE  IInv'
<1> USE DEF IInv
<1>1. /\ UNCHANGED <<events, rx, acceptor, client, runs, online>>
      /\ runs[r].pc = "serving" /\ loop[r][l].pc = "close"
  BY DEF LoopClose, Running
<1>2. r \in RunId
  BY RunFacts
<1>3. PICK c \in 1 .. Len(conns), g \in Gen : c = runs[r].conn /\ g = conns[c].smux
  BY RunFacts
<1>4. PICK pc \in {"closeMux", "done"} :
        /\ ConnCloseBegin(c, "closeMux", "done", pc)
        /\ loop' = [loop EXCEPT ![r][l] = [pc |-> pc, gen |-> g]]
  BY <1>3 DEF LoopClose
<1>5. /\ ~lmu /\ LsnTyped' /\ Len(conns') \in Nat /\ Len(conns') >= Len(conns)
      /\ UNCHANGED <<gens, stopped>>
      /\ pc = "done" =>
           /\ UNCHANGED <<peer, lmu>>
           /\ \A d \in 1 .. Len(conns') : ~conns'[d].closed => established' = d
           /\ established' # 0 => ~conns'[established'].closed
      /\ pc # "done" =>
           /\ GoOffline /\ lmu' = TRUE /\ established' = c
           /\ \A d \in 1 .. Len(conns') : conns'[d].closed
           /\ peer.mux = conns[c].smux
  BY <1>4, CloseBeginFacts
<1>6. /\ LoopTyped'
      /\ \A q \in RunId, m \in Loops :
           loop'[q][m] = IF q = r /\ m = l THEN [pc |-> pc, gen |-> g] ELSE loop[q][m]
  <2>1. pc \in LoopPc /\ g \in 0 .. MaxGens /\ pc \notin HasGen
    BY ServingAssumption DEF LoopPc, Gen, HasGen
  <2>2. PICK rec \in LoopType : rec = [pc |-> pc, gen |-> g]
    BY <2>1 DEF LoopType
  <2>3. loop' = [loop EXCEPT ![r][l] = rec] /\ rec.pc \notin HasGen
    BY <1>4, <2>1, <2>2
  <2>4. /\ LoopTyped'
        /\ \A q \in RunId, m \in Loops :
             loop'[q][m] = IF q = r /\ m = l THEN rec ELSE loop[q][m]
    BY ZenonT(60), <1>2, <2>3, LoopUpdate
  <2>5. QED
    BY <2>2, <2>4
<1>7. RunsQuiet /\ RxQuiet
  BY <1>1, UnchangedIsQuiet
<1>8. CASE pc = "done"
  <2>1. LoopsQuiet
    BY <1>1, <1>6, <1>8 DEF LoopsQuiet, LoopsHeld, LoopHolds, InClose
  <2>2. /\ \A q \in 1 .. Len(runs') : ~RunHolds(q)'
        /\ \A q \in RunId, m \in Loops : ~LoopHolds(q, m)'
    BY <1>5, <1>7, <2>1, NoHolders
  <2>3. TableInv'
    BY <1>5, <1>8, <2>2 DEF TableInv
  <2>4. UNCHANGED net
    BY <1>5, <1>8 DEF net
  <2>5. GenInv'
    BY <1>7, <2>1, <2>4, QuietClosing, SameGens DEF net
  <2>6. QED
    BY <1>1, <1>5, <1>6, <2>3, <2>4, <2>5, Frames DEF Typed
<1>9. CASE pc = "closeMux"
  <2>1. /\ \A q \in 1 .. Len(runs) : ~RunHolds(q)
        /\ \A q \in RunId, m \in Loops : ~LoopHolds(q, m)
    BY <1>5 DEF TableInv
  <2>2. /\ \A q \in 1 .. Len(runs') : ~RunHolds(q)'
        /\ \A q \in RunId, m \in Loops : LoopHolds(q, m)' => q = r /\ m = l
    BY <1>1, <1>6, <2>1 DEF RunHolds, LoopHolds
  <2>3. /\ lmu' /\ established' = c /\ conns'[established'].closed
    <3>1. c \in 1 .. Len(conns')
      BY <1>5, LenProperties DEF Typed, LsnTyped
    <3>2. QED
      BY <1>5, <1>9, <3>1
  <2>4. TableInv'
    BY <1>1, <1>3, <1>5, <1>9, <2>2, <2>3 DEF TableInv
  <2>5. Closing(g)'
    BY <1>1, <1>2, <1>6, <1>9 DEF Closing, Running
  <2>6. NetTyped' /\ GenInv'
    BY <1>1, <1>3, <1>5, <1>9, <2>5, OfflineGens
  <2>7. QED
    BY <1>1, <1>5, <1>6, <2>4, <2>6, Frames DEF Typed
<1>10. QED
  BY <1>8, <1>9

\* The rest of it.
LEMMA LoopCloseRestIInv ==
  ASSUME IInv, NEW r \in 1 .. Len(runs), NEW l \in Loops,
         LoopCloseMux(r, l) \/ LoopCloseEnd(r, l)
  PROVE  IInv'
<1> USE DEF IInv
<1>1. UNCHANGED <<peer, stopped, rx, acceptor, client, runs>> /\ runs[r].pc = "serving"
  BY DEF LoopCloseMux, LoopCloseEnd, net, Running
<1>2. /\ runs[r].conn \in 1 .. Len(conns) /\ r \in RunId
      /\ loop[r][l] \in LoopType
  BY RunFacts DEF Typed, LoopTyped, LoopType
<1>3. UNCHANGED conns /\ Len(conns') \in Nat /\ Len(conns') >= Len(conns)
  BY Frames DEF LoopCloseMux, LoopCloseEnd, ConnCloseEnd, lsn
<1>4. LoopHolds(r, l)
  BY DEF LoopCloseMux, LoopCloseEnd, Running, LoopHolds, InClose
<1>5. PICK rec \in LoopType :
        /\ loop' = [loop EXCEPT ![r][l] = rec]
        /\ LoopCloseMux(r, l) => rec.pc = "closeEnd"
        /\ LoopCloseEnd(r, l) => rec.pc = "done"
        /\ rec.pc \in {"closeEnd", "done"}
  <2>1. CASE LoopCloseMux(r, l)
    <3>1. "closeEnd" \in LoopPc /\ Goto(r, l, "closeEnd") /\ ~LoopCloseEnd(r, l)
      BY <2>1 DEF LoopCloseMux, LoopCloseEnd, Running, LoopPc
    <3>2. QED
      BY <1>2, <3>1, LoopGoto
  <2>2. CASE LoopCloseEnd(r, l)
    <3>1. [pc |-> "done", gen |-> 0] \in LoopType
      BY ServingAssumption DEF LoopType, LoopPc
    <3>2. loop' = [loop EXCEPT ![r][l] = [pc |-> "done", gen |-> 0]] /\ ~LoopCloseMux(r, l)
      BY <2>2 DEF LoopCloseMux, LoopCloseEnd, Running
    <3>3. QED
      BY <3>1, <3>2
  <2>3. QED
    BY <2>1, <2>2
<1>6. /\ LoopTyped'
      /\ \A q \in RunId, m \in Loops :
           loop'[q][m] = IF q = r /\ m = l THEN rec ELSE loop[q][m]
  <2>1. rec.pc \notin HasGen
    BY <1>5 DEF HasGen
  <2>2. loop' = [loop EXCEPT ![r][l] = rec] /\ r \in RunId
    BY <1>2, <1>5
  <2>3. QED
    BY ZenonT(60), <2>1, <2>2, LoopUpdate
<1>7. /\ lmu /\ established = runs[r].conn /\ conns[established].closed
      /\ \A q \in 1 .. Len(runs) : ~RunHolds(q)
      /\ \A q \in RunId, m \in Loops : LoopHolds(q, m) => q = r /\ m = l
  BY <1>2, <1>4 DEF TableInv
<1>8. ASSUME NEW h, Closing(h), h # loop[r][l].gen \/ loop[r][l].pc # "closeMux"
      PROVE  Closing(h)'
  <2>1. rx.pc = "close" /\ rx.gen = h
    <3>1. \A q \in 1 .. Len(runs) : q \in RunId
      BY RunFacts
    <3>2. ~\E q \in 1 .. Len(runs), m \in Loops :
             Running(q, m, "closeMux") /\ loop[q][m].gen = h
      BY <1>7, <1>8, <3>1 DEF Running, LoopHolds, InClose
    <3>3. ~\E q \in 1 .. Len(runs) : runs[q].pc = "closeMux" /\ runs[q].gen = h
      BY <1>7 DEF RunHolds, InClose
    <3>4. QED
      BY <1>8, <3>2, <3>3 DEF Closing
  <2>2. QED
    BY <1>1, <2>1 DEF Closing
<1>9. CASE LoopCloseMux(r, l)
  <2>1. /\ CloseGen(loop[r][l].gen) /\ UNCHANGED <<lsn, events, online>>
        /\ loop[r][l].pc = "closeMux"
    BY <1>9 DEF LoopCloseMux, Running
  <2>2. NetTyped' /\ GenInv'
    BY <1>1, <1>8, <2>1, ClosedGens
  <2>3. LoopsHeld
    BY <1>4, <1>6 DEF LoopsHeld, LoopHolds
  <2>4. RunsHeld /\ TableSame
    BY <1>1, <2>1, UnchangedIsQuiet DEF RunsQuiet
  <2>5. TableInv'
    BY <2>3, <2>4, HeldTable
  <2>6. QED
    BY <1>1, <1>3, <1>6, <2>1, <2>2, <2>5, Frames DEF Typed
<1>10. CASE LoopCloseEnd(r, l)
  <2>1. /\ UNCHANGED net /\ Emit("offline") /\ ConnCloseEnd(runs[r].conn)
        /\ loop[r][l].pc = "closeEnd"
    BY <1>10 DEF LoopCloseEnd, Running
  <2>2. NetTyped' /\ GenInv'
    BY <1>8, <2>1, SameGens, Frames DEF net
  <2>3. /\ \A q \in 1 .. Len(runs') : ~RunHolds(q)'
        /\ \A q \in RunId, m \in Loops : ~LoopHolds(q, m)'
    BY <1>1, <1>5, <1>6, <1>7, <1>10 DEF RunHolds, LoopHolds, InClose
  <2>4. LsnTyped' /\ TableInv'
    <3>1. established # 0
      BY <1>2, <1>7
    <3>2. QED
      BY <1>7, <2>1, <2>3, <3>1, CloseEndFacts
  <2>5. EventsTyped' /\ OnlineTyped'
    BY <1>3, <2>1, EmitFacts DEF PeerState
  <2>6. QED
    BY <1>1, <1>3, <1>6, <2>2, <2>4, <2>5, Frames DEF Typed
<1>11. QED
  BY <1>9, <1>10

-----------------------------------------------------------------------------
(* The theorems.                                                           *)

LEMMA StepIInv == IInv /\ [Next]_vars => IInv'
<1> SUFFICES ASSUME IInv, [Next]_vars PROVE IInv'
  OBVIOUS
<1>1. CASE HandshakeInit \/ InboundData \/ RemoteClose
  BY <1>1, InstallIInv, InboundIInv, RemoteCloseIInv DEF HandshakeInit
<1>2. CASE NetEmit
  BY <1>2, HandshakeStepsIInv, InboundIInv, RemoteCloseIInv DEF NetEmit
<1>3. CASE AcceptStep
  BY <1>3, AcceptStepIInv
<1>4. ASSUME NEW p \in Client,
             \/ DialCall(p) \/ RefreshPeer(p) \/ RefreshDial(p) \/ RefreshDown(p)
             \/ Connect(p) \/ ConnectEmit(p) \/ ConnectTimeout(p) \/ HandshakeResp(p)
             \/ Connected(p) \/ ClientMux(p) \/ ClientEmit(p)
             \/ DialInsert(p) \/ RefreshAssign(p)
      PROVE  IInv'
  BY <1>4, CallIInv, ConnectIInv, InstallIInv, ClientMuxIInv, ClientUseIInv DEF HandshakeResp
<1>5. ASSUME NEW r \in 1 .. Len(runs), RunStep(r)
      PROVE  IInv'
  BY <1>5, RunQuietIInv, RunCloseIInv, RunCloseRestIInv DEF RunStep
<1>6. ASSUME NEW r \in 1 .. Len(runs), NEW l \in Loops, LoopStep(r, l) \/ LoopStream(r, l)
      PROVE  IInv'
  BY <1>6, LoopQuietIInv, LoopCloseIInv, LoopCloseRestIInv DEF LoopStep, LoopQuietStep
<1>7. CASE UNCHANGED vars
  <2>1. UNCHANGED <<net, lsn, events, rx, acceptor, client, runs, loop, online>>
    BY <1>7 DEF vars, net, lsn
  <2>2. Typed'
    BY <2>1, Frames DEF IInv, Typed, lsn
  <2>3. RunsQuiet /\ LoopsQuiet /\ RxQuiet /\ TableSame
    BY <2>1, UnchangedIsQuiet
  <2>4. QED
    BY <2>1, <2>2, <2>3, QuietTable, QuietClosing, SameGens DEF IInv, net
<1>8. QED
  BY <1>1, <1>2, <1>3, <1>4, <1>5, <1>6, <1>7 DEF Next

LEMMA SpecIInv == Spec => []IInv
BY InitIInv, StepIInv, PTL DEF Spec

\* The peer, the listener's tables and every goroutine's progress keep their types.
THEOREM TypeCorrect == Spec => []TypeOK
<1>1. IInv => TypeOK
  BY DEF IInv, Typed, NetTyped, LsnTyped, EventsTyped, RunsTyped, OnlineTyped, TypeOK,
         RunType, RunPc
<1>2. QED
  BY <1>1, SpecIInv, PTL

\* listener.go: at most one active Conn per peer, however Accept, Dial and the
\* Conns' own Close interleave, and the table never holds a Conn that was closed
\* before the listener was asked.
THEOREM OneConnActive == Spec => []OneActiveConn
<1>1. IInv => OneActiveConn
  BY DEF IInv, TableInv, OneActiveConn
<1>2. QED
  BY <1>1, SpecIInv, PTL

\* A mux generation that is not the peer's current one is closed, or the goroutine
\* that took it out is about to close it.
THEOREM GensNotForgotten == Spec => []ForgottenGensClosed
<1>1. IInv => ForgottenGensClosed
  BY DEF IInv, GenInv
<1>2. QED
  BY <1>1, SpecIInv, PTL

=============================================================================
