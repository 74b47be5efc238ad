-------------------------- MODULE ServiceMuxProofs --------------------------
(***************************************************************************)
(* Proofs about ServiceMux, for every set of services and goroutines and   *)
(* every value of the bounds.                                              *)
(***************************************************************************)
EXTENDS ServiceMux, FiniteSetTheorems, SequenceTheorems, TLAPS

StateIds == 1 .. Len(states)
MuxIds   == 1 .. Len(muxes)

\* The table, the objects and the goroutines name objects and muxes that exist;
\* a goroutine that uses a mux uses the mux of its service object.
Linked ==
  /\ \A s \in Service : services[s] # 0 => services[s] \in StateIds
  /\ \A i \in StateIds : states[i].mux # 0 => states[i].mux \in MuxIds
  /\ \A p \in Procs :
       /\ proc[p].pc \in {"ensure", "create", "readMux", "use"} => proc[p].state \in StateIds
       /\ proc[p].pc \in {"mark", "readMux"} => proc[p].op \in {"closeService", "stopService"}
       /\ proc[p].pc = "use" => /\ proc[p].mux # 0
                                /\ states[proc[p].state].mux = proc[p].mux

\* Every mux is the mux of one object, and of one only.
MuxOwned ==
  /\ \A i, j \in StateIds : states[i].mux = states[j].mux /\ states[i].mux # 0 => i = j
  /\ \A k \in MuxIds : \E i \in StateIds : states[i].mux = k

\* Until Close empties the table, every object is the one in the table for its
\* service; from then on every object with a mux that is not closed is on
\* Close's list, and nobody makes a mux.
CloseSweeps ==
  /\ closed <=> closer.pc # "idle"
  /\ closer.pc \notin {"muxes", "done"} =>
       \A i \in StateIds : services[states[i].service] = i
  /\ closer.pc \in {"muxes", "done"} =>
       \A i \in StateIds :
         states[i].mux # 0 => muxes[states[i].mux] = "closed" \/ i \in closer.todo
  /\ closer.pc = "done" => closer.todo = {}
  /\ closer.todo \subseteq StateIds

IInv == TypeOK /\ Linked /\ MuxOwned /\ CloseSweeps /\ GoneServiceStaysGone

-----------------------------------------------------------------------------
LEMMA InitIInv == Init => IInv
<1> SUFFICES ASSUME Init PROVE IInv
  OBVIOUS
<1> USE DEF Init
<1>1. IdleProc \in Proc
  BY ServiceMuxAssumption DEF IdleProc, AnyService, Proc, Op
<1>2. TypeOK
  <2>1. services \in [Service -> 0 .. MaxStates] /\ packets \in 0 .. MaxPackets
    BY ServiceMuxAssumption
  <2>2. states \in Seq(serviceState) /\ Len(states) <= MaxStates
    BY ServiceMuxAssumption
  <2>3. muxes \in Seq(MuxStatus) /\ Len(muxes) <= MaxMuxes
    BY ServiceMuxAssumption
  <2>4. directCh \in Seq(1 .. MaxPackets) /\ Len(directCh) <= DirectCap
    BY ServiceMuxAssumption
  <2>5. proc \in [Procs -> Proc]
    BY <1>1
  <2>6. QED
    BY <2>1, <2>2, <2>3, <2>4, <2>5 DEF TypeOK
<1>3. Linked /\ MuxOwned /\ CloseSweeps /\ GoneServiceStaysGone
  BY DEF Linked, MuxOwned, CloseSweeps, GoneServiceStaysGone, StateIds, MuxIds, IdleProc
<1>4. QED
  BY <1>2, <1>3 DEF IInv

\* What Append does to a sequence and to its indices.
LEMMA AppendFacts ==
  ASSUME NEW S, NEW seq \in Seq(S), NEW e \in S
  PROVE  /\ Len(seq) \in Nat /\ Len(Append(seq, e)) = Len(seq) + 1
         /\ Append(seq, e) \in Seq(S)
         /\ 1 .. Len(Append(seq, e)) = (1 .. Len(seq)) \union {Len(seq) + 1}
         /\ \A i \in 1 .. Len(seq) : Append(seq, e)[i] = seq[i] /\ i # Len(seq) + 1
         /\ Append(seq, e)[Len(seq) + 1] = e
<1>1. /\ Len(seq) \in Nat /\ Len(Append(seq, e)) = Len(seq) + 1
      /\ Append(seq, e) \in Seq(S)
      /\ \A i \in 1 .. Len(seq) : Append(seq, e)[i] = seq[i]
      /\ Append(seq, e)[Len(seq) + 1] = e
  BY AppendProperties, LenProperties
<1>2. QED
  BY <1>1

\* What an update of one element does.
LEMMA UpdateFacts ==
  ASSUME NEW S, NEW seq \in Seq(S), NEW i \in 1 .. Len(seq), NEW e \in S
  PROVE  /\ [seq EXCEPT ![i] = e] \in Seq(S)
         /\ Len([seq EXCEPT ![i] = e]) = Len(seq)
         /\ [seq EXCEPT ![i] = e][i] = e
         /\ \A j \in 1 .. Len(seq) : j # i => [seq EXCEPT ![i] = e][j] = seq[j]
BY ExceptSeq

\* The objects have their types.
LEMMA StateType ==
  ASSUME TypeOK, NEW i \in StateIds
  PROVE  states[i] \in serviceState
BY ElementOfSeq DEF TypeOK, StateIds

\* A step that moves one goroutine only keeps the invariant if what the goroutine
\* now names exists and if it leaves no mux unclosed that it was to close.
LEMMA ProcStep ==
  ASSUME IInv, NEW p \in Procs, NEW q \in Proc,
         proc' = [proc EXCEPT ![p] = q],
         UNCHANGED <<services, states, muxes, closed, closer, packets>>,
         directCh' \in Seq(1 .. MaxPackets), Len(directCh') <= DirectCap,
         q.pc \in {"ensure", "create", "readMux", "use"} => q.state \in StateIds,
         q.pc \in {"mark", "readMux"} => q.op \in {"closeService", "stopService"},
         q.pc = "use" => q.mux # 0 /\ states[q.state].mux = q.mux,
         \A i \in StateIds, op \in {"closeService", "stopService"} :
           states[i].mux # 0 /\ Applying(i, op) => Applying(i, op)'
  PROVE  IInv'
<1>1. TypeOK'
  BY DEF IInv, TypeOK
<1>2. Linked'
  BY DEF IInv, TypeOK, Linked, StateIds, MuxIds
<1>3. MuxOwned' /\ CloseSweeps'
  BY DEF IInv, MuxOwned, CloseSweeps, StateIds, MuxIds
<1>4. GoneServiceStaysGone'
  BY DEF IInv, GoneServiceStaysGone, StateIds
<1>5. QED
  BY <1>1, <1>2, <1>3, <1>4 DEF IInv

\* The idle goroutine is one.
LEMMA IdleProcType == IdleProc \in Proc /\ IdleProc.pc = "idle"
BY ServiceMuxAssumption DEF IdleProc, AnyService, Proc, Op

\* Calls begin: the goroutine was idle, so it was about to close nothing.
LEMMA CallIInv ==
  ASSUME IInv, NEW p \in Procs, Call(p)
  PROVE  IInv'
<1> DEFINE Begins(q) == /\ proc[p].pc = "idle" /\ q \in Proc
                        /\ proc' = [proc EXCEPT ![p] = q]
                        /\ q.pc \in {"get", "ensure", "mark", "select"}
                        /\ q.pc = "ensure" => q.state \in StateIds
                        /\ q.pc = "mark" => q.op \in {"closeService", "stopService"}
                        /\ UNCHANGED <<services, states, muxes, closed, closer,
                                       directCh, packets>>
<1>1. ASSUME NEW q, Begins(q)
      PROVE  IInv'
  <2>1. \A i \in StateIds, op \in {"closeService", "stopService"} :
          Applying(i, op) => Applying(i, op)'
    BY <1>1 DEF Applying, IInv, TypeOK
  <2>2. directCh' \in Seq(1 .. MaxPackets) /\ Len(directCh') <= DirectCap
    BY <1>1 DEF IInv, TypeOK
  <2>3. QED
    BY <1>1, <2>1, <2>2, ProcStep
<1> USE DEF Proc, Op
<1>2. proc \in [Procs -> Proc]
  BY DEF IInv, TypeOK
<1>3. ASSUME NEW s \in Service, NEW op \in {"open", "accept"}, CallStream(p, op, s)
      PROVE  IInv'
  <2>1. Begins([proc[p] EXCEPT !.pc = "get", !.op = op, !.service = s])
    BY <1>2, <1>3 DEF CallStream
  <2>2. QED
    BY <2>1, <1>1
<1>4. ASSUME NEW s \in Service, NEW op \in {"closeService", "stopService"},
             CallService(p, op, s)
      PROVE  IInv'
  <2>1. Begins([proc[p] EXCEPT !.pc = "mark", !.op = op, !.service = s])
    BY <1>2, <1>4 DEF CallService
  <2>2. QED
    BY <2>1, <1>1
<1>5. ASSUME NEW s \in Service, NEW isOpen \in BOOLEAN, InputKCP(p, s, isOpen)
      PROVE  IInv'
  <2>1. CASE services[s] = 0
    <3>1. Begins([proc[p] EXCEPT !.pc = "get", !.op = "input", !.service = s])
      BY ZenonT(60), <1>2, <1>5, <2>1 DEF InputKCP
    <3>2. QED
      BY <3>1, <1>1
  <2>2. CASE services[s] # 0
    <3>1. services[s] \in StateIds /\ services[s] \in 0 .. MaxStates
      BY <2>2 DEF IInv, Linked, TypeOK
    <3>2. Begins([proc[p] EXCEPT !.pc = "ensure", !.op = "input", !.service = s,
                                 !.state = services[s]])
      BY ZenonT(60), <1>2, <1>5, <2>2, <3>1 DEF InputKCP
    <3>3. QED
      BY <3>2, <1>1
  <2>3. QED
    BY <2>1, <2>2
<1>6. ASSUME CallRead(p)
      PROVE  IInv'
  <2>1. Begins([proc[p] EXCEPT !.pc = "select", !.op = "read"])
    BY <1>2, <1>6 DEF CallRead
  <2>2. QED
    BY <2>1, <1>1
<1>7. QED
  BY <1>3, <1>4, <1>5, <1>6 DEF Call

\* Steps that move one goroutine only, after its call has begun.
LEMMA MoveIInv ==
  ASSUME IInv, NEW p \in Procs,
         \/ GetService(p) \/ FindKcpMux(p) \/ UseKcpMux(p) \/ ReadMux(p)
         \/ ReadReceive(p) \/ ReadReturn(p)
  PROVE  IInv'
<1> DEFINE Moves(q) == /\ q \in Proc
                       /\ proc' = [proc EXCEPT ![p] = q]
                       /\ UNCHANGED <<services, states, muxes, closed, closer, packets>>
<1> USE DEF Idle, Goto, Proc, Op
<1>1. proc \in [Procs -> Proc]
  BY DEF IInv, TypeOK
<1>2. directCh \in Seq(1 .. MaxPackets) /\ Len(directCh) <= DirectCap
  BY DEF IInv, TypeOK
<1>3. CASE GetService(p)
  <2> DEFINE i == services[proc[p].service]
  <2>1. i # 0 => i \in StateIds /\ i \in 0 .. MaxStates
    BY <1>1 DEF IInv, Linked, TypeOK
  <2>2. PICK q \in {IdleProc, [proc[p] EXCEPT !.pc = "put"],
                    [proc[p] EXCEPT !.pc = "ensure", !.state = i]} :
          /\ Moves(q) /\ directCh' = directCh /\ proc[p].pc = "get"
          /\ q.pc = "ensure" => q.state \in StateIds
          /\ q.pc \in {"idle", "put", "ensure"}
    BY <1>1, <1>3, <2>1, IdleProcType DEF GetService
  <2>3. \A j \in StateIds, op \in {"closeService", "stopService"} :
          Applying(j, op) => Applying(j, op)'
    BY <1>1, <2>2 DEF Applying
  <2>4. QED
    BY ZenonT(60), <1>2, <2>2, <2>3, ProcStep
<1>4. CASE FindKcpMux(p)
  <2> DEFINE k == states[proc[p].state].mux
  <2>1. proc[p].state \in StateIds /\ proc[p].pc = "ensure"
    BY <1>4 DEF FindKcpMux, IInv, Linked
  <2>2. k \in 0 .. MaxMuxes
    BY SMTT(30), <2>1, ServiceMuxAssumption DEF IInv, TypeOK, Linked, MuxIds
  <2>3. PICK q \in {[proc[p] EXCEPT !.pc = "use", !.mux = k],
                    [proc[p] EXCEPT !.pc = "create"]} :
          /\ Moves(q) /\ directCh' = directCh
          /\ q.state = proc[p].state
          /\ q.pc = "use" => q.mux = k /\ k # 0
    BY <1>1, <1>4, <2>1, <2>2 DEF FindKcpMux
  <2>4. \A j \in StateIds, op \in {"closeService", "stopService"} :
          Applying(j, op) => Applying(j, op)'
    BY <1>1, <2>1, <2>3 DEF Applying
  <2>5. QED
    BY ZenonT(60), <1>2, <2>1, <2>3, <2>4, ProcStep
<1>5. CASE ReadMux(p)
  <2> DEFINE k == states[proc[p].state].mux
  <2>1. proc[p].state \in StateIds /\ proc[p].pc = "readMux"
    BY <1>5 DEF ReadMux, IInv, Linked
  <2>2. k \in 0 .. MaxMuxes
    BY SMTT(30), <2>1, ServiceMuxAssumption DEF IInv, TypeOK, Linked, MuxIds
  <2>3. PICK q \in {[proc[p] EXCEPT !.pc = "use", !.mux = k], IdleProc} :
          /\ Moves(q) /\ directCh' = directCh
          /\ k = 0 => q.pc = "idle"
          /\ k # 0 => q.pc = "use" /\ q.mux = k /\ q.op = proc[p].op
                      /\ q.state = proc[p].state
    BY <1>1, <1>5, <2>1, <2>2, IdleProcType DEF ReadMux
  <2>4. \A j \in StateIds, op \in {"closeService", "stopService"} :
          states[j].mux # 0 /\ Applying(j, op) => Applying(j, op)'
    BY <1>1, <2>1, <2>3 DEF Applying
  <2>5. QED
    BY <1>2, <2>1, <2>3, <2>4, ProcStep
<1>6. CASE UseKcpMux(p) \/ ReadReturn(p)
  <2>1. Moves(IdleProc) /\ directCh' = directCh
    BY <1>6, IdleProcType DEF UseKcpMux, ReadReturn
  <2>2. proc[p].pc = "use" => proc[p].op \in {"open", "accept", "input"}
    BY <1>6 DEF UseKcpMux, ReadReturn
  <2>3. proc[p].pc # "readMux"
    BY <1>6 DEF UseKcpMux, ReadReturn
  <2>4. \A j \in StateIds, op \in {"closeService", "stopService"} :
          Applying(j, op) => Applying(j, op)'
    BY <1>1, <2>1, <2>2, <2>3 DEF Applying
  <2>5. QED
    BY <1>2, <2>1, <2>4, IdleProcType, ProcStep
<1>7. CASE ReadReceive(p)
  <2>1. Moves([proc[p] EXCEPT !.pc = "copy"]) /\ proc[p].pc = "select"
    BY <1>1, <1>7 DEF ReadReceive
  <2>2. directCh' \in Seq(1 .. MaxPackets) /\ Len(directCh') <= DirectCap
    BY <1>2, <1>7, ServiceMuxAssumption DEF ReadReceive
  <2>3. \A j \in StateIds, op \in {"closeService", "stopService"} :
          Applying(j, op) => Applying(j, op)'
    BY <1>1, <2>1 DEF Applying
  <2>4. QED
    BY <1>1, <2>1, <2>2, <2>3, ProcStep
<1>8. QED
  BY <1>3, <1>4, <1>5, <1>6, <1>7

\* An object is made for a service that has none.
NewObject(p, q, s, new) ==
  /\ new.service = s /\ new.mux = 0
  /\ services[s] = 0 /\ Len(states) < MaxStates
  /\ states' = Append(states, new)
  /\ services' = [services EXCEPT ![s] = Len(states) + 1]
  /\ proc[p].pc \notin {"use", "readMux"}
  /\ proc' = [proc EXCEPT ![p] = q]
  /\ q.pc \in {"ensure", "readMux"} /\ q.state = Len(states) + 1
  /\ q.pc = "readMux" => q.op \in {"closeService", "stopService"}
  /\ UNCHANGED <<muxes, closed, closer, directCh, packets>>

\* ... by a goroutine that goes on with it.
LEMMA NewObjectIInv ==
  ASSUME IInv, NEW p \in Procs, NEW q \in Proc, NEW s \in Service,
         NEW new \in serviceState, NewObject(p, q, s, new)
  PROVE  IInv'
<1> DEFINE n == Len(states)
<1> USE ServiceMuxAssumption
<1>1. /\ n \in Nat /\ Len(states') = n + 1 /\ StateIds' = StateIds \union {n + 1}
      /\ states' \in Seq(serviceState)
      /\ \A i \in StateIds : states'[i] = states[i] /\ i # n + 1
      /\ states'[n + 1] = new
  BY AppendFacts DEF NewObject, IInv, TypeOK, StateIds
<1>2. /\ muxes' = muxes /\ MuxIds' = MuxIds
      /\ closed' = closed /\ closer' = closer
  BY DEF NewObject, MuxIds
<1> HIDE DEF n
<1>3. \A i \in StateIds' : states'[i].mux # 0 => i \in StateIds /\ states'[i] = states[i]
  BY <1>1 DEF NewObject
<1>4. TypeOK'
  <2>1. n + 1 \in 0 .. MaxStates
    BY <1>1 DEF NewObject, n
  <2>2. QED
    BY <1>1, <2>1 DEF NewObject, IInv, TypeOK, n
<1>5. Linked'
  BY ZenonT(60), <1>1, <1>2 DEF NewObject, IInv, TypeOK, Linked, n
<1>6. MuxOwned'
  <2>2. ASSUME NEW i \in StateIds', NEW j \in StateIds',
               states'[i].mux = states'[j].mux, states'[i].mux # 0
        PROVE  i = j
    BY <1>3, <2>2 DEF IInv, MuxOwned
  <2>3. \A k \in MuxIds' : \E i \in StateIds' : states'[i].mux = k
    BY <1>1, <1>2 DEF IInv, MuxOwned
  <2>4. QED
    BY <2>2, <2>3 DEF MuxOwned
<1>7. CloseSweeps'
  <2>1. \A i \in StateIds : closer.pc \notin {"muxes", "done"} => states[i].service # s
    BY <1>1 DEF NewObject, IInv, CloseSweeps, StateIds
  <2>2. \A i \in StateIds : states[i].service \in Service
    BY StateType DEF IInv, serviceState
  <2>3. ASSUME closer.pc \notin {"muxes", "done"}, NEW i \in StateIds'
        PROVE  services'[states'[i].service] = i
    BY ZenonT(60), <1>1, <2>1, <2>2, <2>3 DEF NewObject, IInv, TypeOK, CloseSweeps, n
  <2>4. closer'.todo \subseteq StateIds'
    BY <1>1, <1>2 DEF IInv, CloseSweeps
  <2>5. QED
    BY <1>2, <1>3, <2>3, <2>4 DEF IInv, CloseSweeps
<1>8. GoneServiceStaysGone'
  <2>1. \A i \in StateIds, op \in {"closeService", "stopService"} :
          Applying(i, op) => Applying(i, op)'
    BY DEF NewObject, Applying, IInv, TypeOK
  <2>2. QED
    BY SMTT(30), <1>1, <1>3, <2>1 DEF NewObject, IInv, GoneServiceStaysGone, StateIds
<1>9. QED
  BY <1>4, <1>5, <1>6, <1>7, <1>8 DEF IInv

LEMMA CreateServiceIInv ==
  ASSUME IInv, NEW p \in Procs, CreateService(p)
  PROVE  IInv'
<1> DEFINE s == proc[p].service
           i == services[s]
<1> USE DEF Idle, Proc, Op
<1>1. proc \in [Procs -> Proc] /\ proc[p].pc = "put" /\ s \in Service
  BY DEF IInv, TypeOK, CreateService
<1>2. i # 0 => i \in StateIds /\ i \in 0 .. MaxStates
  BY <1>1 DEF IInv, Linked, TypeOK
<1>3. CASE closed \/ i # 0
  <2>1. PICK q \in {IdleProc, [proc[p] EXCEPT !.pc = "ensure", !.state = i]} :
          /\ q \in Proc /\ proc' = [proc EXCEPT ![p] = q]
          /\ UNCHANGED <<services, states, muxes, closed, closer, packets>>
          /\ q.pc = "ensure" => q.state \in StateIds
          /\ q.pc \in {"idle", "ensure"} /\ directCh' = directCh
    BY <1>1, <1>2, <1>3, IdleProcType DEF CreateService
  <2>2. \A j \in StateIds, op \in {"closeService", "stopService"} :
          Applying(j, op) => Applying(j, op)'
    BY <1>1, <2>1 DEF Applying
  <2>3. directCh' \in Seq(1 .. MaxPackets) /\ Len(directCh') <= DirectCap
    BY <2>1 DEF IInv, TypeOK
  <2> HIDE DEF i, s, Proc, Op, Idle
  <2>4. QED
    BY <2>1, <2>2, <2>3, ProcStep
<1>4. CASE ~closed /\ i = 0
  <2> DEFINE n == Len(states) + 1
             q == [proc[p] EXCEPT !.pc = "ensure", !.state = n]
  <2>1. Len(states) < MaxStates /\ Len(states) \in Nat
    BY <1>4 DEF CreateService, IInv, TypeOK
  <2>2. n \in 0 .. MaxStates
    BY <2>1, ServiceMuxAssumption
  <2> HIDE DEF n
  <2>3. q \in Proc /\ q.state = Len(states) + 1 /\ q.pc = "ensure"
    BY <1>1, <2>2 DEF n
  <2>4. /\ NewState(s) \in serviceState /\ NewState(s).service = s
        /\ NewState(s).mux = 0
    BY <1>1, ServiceMuxAssumption DEF NewState, serviceState
  <2>5. /\ states' = Append(states, NewState(s))
        /\ services' = [services EXCEPT ![s] = Len(states) + 1]
        /\ proc' = [proc EXCEPT ![p] = q]
        /\ UNCHANGED <<muxes, closed, closer, directCh, packets>>
    BY <1>1, <1>4 DEF CreateService, n
  <2>6. NewObject(p, q, s, NewState(s))
    BY <1>1, <1>4, <2>1, <2>3, <2>4, <2>5 DEF NewObject
  <2>7. QED
    BY <1>1, <2>3, <2>4, <2>6, NewObjectIInv
<1>5. QED
  BY <1>3, <1>4

\* A KcpMux that is made: the service object has none and is not closed, and
\* Close has not begun.
LEMMA CreateKcpMuxIInv ==
  ASSUME IInv, NEW p \in Procs, CreateKcpMux(p)
  PROVE  IInv'
<1> DEFINE i == proc[p].state
           k == states[i].mux
<1>1. /\ proc \in [Procs -> Proc] /\ proc[p].pc = "create"
      /\ i \in StateIds /\ states[i] \in serviceState
  BY StateType DEF IInv, TypeOK, CreateKcpMux, Linked, Proc
<1>2. CASE closed \/ k # 0 \/ states[i].closed
  <2>1. k \in 0 .. MaxMuxes
    BY <1>1 DEF serviceState
  <2>2. PICK q \in {IdleProc, [proc[p] EXCEPT !.pc = "use", !.mux = k]} :
          /\ q \in Proc /\ proc' = [proc EXCEPT ![p] = q]
          /\ UNCHANGED <<services, states, muxes, closed, closer, packets>>
          /\ q.pc = "use" => q.state = i /\ q.mux = k /\ k # 0
          /\ q.pc \in {"idle", "use"} /\ directCh' = directCh
    BY <1>1, <1>2, <2>1, IdleProcType DEF CreateKcpMux, Idle, Proc
  <2>3. \A j \in StateIds, op \in {"closeService", "stopService"} :
          Applying(j, op) => Applying(j, op)'
    BY <1>1, <2>2 DEF Applying
  <2>4. directCh' \in Seq(1 .. MaxPackets) /\ Len(directCh') <= DirectCap
    BY <2>2 DEF IInv, TypeOK
  <2> HIDE DEF i, k
  <2>5. QED
    BY ZenonT(60), <1>1, <2>2, <2>3, <2>4, ProcStep DEF i, k
<1>3. CASE ~closed /\ k = 0 /\ ~states[i].closed
  <2> DEFINE n == Len(muxes) + 1
  <2>1. /\ Len(muxes) < MaxMuxes
        /\ muxes' = Append(muxes, NewStatus(i))
        /\ states' = [states EXCEPT ![i].mux = n]
        /\ proc' = [proc EXCEPT ![p].pc = "use", ![p].mux = n]
        /\ UNCHANGED <<services, closed, closer, directCh, packets>>
    BY <1>1, <1>3 DEF CreateKcpMux, MakeMux
  <2>2. /\ n \in 1 .. MaxMuxes
        /\ muxes' \in Seq(MuxStatus) /\ MuxIds' = MuxIds \union {n} /\ Len(muxes') = n
        /\ \A m \in MuxIds : muxes'[m] = muxes[m] /\ m # n
        /\ muxes'[n] = NewStatus(i)
    BY <2>1, AppendFacts, ServiceMuxAssumption
    DEF IInv, TypeOK, MuxIds, NewStatus, MuxStatus
  <2>3. /\ states' \in Seq(serviceState) /\ Len(states') = Len(states)
        /\ StateIds' = StateIds /\ states'[i] = [states[i] EXCEPT !.mux = n]
        /\ \A j \in StateIds : j # i => states'[j] = states[j]
    <3> DEFINE new == [states[i] EXCEPT !.mux = n]
    <3>1. new \in serviceState
      BY <1>1, <2>2 DEF serviceState
    <3>2. states' = [states EXCEPT ![i] = new]
      BY <2>1
    <3> HIDE DEF new
    <3>3. QED
      BY <1>1, <3>1, <3>2, UpdateFacts DEF IInv, TypeOK, StateIds, new
  <2> HIDE DEF n, i
  <2>4. TypeOK'
    <3>1. proc' \in [Procs -> Proc]
      <4>1. n \in 0 .. MaxMuxes
        BY <2>2, ServiceMuxAssumption
      <4>2. QED
        BY ZenonT(60), <1>1, <2>1, <4>1 DEF Proc
    <3>2. QED
      BY <2>1, <2>2, <2>3, <3>1 DEF IInv, TypeOK
  <2>5. \A j \in StateIds : /\ states'[j].service = states[j].service
                            /\ states'[j].closed = states[j].closed
                            /\ states'[j].acceptingStopped = states[j].acceptingStopped
                            /\ j # i => /\ states'[j].mux = states[j].mux
                                        /\ states[j].mux # 0 => states[j].mux \in MuxIds
    BY <1>1, <2>3 DEF IInv, Linked, serviceState
  <2>6. states'[i].mux = n /\ n # 0 /\ states[i].mux = 0
    BY <1>1, <1>3, <2>2, <2>3 DEF serviceState, i
  <2>7. Linked'
    <3>1. \A s \in Service : services'[s] # 0 => services'[s] \in StateIds'
      BY <2>1, <2>3 DEF IInv, Linked
    <3>2. \A j \in StateIds' : states'[j].mux # 0 => states'[j].mux \in MuxIds'
      BY <2>2, <2>3, <2>5, <2>6
    <3>3. ASSUME NEW r \in Procs
          PROVE  /\ proc'[r].pc \in {"ensure", "create", "readMux", "use"}
                      => proc'[r].state \in StateIds'
                 /\ proc'[r].pc \in {"mark", "readMux"}
                      => proc'[r].op \in {"closeService", "stopService"}
                 /\ proc'[r].pc = "use" => /\ proc'[r].mux # 0
                                           /\ states'[proc'[r].state].mux = proc'[r].mux
      <4>1. CASE r = p
        BY <1>1, <2>1, <2>3, <2>6, <4>1 DEF i, Proc
      <4>2. CASE r # p
        BY <1>1, <2>1, <2>3, <2>5, <2>6, <4>2 DEF IInv, Linked
      <4>3. QED
        BY <4>1, <4>2
    <3>4. QED
      BY <3>1, <3>2, <3>3 DEF Linked
  <2>8. MuxOwned'
    <3>1. ASSUME NEW j \in StateIds', NEW l \in StateIds',
                 states'[j].mux = states'[l].mux, states'[j].mux # 0
          PROVE  j = l
      <4>1. j \in StateIds /\ l \in StateIds
        BY <2>3
      <4>2. \A m \in StateIds : m # i => states'[m].mux # n
        BY <2>2, <2>5, <2>6
      <4>3. CASE j = i \/ l = i
        BY <2>6, <3>1, <4>1, <4>2, <4>3
      <4>4. CASE j # i /\ l # i
        BY <2>5, <3>1, <4>1, <4>4 DEF IInv, MuxOwned
      <4>5. QED
        BY <4>3, <4>4
    <3>2. ASSUME NEW m \in MuxIds'
          PROVE  \E j \in StateIds' : states'[j].mux = m
      <4>1. CASE m = n
        BY <1>1, <2>3, <2>6, <4>1 DEF i
      <4>2. CASE m \in MuxIds
        <5>1. PICK j \in StateIds : states[j].mux = m
          BY <4>2 DEF IInv, MuxOwned
        <5>2. m # 0
          BY <4>2 DEF MuxIds
        <5>3. QED
          BY <2>3, <2>5, <2>6, <5>1, <5>2
      <4>3. QED
        BY <2>2, <4>1, <4>2
    <3>3. QED
      BY <3>1, <3>2 DEF MuxOwned
  <2>9. CloseSweeps'
    <3>1. closer.pc = "idle"
      BY <1>3 DEF IInv, CloseSweeps
    <3>2. QED
      BY <2>1, <2>3, <2>5, <3>1 DEF IInv, CloseSweeps
  <2>10. GoneServiceStaysGone'
    <3>1. \A j \in StateIds, op \in {"closeService", "stopService"} :
            Applying(j, op) => Applying(j, op)'
      BY <1>1, <2>1 DEF Applying
    <3>2. ASSUME NEW j \in StateIds, states'[j].mux # 0, ~Applying(j, "closeService")'
          PROVE  /\ states'[j].closed => muxes'[states'[j].mux] = "closed"
                 /\ states'[j].acceptingStopped /\ ~Applying(j, "stopService")'
                      => muxes'[states'[j].mux] # "accepting"
      <4>1. CASE j = i
        BY <1>3, <2>2, <2>5, <2>6, <4>1 DEF NewStatus, i
      <4>2. CASE j # i
        BY <2>2, <2>5, <3>1, <3>2, <4>2 DEF IInv, GoneServiceStaysGone, StateIds
      <4>3. QED
        BY <4>1, <4>2
    <3>3. QED
      BY <2>3, <3>2 DEF GoneServiceStaysGone, StateIds
  <2>11. QED
    BY <2>4, <2>7, <2>8, <2>9, <2>10 DEF IInv
<1>4. QED
  BY <1>2, <1>3

\* CloseService and StopAcceptingService mark the object, which is made if need be.
LEMMA MarkServiceIInv ==
  ASSUME IInv, NEW p \in Procs, MarkService(p)
  PROVE  IInv'
<1> DEFINE s == proc[p].service
           i == services[s]
<1>1. /\ proc \in [Procs -> Proc] /\ proc[p].pc = "mark" /\ s \in Service
      /\ proc[p].op \in {"closeService", "stopService"}
  BY DEF IInv, TypeOK, Linked, Proc, MarkService
<1>2. CASE i = 0
  <2> DEFINE n == Len(states) + 1
             q == [proc[p] EXCEPT !.pc = "readMux", !.state = n]
             new == [NewState(s) EXCEPT !.closed = @ \/ proc[p].op = "closeService",
                                        !.acceptingStopped = TRUE]
  <2>1. Len(states) < MaxStates /\ Len(states) \in Nat
    BY <1>2 DEF MarkService, IInv, TypeOK
  <2>2. n \in 0 .. MaxStates
    BY <2>1, ServiceMuxAssumption
  <2>3. new \in serviceState /\ new.service = s /\ new.mux = 0
    <3>1. /\ NewState(s) \in serviceState /\ NewState(s).service = s
          /\ NewState(s).mux = 0
      BY <1>1, ServiceMuxAssumption DEF NewState, serviceState
    <3>2. QED
      BY <3>1 DEF serviceState
  <2>4. /\ states' = Append(states, new)
        /\ services' = [services EXCEPT ![s] = n]
        /\ proc' = [proc EXCEPT ![p] = q]
        /\ UNCHANGED <<muxes, closed, closer, directCh, packets>>
    BY <1>1, <1>2 DEF MarkService
  <2>5. n = Len(states) + 1
    OBVIOUS
  <2> HIDE DEF n, new
  <2>6. q \in Proc /\ q.state = n /\ q.pc = "readMux" /\ q.op = proc[p].op
    BY <1>1, <2>2 DEF Proc
  <2>7. NewObject(p, q, s, new)
    BY <1>1, <1>2, <2>1, <2>3, <2>4, <2>5, <2>6 DEF NewObject
  <2>8. QED
    BY <1>1, <2>3, <2>6, <2>7, NewObjectIInv
<1>3. CASE i # 0
  <2> DEFINE marked == [states[i] EXCEPT !.closed = @ \/ proc[p].op = "closeService",
                                         !.acceptingStopped = TRUE]
  <2>1. i \in StateIds /\ i \in 0 .. MaxStates
    BY <1>1, <1>3 DEF IInv, Linked, TypeOK
  <2>2. /\ states' = [states EXCEPT ![i] = marked]
        /\ services' = services
        /\ proc' = [proc EXCEPT ![p].pc = "readMux", ![p].state = i]
        /\ UNCHANGED <<muxes, closed, closer, directCh, packets>>
    BY <1>1, <1>3, <2>1 DEF MarkService, IInv, TypeOK
  <2>3. marked \in serviceState
    BY <2>1, StateType DEF IInv, serviceState
  <2>4. /\ states' \in Seq(serviceState) /\ Len(states') = Len(states)
        /\ StateIds' = StateIds /\ states'[i] = marked
        /\ \A j \in StateIds : j # i => states'[j] = states[j]
    <3> HIDE DEF marked, i
    <3>1. QED
      BY <2>1, <2>2, <2>3, UpdateFacts DEF IInv, TypeOK, StateIds
  <2>5. /\ \A j \in StateIds : /\ states'[j].service = states[j].service
                               /\ states'[j].mux = states[j].mux
        /\ MuxIds' = MuxIds
    <3> HIDE DEF i
    <3> QED BY <2>1, <2>2, <2>4, StateType DEF IInv, serviceState, MuxIds
  <2>6. marked.closed => states[i].closed \/ proc[p].op = "closeService"
    BY <2>1, StateType DEF IInv, serviceState
  <2> HIDE DEF marked, i
  <2>7. TypeOK'
    <3>1. proc' \in [Procs -> Proc]
      BY ZenonT(60), <1>1, <2>1, <2>2 DEF Proc
    <3>2. QED
      BY <2>2, <2>4, <3>1 DEF IInv, TypeOK
  <2>8. Linked'
    BY <1>1, <2>1, <2>2, <2>4, <2>5 DEF IInv, Linked, Proc
  <2>9. MuxOwned'
    BY <2>4, <2>5 DEF IInv, MuxOwned
  <2>10. CloseSweeps'
    BY <2>2, <2>4, <2>5 DEF IInv, CloseSweeps
  <2>11. GoneServiceStaysGone'
    <3>1. \A j \in StateIds, op \in {"closeService", "stopService"} :
            Applying(j, op) => Applying(j, op)'
      BY <1>1, <2>2 DEF Applying
    <3>2. PICK op \in {"closeService", "stopService"} : op = proc[p].op
      BY <1>1
    <3>3. PICK c \in StateIds : c = i
      BY <2>1
    <3>4. Applying(c, op)'
      BY <1>1, <2>2, <3>2, <3>3 DEF Applying, Proc
    <3>5. ASSUME NEW j \in StateIds, states'[j].mux # 0, ~Applying(j, "closeService")'
          PROVE  /\ states'[j].closed => muxes'[states'[j].mux] = "closed"
                 /\ states'[j].acceptingStopped /\ ~Applying(j, "stopService")'
                      => muxes'[states'[j].mux] # "accepting"
      <4>1. CASE j = i
        BY <2>2, <2>4, <2>5, <2>6, <3>1, <3>2, <3>3, <3>4, <3>5, <4>1
        DEF IInv, GoneServiceStaysGone, StateIds
      <4>2. CASE j # i
        BY <2>2, <2>4, <3>1, <3>5, <4>2 DEF IInv, GoneServiceStaysGone, StateIds
      <4>3. QED
        BY <4>1, <4>2
    <3>6. QED
      BY <2>4, <3>5 DEF GoneServiceStaysGone, StateIds
  <2>12. QED
    BY <2>7, <2>8, <2>9, <2>10, <2>11 DEF IInv
<1>4. QED
  BY <1>2, <1>3

\* mux.Close or mux.StopAccepting: the mux of the service object that was marked.
LEMMA FinishServiceIInv ==
  ASSUME IInv, NEW p \in Procs, FinishService(p)
  PROVE  IInv'
<1> DEFINE k == proc[p].mux
           new == IF proc[p].op = "closeService" THEN "closed" ELSE Stop(muxes[k])
<1>1. /\ proc \in [Procs -> Proc] /\ proc[p].pc = "use"
      /\ proc[p].op \in {"closeService", "stopService"}
      /\ proc[p].state \in StateIds /\ states[proc[p].state].mux = k
      /\ k # 0 /\ k \in MuxIds
  BY DEF IInv, TypeOK, Linked, FinishService
<1>2. /\ muxes' = [muxes EXCEPT ![k] = new]
      /\ proc' = [proc EXCEPT ![p] = IdleProc]
      /\ UNCHANGED <<services, states, closed, closer, directCh, packets>>
  BY DEF FinishService, Idle
<1>3. muxes[k] \in MuxStatus /\ new \in MuxStatus
  BY <1>1, ElementOfSeq DEF IInv, TypeOK, MuxIds, MuxStatus, Stop
<1>4. /\ muxes' \in Seq(MuxStatus) /\ Len(muxes') = Len(muxes) /\ MuxIds' = MuxIds
      /\ muxes'[k] = new
      /\ \A m \in MuxIds : m # k => muxes'[m] = muxes[m]
  <2> HIDE DEF k, new
  <2>1. QED
    BY <1>1, <1>2, <1>3, UpdateFacts DEF IInv, TypeOK, MuxIds
<1>5. /\ StateIds' = StateIds
      /\ \A i \in StateIds : states[i].mux # 0 => states[i].mux \in MuxIds
  BY <1>2 DEF IInv, Linked, StateIds
<1>6. /\ new # "accepting"
      /\ muxes[k] = "closed" \/ proc[p].op = "closeService" => new = "closed"
  BY <1>1, <1>3 DEF MuxStatus, Stop
<1> HIDE DEF new
<1>7. TypeOK'
  BY <1>2, <1>4, IdleProcType DEF IInv, TypeOK
<1>8. Linked'
  BY <1>1, <1>2, <1>4, <1>5, IdleProcType DEF IInv, Linked
<1>9. MuxOwned'
  BY <1>2, <1>4, <1>5 DEF IInv, MuxOwned
<1>10. CloseSweeps'
  BY <1>2, <1>4, <1>5, <1>6 DEF IInv, CloseSweeps
<1>11. GoneServiceStaysGone'
  <2>1. \A i \in StateIds, op \in {"closeService", "stopService"} :
          Applying(i, op) /\ (i # proc[p].state \/ op # proc[p].op) => Applying(i, op)'
    BY <1>1, <1>2 DEF Applying
  <2>2. ASSUME NEW i \in StateIds, states'[i].mux # 0, ~Applying(i, "closeService")'
        PROVE  /\ states'[i].closed => muxes'[states'[i].mux] = "closed"
               /\ states'[i].acceptingStopped /\ ~Applying(i, "stopService")'
                    => muxes'[states'[i].mux] # "accepting"
    <3>1. CASE states[i].mux = k
      <4>1. i = proc[p].state
        BY <1>1, <3>1 DEF IInv, MuxOwned
      <4>2. QED
        BY <1>1, <1>2, <1>4, <1>6, <2>1, <2>2, <3>1, <4>1
        DEF IInv, GoneServiceStaysGone, StateIds
    <3>2. CASE states[i].mux # k
      <4>1. i # proc[p].state
        BY <1>1, <3>2
      <4>2. QED
        BY <1>2, <1>4, <1>5, <2>1, <2>2, <3>2, <4>1
        DEF IInv, GoneServiceStaysGone, StateIds
    <3>3. QED
      BY <3>1, <3>2
  <2>3. QED
    BY <1>5, <2>2 DEF GoneServiceStaysGone, StateIds
<1>12. QED
  BY <1>7, <1>8, <1>9, <1>10, <1>11 DEF IInv

\* Close: the flag, the list of the services' objects, their muxes one by one.
LEMMA CloseIInv ==
  ASSUME IInv, Close \/ CloseStep
  PROVE  IInv'
<1>1. CASE Close \/ CloseSignal \/ CloseDone
  <2>1. TypeOK'
    BY <1>1 DEF IInv, TypeOK, Close, CloseSignal, CloseDone
  <2>2. Linked' /\ MuxOwned' /\ GoneServiceStaysGone'
    BY <1>1 DEF IInv, Close, CloseSignal, CloseDone, Linked, MuxOwned,
                GoneServiceStaysGone, Applying, StateIds, MuxIds
  <2>3. CloseSweeps'
    BY <1>1 DEF IInv, TypeOK, CloseSweeps, Close, CloseSignal, CloseDone, StateIds
  <2>4. QED
    BY <2>1, <2>2, <2>3 DEF IInv
<1>2. CASE CloseCollect
  <2>1. services \in [Service -> 0 .. MaxStates]
    BY DEF IInv, TypeOK
  <2>2. {services[s] : s \in Service} \ {0} \subseteq StateIds
    BY DEF IInv, Linked
  <2>3. TypeOK'
    BY <1>2, <2>1, ServiceMuxAssumption DEF IInv, TypeOK, CloseCollect, StateId
  <2>4. Linked' /\ MuxOwned' /\ GoneServiceStaysGone'
    BY <1>2 DEF IInv, CloseCollect, Linked, MuxOwned, GoneServiceStaysGone, Applying,
                StateIds, MuxIds
  <2>5. CloseSweeps'
    <3>1. \A i \in StateIds : i \in {services[s] : s \in Service} \ {0}
      BY <1>2, StateType DEF IInv, CloseSweeps, CloseCollect, StateIds, serviceState
    <3>2. QED
      BY <1>2, <2>2, <3>1 DEF IInv, CloseSweeps, CloseCollect, StateIds
  <2>6. QED
    BY <2>3, <2>4, <2>5 DEF IInv
<1>3. CASE CloseEach
  <2>1. PICK i \in closer.todo :
          /\ closer' = [closer EXCEPT !.todo = @ \ {i}]
          /\ muxes' = IF states[i].mux = 0 THEN muxes
                                           ELSE [muxes EXCEPT ![states[i].mux] = "closed"]
    BY <1>3 DEF CloseEach
  <2>2. /\ closer.pc = "muxes"
        /\ UNCHANGED <<services, states, closed, proc, directCh, packets>>
    BY <1>3 DEF CloseEach
  <2>3. i \in StateIds /\ StateIds' = StateIds
    BY <2>2 DEF IInv, CloseSweeps, StateIds
  <2>4. /\ muxes' \in Seq(MuxStatus) /\ Len(muxes') = Len(muxes) /\ MuxIds' = MuxIds
        /\ states[i].mux # 0 => muxes'[states[i].mux] = "closed"
        /\ \A k \in MuxIds : muxes'[k] = muxes[k] \/ muxes'[k] = "closed"
    <3>1. CASE states[i].mux = 0
      BY <2>1, <3>1 DEF IInv, TypeOK, MuxIds
    <3>2. CASE states[i].mux # 0
      <4>1. states[i].mux \in MuxIds /\ "closed" \in MuxStatus
        BY <2>3, <3>2 DEF IInv, Linked, MuxStatus
      <4>2. QED
        BY <2>1, <3>2, <4>1, UpdateFacts DEF IInv, TypeOK, MuxIds
    <3>3. QED
      BY <3>1, <3>2
  <2>5. TypeOK'
    BY <2>1, <2>2, <2>4 DEF IInv, TypeOK
  <2>6. Linked' /\ MuxOwned'
    BY <2>2, <2>3, <2>4 DEF IInv, Linked, MuxOwned
  <2>7. CloseSweeps'
    BY <2>1, <2>2, <2>3, <2>4 DEF IInv, TypeOK, Linked, CloseSweeps
  <2>8. GoneServiceStaysGone'
    BY <2>2, <2>3, <2>4 DEF IInv, Linked, GoneServiceStaysGone, Applying, StateIds
  <2>9. QED
    BY <2>5, <2>6, <2>7, <2>8 DEF IInv
<1>4. QED
  BY <1>1, <1>2, <1>3 DEF CloseStep

\* A direct packet touches its queue only.
LEMMA InputPacketIInv ==
  ASSUME IInv, InputPacket
  PROVE  IInv'
<1>1. TypeOK'
  <2>1. packets + 1 \in 1 .. MaxPackets /\ packets + 1 \in 0 .. MaxPackets
    BY ServiceMuxAssumption DEF IInv, TypeOK, InputPacket
  <2>2. directCh' \in Seq(1 .. MaxPackets) /\ Len(directCh') <= DirectCap
    <3> DEFINE n == packets + 1
    <3>1. /\ Append(directCh, n) \in Seq(1 .. MaxPackets)
          /\ Len(Append(directCh, n)) = Len(directCh) + 1 /\ Len(directCh) \in Nat
      <4> HIDE DEF n
      <4>1. n \in 1 .. MaxPackets
        BY <2>1 DEF n
      <4>2. QED
        BY <4>1, AppendFacts DEF IInv, TypeOK
    <3> HIDE DEF n
    <3>2. CASE Len(directCh) < DirectCap
      BY <3>1, <3>2, ServiceMuxAssumption DEF InputPacket, n
    <3>3. CASE ~(Len(directCh) < DirectCap)
      BY <3>3 DEF IInv, TypeOK, InputPacket
    <3>4. QED
      BY <3>2, <3>3
  <2>3. QED
    BY <2>1, <2>2 DEF IInv, TypeOK, InputPacket
<1>2. Linked' /\ MuxOwned' /\ CloseSweeps' /\ GoneServiceStaysGone'
  BY DEF IInv, InputPacket, Linked, MuxOwned, CloseSweeps, GoneServiceStaysGone, Applying,
         StateIds, MuxIds
<1>3. QED
  BY <1>1, <1>2 DEF IInv

LEMMA StepIInv == IInv /\ [Next]_vars => IInv'
<1> SUFFICES ASSUME IInv, [Next]_vars
             PROVE  IInv'
  OBVIOUS
<1>1. ASSUME NEW p \in Procs, Call(p) \/ Step(p)
      PROVE  IInv'
  BY <1>1, CallIInv, MoveIInv, CreateServiceIInv, CreateKcpMuxIInv, MarkServiceIInv,
     FinishServiceIInv DEF Step
<1>2. CASE InputPacket
  BY <1>2, InputPacketIInv
<1>3. CASE Close \/ CloseStep
  BY <1>3, CloseIInv
<1>4. CASE UNCHANGED vars
  BY <1>4 DEF vars, IInv, TypeOK, Linked, MuxOwned, CloseSweeps, GoneServiceStaysGone,
              Applying, StateIds, MuxIds
<1>5. QED
  BY <1>1, <1>2, <1>3, <1>4 DEF Next

LEMMA SpecIInv == Spec => []IInv
BY InitIInv, StepIInv, PTL DEF Spec

-----------------------------------------------------------------------------
(* The theorems.                                                           *)

\* The table, the objects and the goroutines' progress keep their types: no
\* goroutine of getOrCreateService, ensureKcpMux or CloseService leaves them.
THEOREM TypeCorrect == Spec => []TypeOK
<1>1. IInv => TypeOK
  BY DEF IInv
<1>2. QED
  BY SpecIInv, <1>1, PTL

\* Racing first uses of a service share one KcpMux (ensureKcpMux), and when
\* ServiceMux.Close has returned every KcpMux ever made is closed.
THEOREM MuxesNeverOrphaned == Spec => []NoOrphanMux
<1>1. IInv => NoOrphanMux
  <2> SUFFICES ASSUME IInv, NEW k \in 1 .. Len(muxes)
               PROVE  /\ Cardinality({i \in 1 .. Len(states) : states[i].mux = k}) = 1
                      /\ closer.pc = "done" => muxes[k] = "closed"
    BY DEF NoOrphanMux
  <2>1. PICK i \in StateIds : states[i].mux = k /\ k # 0
    BY DEF IInv, MuxOwned, MuxIds
  <2>2. {j \in 1 .. Len(states) : states[j].mux = k} = {i}
    BY <2>1 DEF IInv, MuxOwned, StateIds
  <2>3. closer.pc = "done" => muxes[k] = "closed"
    BY <2>1 DEF IInv, CloseSweeps
  <2>4. QED
    BY <2>2, <2>3, FS_Singleton
<1>2. QED
  BY SpecIInv, <1>1, PTL

\* A service that CloseService closed, or StopAcceptingService stopped, has no
\* open, or accepting, mux once the call has returned, and gets none later.
THEOREM GoneServicesStayGone == Spec => []GoneServiceStaysGone
<1>1. IInv => GoneServiceStaysGone
  BY DEF IInv
<1>2. QED
  BY SpecIInv, <1>1, PTL

=============================================================================
