----------------------------- MODULE ServiceMux -----------------------------
(***************************************************************************)
(* The services of one peer (core/service_mux.go): a table of services,    *)
(* each with a KcpMux that is created on first use, by goroutines that     *)
(* open or accept a stream and by the receive loop, while others stop or   *)
(* close the service or close the whole ServiceMux.                        *)
(*                                                                         *)
(* A step is one critical section of m.mu or one access outside it.  The   *)
(* fields mux, closed and acceptingStopped of a service are also read      *)
(* outside the lock; such a read is a step of its own.  KcpMux itself is   *)
(* the module of that name: here it is accepting, stopped or closed.       *)
(***************************************************************************)
EXTENDS Integers, Sequences, FiniteSets

CONSTANTS
  Service,       \* service ids
  Allowed,       \* services that OnNewService lets the peer create
  Procs,         \* goroutines that call an operation
  DirectCap,     \* capacity of directCh
  MaxStates,     \* bound: serviceState objects created
  MaxMuxes,      \* bound: KcpMux objects created
  MaxPackets     \* bound: direct packets received

ASSUME ServiceMuxAssumption == /\ Service # {}
                               /\ Allowed \subseteq Service
                               /\ DirectCap \in Nat
                               /\ MaxStates \in Nat
                               /\ MaxMuxes \in Nat
                               /\ MaxPackets \in Nat

VARIABLES
  services,   \* services[s]: its serviceState object, or 0
  states,     \* the serviceState objects made so far
  muxes,      \* muxes[k]: status of the k-th KcpMux made
  closed,     \* the atomic flag
  closer,     \* progress of Close
  proc,       \* proc[p]: progress of an operation
  directCh,   \* the queue of direct packets
  packets     \* direct packets received

vars == <<services, states, muxes, closed, closer, proc, directCh, packets>>

StateId      == 1 .. MaxStates
MuxId        == 1 .. MaxMuxes
MuxStatus    == {"accepting", "stopped", "closed"}
serviceState == [service : Service, mux : 0 .. MaxMuxes, closed : BOOLEAN,
                 acceptingStopped : BOOLEAN]

Op   == {"none", "open", "accept", "input", "closeService", "stopService", "read"}
Proc == [pc : {"idle", "get", "put", "ensure", "create", "mark", "readMux", "use",
               "select", "copy"},
         op : Op, service : Service, state : 0 .. MaxStates, mux : 0 .. MaxMuxes]

AnyService == CHOOSE s \in Service : TRUE
IdleProc   == [pc |-> "idle", op |-> "none", service |-> AnyService, state |-> 0, mux |-> 0]

Idle(p)     == proc' = [proc EXCEPT ![p] = IdleProc]
Goto(p, pc) == proc' = [proc EXCEPT ![p].pc = pc]

\* NewServiceMux.
Init ==
  /\ services = [s \in Service |-> 0]
  /\ states = << >>
  /\ muxes = << >>
  /\ closed = FALSE
  /\ closer = [pc |-> "idle", todo |-> {}]
  /\ proc = [p \in Procs |-> IdleProc]
  /\ directCh = << >>
  /\ packets = 0

-----------------------------------------------------------------------------
(* The common path: getOrCreateService and ensureKcpMux.                    *)

\* OpenStream and AcceptStream past their test of closed.
CallStream(p, op, s) ==
  /\ proc[p].pc = "idle"
  /\ op \in {"open", "accept"}
  /\ ~closed
  /\ proc' = [proc EXCEPT ![p].pc = "get", ![p].op = op, ![p].service = s]
  /\ UNCHANGED <<services, states, muxes, closed, closer, directCh, packets>>

\* InputKCP: closed, then the service's flags.  A frame of a closed service, an
\* OPEN for a stopped one and a frame of a service the policy refuses are
\* answered (rejectUnknownService) and change nothing.
InputKCP(p, s, isOpen) ==
  LET i == services[s]
  IN  /\ proc[p].pc = "idle"
      /\ ~closed
      /\ IF i = 0
           THEN /\ s \in Allowed
                /\ proc' = [proc EXCEPT ![p].pc = "get", ![p].op = "input",
                                        ![p].service = s]
           ELSE /\ ~states[i].closed
                /\ ~(states[i].acceptingStopped /\ isOpen)
                /\ proc' = [proc EXCEPT ![p].pc = "ensure", ![p].op = "input",
                                        ![p].service = s, ![p].state = i]
      /\ UNCHANGED <<services, states, muxes, closed, closer, directCh, packets>>

\* getOrCreateService: closed, which may be set right after the test, and the
\* service under the read lock.
GetService(p) ==
  LET i == services[proc[p].service]
  IN  /\ proc[p].pc = "get"
      /\ \/ closed /\ Idle(p)
         \/ IF i = 0
              THEN Goto(p, "put")
              ELSE IF states[i].closed
                THEN Idle(p)
                ELSE proc' = [proc EXCEPT ![p].pc = "ensure", ![p].state = i]
      /\ UNCHANGED <<services, states, muxes, closed, closer, directCh, packets>>

NewState(s) == [service |-> s, mux |-> 0, closed |-> FALSE, acceptingStopped |-> FALSE]

\* getOrCreateService under the write lock, everything checked again.
CreateService(p) ==
  LET s == proc[p].service
      i == services[s]
  IN  /\ proc[p].pc = "put"
      /\ IF closed \/ (i # 0 /\ states[i].closed)
           THEN Idle(p) /\ UNCHANGED <<services, states>>
           ELSE IF i # 0
             THEN /\ proc' = [proc EXCEPT ![p].pc = "ensure", ![p].state = i]
                  /\ UNCHANGED <<services, states>>
             ELSE /\ Len(states) < MaxStates
                  /\ states' = Append(states, NewState(s))
                  /\ services' = [services EXCEPT ![s] = Len(states) + 1]
                  /\ proc' = [proc EXCEPT ![p].pc = "ensure",
                                          ![p].state = Len(states) + 1]
      /\ UNCHANGED <<muxes, closed, closer, directCh, packets>>

\* ensureKcpMux under the read lock.
FindKcpMux(p) ==
  LET k == states[proc[p].state].mux
  IN  /\ proc[p].pc = "ensure"
      /\ proc' = IF k # 0 THEN [proc EXCEPT ![p].pc = "use", ![p].mux = k]
                          ELSE [proc EXCEPT ![p].pc = "create"]
      /\ UNCHANGED <<services, states, muxes, closed, closer, directCh, packets>>

MakeMux(p, i, status) ==
  /\ Len(muxes) < MaxMuxes
  /\ muxes' = Append(muxes, status)
  /\ states' = [states EXCEPT ![i].mux = Len(muxes) + 1]
  /\ proc' = [proc EXCEPT ![p].pc = "use", ![p].mux = Len(muxes) + 1]

NewStatus(i) == IF states[i].acceptingStopped THEN "stopped" ELSE "accepting"

\* A wrong form, for the mutation runs: a closed service gets a mux again.
CreateKcpMuxClosedService(p) ==
  LET i == proc[p].state
      k == states[i].mux
  IN  /\ proc[p].pc = "create"
      /\ IF closed
           THEN Idle(p) /\ UNCHANGED <<states, muxes>>
           ELSE IF k # 0
             THEN /\ proc' = [proc EXCEPT ![p].pc = "use", ![p].mux = k]
                  /\ UNCHANGED <<states, muxes>>
             ELSE MakeMux(p, i, NewStatus(i))
      /\ UNCHANGED <<services, closed, closer, directCh, packets>>

\* A wrong form, for the mutation runs: closed is not looked at again.
CreateKcpMuxAfterClose(p) ==
  LET i == proc[p].state
      k == states[i].mux
  IN  /\ proc[p].pc = "create"
      /\ IF k = 0 /\ states[i].closed
           THEN Idle(p) /\ UNCHANGED <<states, muxes>>
           ELSE IF k # 0
             THEN /\ proc' = [proc EXCEPT ![p].pc = "use", ![p].mux = k]
                  /\ UNCHANGED <<states, muxes>>
             ELSE MakeMux(p, i, NewStatus(i))
      /\ UNCHANGED <<services, closed, closer, directCh, packets>>

\* ensureKcpMux under the write lock.  A service that was stopped before it had
\* a mux gets a stopped one.
CreateKcpMux(p) ==
  LET i == proc[p].state
      k == states[i].mux
  IN  /\ proc[p].pc = "create"
      /\ IF closed \/ (k = 0 /\ states[i].closed)
           THEN Idle(p) /\ UNCHANGED <<states, muxes>>
           ELSE IF k # 0
             THEN /\ proc' = [proc EXCEPT ![p].pc = "use", ![p].mux = k]
                  /\ UNCHANGED <<states, muxes>>
             ELSE MakeMux(p, i, NewStatus(i))
      /\ UNCHANGED <<services, closed, closer, directCh, packets>>

\* Open, Accept or Input of the mux that was found: see KcpMux.
UseKcpMux(p) ==
  /\ proc[p].pc = "use" /\ proc[p].op \in {"open", "accept", "input"}
  /\ Idle(p)
  /\ UNCHANGED <<services, states, muxes, closed, closer, directCh, packets>>

-----------------------------------------------------------------------------
(* CloseService and StopAcceptingService.                                   *)

CallService(p, op, s) ==
  /\ proc[p].pc = "idle"
  /\ op \in {"closeService", "stopService"}
  /\ ~closed
  /\ proc' = [proc EXCEPT ![p].pc = "mark", ![p].op = op, ![p].service = s]
  /\ UNCHANGED <<services, states, muxes, closed, closer, directCh, packets>>

\* The critical section of both: a missing service is created, so that one that
\* is closed or stopped before its first use stays so.
MarkService(p) ==
  LET s == proc[p].service
      i == services[s]
      j == IF i = 0 THEN Len(states) + 1 ELSE i
  IN  /\ proc[p].pc = "mark"
      /\ i = 0 => Len(states) < MaxStates
      /\ services' = [services EXCEPT ![s] = j]
      /\ LET marked == [(IF i = 0 THEN NewState(s) ELSE states[i]) EXCEPT
                          !.closed = @ \/ proc[p].op = "closeService",
                          !.acceptingStopped = TRUE]
         IN  states' = IF i = 0 THEN Append(states, marked)
                                ELSE [states EXCEPT ![i] = marked]
      /\ proc' = [proc EXCEPT ![p].pc = "readMux", ![p].state = j]
      /\ UNCHANGED <<muxes, closed, closer, directCh, packets>>

\* state.mux is read after the lock is released.
ReadMux(p) ==
  LET k == states[proc[p].state].mux
  IN  /\ proc[p].pc = "readMux"
      /\ IF k = 0 THEN Idle(p)
                  ELSE proc' = [proc EXCEPT ![p].pc = "use", ![p].mux = k]
      /\ UNCHANGED <<services, states, muxes, closed, closer, directCh, packets>>

\* KcpMux.StopAccepting leaves a closed mux alone.
Stop(status) == IF status = "accepting" THEN "stopped" ELSE status

\* mux.Close or mux.StopAccepting.
FinishService(p) ==
  LET k == proc[p].mux
  IN  /\ proc[p].pc = "use" /\ proc[p].op \in {"closeService", "stopService"}
      /\ muxes' = [muxes EXCEPT ![k] = IF proc[p].op = "closeService"
                                         THEN "closed" ELSE Stop(@)]
      /\ Idle(p)
      /\ UNCHANGED <<services, states, closed, closer, directCh, packets>>

-----------------------------------------------------------------------------
(* Direct packets.                                                          *)

\* A full queue drops the packet (ErrInboundQueueFull).
InputPacket ==
  /\ ~closed
  /\ packets < MaxPackets
  /\ packets' = packets + 1
  /\ directCh' = IF Len(directCh) < DirectCap THEN Append(directCh, packets + 1)
                                              ELSE directCh
  /\ UNCHANGED <<services, states, muxes, closed, closer, proc>>

CallRead(p) ==
  /\ proc[p].pc = "idle"
  /\ ~closed
  /\ proc' = [proc EXCEPT ![p].pc = "select", ![p].op = "read"]
  /\ UNCHANGED <<services, states, muxes, closed, closer, directCh, packets>>

ReadReceive(p) ==
  /\ proc[p].pc = "select"
  /\ directCh # << >>
  /\ directCh' = Tail(directCh)
  /\ Goto(p, "copy")
  /\ UNCHANGED <<services, states, muxes, closed, closer, packets>>

\* A wrong form, for the mutation runs: Read does not select on closeCh.
ReadReturnNoSignal(p) ==
  /\ proc[p].pc = "copy"
  /\ Idle(p)
  /\ UNCHANGED <<services, states, muxes, closed, closer, directCh, packets>>

\* closeCh is closed; or the packet is copied, or lost if closed by now.
ReadReturn(p) ==
  /\ \/ proc[p].pc = "select" /\ closer.pc \notin {"idle", "flagged"}
     \/ proc[p].pc = "copy"
  /\ Idle(p)
  /\ UNCHANGED <<services, states, muxes, closed, closer, directCh, packets>>

-----------------------------------------------------------------------------
(* Close.                                                                   *)

Close ==
  /\ closer.pc = "idle"
  /\ closed' = TRUE
  /\ closer' = [closer EXCEPT !.pc = "flagged"]
  /\ UNCHANGED <<services, states, muxes, proc, directCh, packets>>

CloseSignal ==
  /\ closer.pc = "flagged"
  /\ closer' = [closer EXCEPT !.pc = "signalled"]
  /\ UNCHANGED <<services, states, muxes, closed, proc, directCh, packets>>

\* A wrong form, for the mutation runs: services that do not exist are collected.
CloseCollectMissing ==
  /\ closer.pc = "signalled"
  /\ closer' = [pc |-> "muxes", todo |-> {services[s] : s \in Service}]
  /\ services' = [s \in Service |-> 0]
  /\ UNCHANGED <<states, muxes, closed, proc, directCh, packets>>

\* The critical section: the services are collected and the table is emptied.
CloseCollect ==
  /\ closer.pc = "signalled"
  /\ closer' = [pc |-> "muxes", todo |-> {services[s] : s \in Service} \ {0}]
  /\ services' = [s \in Service |-> 0]
  /\ UNCHANGED <<states, muxes, closed, proc, directCh, packets>>

CloseEach ==
  /\ closer.pc = "muxes"
  /\ \E i \in closer.todo :
       /\ closer' = [closer EXCEPT !.todo = @ \ {i}]
       /\ muxes' = IF states[i].mux = 0 THEN muxes
                                        ELSE [muxes EXCEPT ![states[i].mux] = "closed"]
  /\ UNCHANGED <<services, states, closed, proc, directCh, packets>>

CloseDone ==
  /\ closer.pc = "muxes" /\ closer.todo = {}
  /\ closer' = [closer EXCEPT !.pc = "done"]
  /\ UNCHANGED <<services, states, muxes, closed, proc, directCh, packets>>

-----------------------------------------------------------------------------
Call(p) ==
  \/ \E s \in Service :
       \/ \E op \in {"open", "accept"} : CallStream(p, op, s)
       \/ \E op \in {"closeService", "stopService"} : CallService(p, op, s)
       \/ \E isOpen \in BOOLEAN : InputKCP(p, s, isOpen)
  \/ CallRead(p)

Step(p) ==
  \/ GetService(p) \/ CreateService(p) \/ FindKcpMux(p) \/ CreateKcpMux(p)
  \/ UseKcpMux(p) \/ MarkService(p) \/ ReadMux(p) \/ FinishService(p)
  \/ ReadReceive(p) \/ ReadReturn(p)

CloseStep == CloseSignal \/ CloseCollect \/ CloseEach \/ CloseDone

Next == \/ \E p \in Procs : Call(p) \/ Step(p)
        \/ InputPacket
        \/ Close \/ CloseStep

Spec == Init /\ [][Next]_vars

\* The Go scheduler runs every goroutine that can run.
FairSpec == /\ Spec
            /\ \A p \in Procs : WF_vars(Step(p))
            /\ WF_vars(CloseStep)

-----------------------------------------------------------------------------
(* Properties.                                                             *)

\* Types of the table, of its objects and of the goroutines' progress.
TypeOK ==
  /\ services \in [Service -> 0 .. MaxStates]
  /\ states \in Seq(serviceState) /\ Len(states) <= MaxStates
  /\ muxes \in Seq(MuxStatus) /\ Len(muxes) <= MaxMuxes
  /\ closed \in BOOLEAN
  /\ closer \in [pc : {"idle", "flagged", "signalled", "muxes", "done"},
                 todo : SUBSET StateId]
  /\ proc \in [Procs -> Proc]
  /\ directCh \in Seq(1 .. MaxPackets) /\ Len(directCh) <= DirectCap
  /\ packets \in 0 .. MaxPackets

\* Some goroutine is still to apply op to the service object i.
Applying(i, op) ==
  \E p \in Procs : /\ proc[p].op = op /\ proc[p].state = i
                   /\ proc[p].pc \in {"readMux", "use"}

\* Racing first uses of a service agree on one KcpMux: every mux made is the mux
\* of exactly one service object (two would hand out the same stream ids, and
\* the one that is overwritten would never be closed).  ServiceMux.Close returns
\* only when all of them are closed, those that first uses were making at that
\* moment included: no stream of a closed peer keeps its goroutines and timers.
NoOrphanMux ==
  \A k \in 1 .. Len(muxes) :
    /\ Cardinality({i \in 1 .. Len(states) : states[i].mux = k}) = 1
    /\ closer.pc = "done" => muxes[k] = "closed"

\* CloseService and StopAcceptingService hold: when they have returned, the
\* service has no mux that is not closed, or that accepts, also when a first use
\* was under way.
GoneServiceStaysGone ==
  \A i \in 1 .. Len(states) :
    states[i].mux # 0 /\ ~Applying(i, "closeService") =>
      /\ states[i].closed => muxes[states[i].mux] = "closed"
      /\ states[i].acceptingStopped /\ ~Applying(i, "stopService") =>
           muxes[states[i].mux] # "accepting"

\* A Read that waits for a packet returns once Close has run.
ReadUnblocked ==
  \A p \in Procs : (proc[p].pc = "select" /\ closed) ~> proc[p].pc = "idle"

=============================================================================
