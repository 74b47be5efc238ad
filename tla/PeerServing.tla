---------------------------- MODULE PeerServing ----------------------------
(***************************************************************************)
(* How a server keeps one peer served: the peer's service-mux generations  *)
(* (core/peer.go, core/udp.go), the listener and its Conns (giznoise), and *)
(* the server's use of them: Accept, one serving run per accepted Conn,    *)
(* with an accept loop per HTTP service, and the manager's table of peers  *)
(* that are online (gizclaw).                                              *)
(*                                                                         *)
(* Events travel through a bounded queue, Conns outlive mux generations    *)
(* and the reverse, and everything runs concurrently: the receive loop, a  *)
(* handshake worker, the accept goroutine, the serving runs, whoever dials *)
(* the peer, and the manager's refresh.  Another listener's peers are      *)
(* independent, so the model has one peer.                                 *)
(***************************************************************************)
EXTENDS Integers, Sequences, FiniteSets

CONSTANTS
  EventCap,   \* capacity of the listener's event queue
  Loops,      \* the HTTP services of a serving run
  Dialers,    \* goroutines that call Listener.Dial
  Manager,    \* goroutines that call the manager's RefreshPeer
  MaxGens,    \* bound: mux generations
  MaxConns,   \* bound: Conns made
  MaxRuns,    \* bound: serving runs
  MaxDials    \* bound: calls of Dial and of RefreshPeer

ASSUME ServingAssumption == /\ EventCap \in Nat \ {0}
                            /\ MaxGens \in Nat /\ MaxConns \in Nat /\ MaxRuns \in Nat
                            /\ MaxDials \in Nat
                            /\ Dialers \cap Manager = {}

VARIABLES
  peer,         \* the peer's session, state and current mux
  gens,         \* gens[g]: the g-th ServiceMux is open
  stopped,      \* the services a generation no longer accepts streams for
  conns,        \* conns[c]: the Conn's smux and closed fields
  established,  \* the listener's Conn for the peer, or 0
  lmu,          \* the listener's mutex is held (by Conn.Close)
  events,       \* the listener's event queue
  rx, hs,       \* progress of the receive loop and of the handshake worker
  acceptor,     \* progress of Listener.Accept
  client,       \* client[p]: progress of Listener.Dial and of RefreshPeer
  runs,         \* runs[r]: progress of the r-th serving run
  loop,         \* loop[r][l]: progress of its accept loops
  online,       \* the Conn the manager has for the peer, or 0
  dials,        \* calls of Dial and RefreshPeer
  gone          \* history: the last thing the peer sent was a close notice

net  == <<peer, gens, stopped>>
lsn  == <<conns, established, lmu>>
srv  == <<acceptor, runs, loop>>
vars == <<peer, gens, stopped, conns, established, lmu, events, rx, hs, acceptor, client,
          runs, loop, online, dials, gone>>

Gen   == 1 .. MaxGens
ConnId == 1 .. MaxConns
RunId == 1 .. MaxRuns
PeerState == {"new", "connecting", "established", "failed", "offline"}
Client == Dialers \union Manager

NoLoop == [pc |-> "accept", gen |-> 0]
NoCall == [pc |-> "idle", conn |-> 0, gen |-> 0]
NoHandler == [pc |-> "idle", for |-> {}]

\* A server that listens, before its peer has been heard of.
Init ==
  /\ peer = [session |-> FALSE, state |-> "new", mux |-> 0]
  /\ gens = << >>
  /\ stopped = {}
  /\ conns = << >>
  /\ established = 0
  /\ lmu = FALSE
  /\ events = << >>
  /\ rx = [pc |-> "idle", gen |-> 0]
  /\ hs = NoHandler
  /\ acceptor = [pc |-> "select", gen |-> 0]
  /\ client = [p \in Client |-> NoCall]
  /\ runs = << >>
  /\ loop = [r \in RunId |-> [l \in Loops |-> NoLoop]]
  /\ online = 0
  /\ dials = 0
  /\ gone = FALSE

-----------------------------------------------------------------------------
(* Mux generations (core) and the events they cause (giznoise, gizclaw).    *)

IsOpen(g) == g # 0 /\ gens[g]

\* A wrong form, for the mutation runs: a mux that is there is not looked at.
EnsureServiceMuxFresh(g, made) ==
  /\ peer.session
  /\ Len(gens) < MaxGens
  /\ gens' = Append(gens, TRUE)
  /\ UNCHANGED stopped
  /\ peer' = [session |-> TRUE, state |-> "established", mux |-> Len(gens) + 1]
  /\ g = Len(gens) + 1 /\ made = TRUE

\* createServiceMux under peer.mu.
NewGeneration ==
  /\ Len(gens) < MaxGens
  /\ gens' = Append(gens, TRUE)
  /\ UNCHANGED stopped
  /\ peer' = [session |-> TRUE, state |-> "established", mux |-> Len(gens) + 1]

\* ensureServiceMux: its critical section yields the current generation or makes
\* one, and then the caller still has to emit Established.
EnsureServiceMux(g, made) ==
  /\ peer.session
  /\ IF IsOpen(peer.mux)
       THEN g = peer.mux /\ made = FALSE /\ UNCHANGED net
       ELSE NewGeneration /\ g = Len(gens) + 1 /\ made = TRUE

\* A wrong form, for the mutation runs: the queue is not bounded.
EmitUnbounded(state) ==
  /\ events' = Append(events, state)
  /\ online' = IF state = "offline" THEN 0 ELSE online

\* emitPeerEvent: Listener.onPeerEvent calls the server's handler, which marks
\* the peer down on Offline, and queues the event unless the queue is full.
Emit(state) ==
  /\ events' = IF Len(events) < EventCap THEN Append(events, state) ELSE events
  /\ online' = IF state = "offline" THEN 0 ELSE online

-----------------------------------------------------------------------------
(* The network's side: the handshake worker and the receive loop.           *)

\* The peer.mu section of a handshake handler: a mux is kept if there is one.
\* calls is the Connect call that a response answers, or none.
Install(calls) ==
  /\ hs.pc = "idle"
  /\ IF peer.mux = 0
       THEN NewGeneration /\ hs' = [pc |-> "emit", for |-> calls]
       ELSE /\ peer' = [peer EXCEPT !.session = TRUE, !.state = "established"]
            /\ hs' = [pc |-> "signal", for |-> calls]
            /\ UNCHANGED <<gens, stopped>>
  /\ gone' = FALSE
  /\ UNCHANGED <<lsn, events, rx, client, srv, online, dials>>

HandshakeInit    == Install({})
HandshakeResp(p) == client[p].pc = "wait" /\ Install({p})

HandshakeEmit ==
  /\ hs.pc = "emit"
  /\ Emit("established")
  /\ hs' = [hs EXCEPT !.pc = "signal"]
  /\ UNCHANGED <<net, lsn, rx, client, srv, dials, gone>>

\* The answered Connect call, if it has not timed out, goes on.
HandshakeSignal ==
  /\ hs.pc = "signal"
  /\ client' = [p \in Client |->
                  IF p \in hs.for /\ client[p].pc = "wait"
                    THEN [client[p] EXCEPT !.pc = "connected"] ELSE client[p]]
  /\ hs' = NoHandler
  /\ UNCHANGED <<net, lsn, events, rx, srv, online, dials, gone>>

\* Service data: deliverInboundKCP, deliverInboundDirect.
InboundData ==
  /\ rx.pc = "idle"
  /\ \E g \in Gen, made \in BOOLEAN :
       /\ EnsureServiceMux(g, made)
       /\ rx' = IF made THEN [rx EXCEPT !.pc = "emit"] ELSE rx
  /\ gone' = FALSE
  /\ UNCHANGED <<lsn, events, hs, client, srv, online, dials>>

InboundEmit ==
  /\ rx.pc = "emit"
  /\ Emit("established")
  /\ rx' = [rx EXCEPT !.pc = "idle"]
  /\ UNCHANGED <<net, lsn, hs, client, srv, dials, gone>>

GoOffline == peer' = [peer EXCEPT !.state = "offline", !.mux = 0]

\* The peer's close notice: CloseServiceMux(nil), its critical section ...
RemoteClose ==
  /\ rx.pc = "idle"
  /\ peer.session
  /\ rx' = IF peer.state = "offline" THEN rx ELSE [pc |-> "close", gen |-> peer.mux]
  /\ GoOffline
  /\ gone' = TRUE
  /\ UNCHANGED <<gens, stopped, lsn, events, hs, client, srv, online, dials>>

CloseGen(g) == gens' = IF g = 0 THEN gens ELSE [gens EXCEPT ![g] = FALSE]

\* ... the mux outside the lock ...
RemoteCloseMux ==
  /\ rx.pc = "close"
  /\ CloseGen(rx.gen)
  /\ rx' = [pc |-> "offline", gen |-> 0]
  /\ UNCHANGED <<peer, stopped, lsn, events, hs, client, srv, online, dials, gone>>

\* ... and the event.
RemoteCloseEmit ==
  /\ rx.pc = "offline"
  /\ Emit("offline")
  /\ rx' = [rx EXCEPT !.pc = "idle"]
  /\ UNCHANGED <<net, lsn, hs, client, srv, dials, gone>>

-----------------------------------------------------------------------------
(* Listener.Accept and the server's loop around it.                         *)

\* servePeerListener starts a run for whatever Conn Accept returned.
StartRun(c) ==
  /\ Len(runs) < MaxRuns
  /\ runs' = Append(runs, [pc |-> "ensure", conn |-> c, gen |-> 0])

\* Events other than Established are skipped.
AcceptEvent ==
  /\ acceptor.pc = "select"
  /\ events # << >>
  /\ events' = Tail(events)
  /\ acceptor' = IF Head(events) = "established" THEN [acceptor EXCEPT !.pc = "check"]
                                                 ELSE acceptor
  /\ UNCHANGED <<net, lsn, rx, hs, client, runs, loop, online, dials, gone>>

AcceptCheck ==
  /\ acceptor.pc = "check" /\ ~lmu
  /\ IF established # 0
       THEN /\ StartRun(established)
            /\ acceptor' = [acceptor EXCEPT !.pc = "select"]
       ELSE /\ acceptor' = [acceptor EXCEPT !.pc = "mux"]
            /\ UNCHANGED runs
  /\ UNCHANGED <<net, lsn, events, rx, hs, client, loop, online, dials, gone>>

AcceptMux ==
  /\ acceptor.pc = "mux"
  /\ \E g \in Gen, made \in BOOLEAN :
       /\ EnsureServiceMux(g, made)
       /\ acceptor' = [pc |-> IF made THEN "emit" ELSE "insert", gen |-> g]
  /\ UNCHANGED <<lsn, events, rx, hs, client, runs, loop, online, dials, gone>>

AcceptEmit ==
  /\ acceptor.pc = "emit"
  /\ Emit("established")
  /\ acceptor' = [acceptor EXCEPT !.pc = "insert"]
  /\ UNCHANGED <<net, lsn, rx, hs, client, runs, loop, dials, gone>>

\* A wrong form, for the mutation runs: the table is not looked at again.
InsertConnUnchecked(g) ==
  /\ Len(conns) < MaxConns
  /\ conns' = Append(conns, [smux |-> g, closed |-> FALSE])
  /\ established' = Len(conns) + 1

\* The second critical section: an existing Conn wins.
InsertConn(g) ==
  IF established # 0
    THEN UNCHANGED <<conns, established>>
    ELSE /\ Len(conns) < MaxConns
         /\ conns' = Append(conns, [smux |-> g, closed |-> FALSE])
         /\ established' = Len(conns) + 1

AcceptInsert ==
  /\ acceptor.pc = "insert" /\ ~lmu
  /\ InsertConn(acceptor.gen)
  /\ StartRun(established')
  /\ acceptor' = [pc |-> "select", gen |-> 0]
  /\ UNCHANGED <<net, lmu, events, rx, hs, client, loop, online, dials, gone>>

-----------------------------------------------------------------------------
(* Listener.Dial, and the manager's RefreshPeer, which dials the peer on the *)
(* Conn it has (Conn.dialServiceMux) and marks the peer down if it is gone.  *)

GotoClient(p, pc) == client' = [client EXCEPT ![p].pc = pc]

DialCall(p) ==
  /\ p \in Dialers /\ client[p].pc = "idle" /\ ~lmu
  /\ dials < MaxDials
  /\ established = 0                \* otherwise that Conn is returned
  /\ GotoClient(p, "connect")
  /\ dials' = dials + 1
  /\ UNCHANGED <<net, lsn, events, rx, hs, srv, online, gone>>

RefreshPeer(p) ==
  /\ p \in Manager /\ client[p].pc = "idle"
  /\ dials < MaxDials
  /\ client' = [client EXCEPT ![p] = [pc |-> "dial", conn |-> online, gen |-> 0]]
  /\ dials' = dials + 1
  /\ UNCHANGED <<net, lsn, events, rx, hs, srv, online, gone>>

\* dialServiceMux.  Of the errors only a missing or a closed Conn counts as
\* offline; an RPC on an open mux has any outcome and changes nothing here.
RefreshDial(p) ==
  LET c == client[p].conn
  IN  /\ client[p].pc = "dial"
      /\ GotoClient(p, IF c = 0 THEN "down"
                       ELSE IF conns[c].closed THEN "down"
                       ELSE IF IsOpen(conns[c].smux) THEN "idle"
                       ELSE IF peer.state # "established" THEN "connect" ELSE "mux")
      /\ UNCHANGED <<net, lsn, events, rx, hs, srv, online, dials, gone>>

RefreshDown(p) ==
  /\ client[p].pc = "down"
  /\ online' = 0
  /\ client' = [client EXCEPT ![p] = NoCall]
  /\ UNCHANGED <<net, lsn, events, rx, hs, srv, dials, gone>>

\* initiateHandshake: Connecting, its event, the wait, and what a timeout does.
Connect(p) ==
  /\ client[p].pc = "connect"
  /\ peer' = [peer EXCEPT !.state = "connecting"]
  /\ GotoClient(p, "connecting")
  /\ UNCHANGED <<gens, stopped, lsn, events, rx, hs, srv, online, dials, gone>>

ConnectEmit(p) ==
  /\ client[p].pc \in {"connecting", "failed"}
  /\ Emit(client[p].pc)
  /\ client' = [client EXCEPT ![p] = IF client[p].pc = "failed" THEN NoCall
                                     ELSE [client[p] EXCEPT !.pc = "wait"]]
  /\ UNCHANGED <<net, lsn, rx, hs, srv, dials, gone>>

ConnectTimeout(p) ==
  /\ client[p].pc = "wait"
  /\ peer' = [peer EXCEPT !.state = "failed"]
  /\ GotoClient(p, "failed")
  /\ UNCHANGED <<gens, stopped, lsn, events, rx, hs, srv, online, dials, gone>>

\* Dial looks into the table again.
Connected(p) ==
  /\ client[p].pc = "connected"
  /\ p \in Dialers => ~lmu
  /\ client' = [client EXCEPT ![p] = IF p \in Dialers /\ established # 0 THEN NoCall
                                     ELSE [client[p] EXCEPT !.pc = "mux"]]
  /\ UNCHANGED <<net, lsn, events, rx, hs, srv, online, dials, gone>>

ClientMux(p) ==
  /\ client[p].pc = "mux"
  /\ \E g \in Gen, made \in BOOLEAN :
       /\ EnsureServiceMux(g, made)
       /\ client' = [client EXCEPT ![p].pc = IF made THEN "emit" ELSE "use", ![p].gen = g]
  /\ UNCHANGED <<lsn, events, rx, hs, srv, online, dials, gone>>

ClientEmit(p) ==
  /\ client[p].pc = "emit"
  /\ Emit("established")
  /\ GotoClient(p, "use")
  /\ UNCHANGED <<net, lsn, rx, hs, srv, dials, gone>>

DialInsert(p) ==
  /\ p \in Dialers /\ client[p].pc = "use" /\ ~lmu
  /\ InsertConn(client[p].gen)
  /\ client' = [client EXCEPT ![p] = NoCall]
  /\ UNCHANGED <<net, lmu, events, rx, hs, srv, online, dials, gone>>

\* c.smux = smux, without a lock.
RefreshAssign(p) ==
  /\ p \in Manager /\ client[p].pc = "use"
  /\ conns' = [conns EXCEPT ![client[p].conn].smux = client[p].gen]
  /\ client' = [client EXCEPT ![p] = NoCall]
  /\ UNCHANGED <<net, established, lmu, events, rx, hs, srv, online, dials, gone>>

-----------------------------------------------------------------------------
(* A serving run: PeerService.ServeConn.                                    *)

GotoRun(r, pc) == runs' = [runs EXCEPT ![r].pc = pc]

\* EnsurePeer may fail, which closes the Conn.
RunEnsure(r) ==
  /\ runs[r].pc = "ensure"
  /\ \E pc \in {"up", "close"} : GotoRun(r, pc)
  /\ UNCHANGED <<net, lsn, events, rx, hs, acceptor, client, loop, online, dials, gone>>

\* SetPeerUp, and the accept loops start.
RunUp(r) ==
  /\ runs[r].pc = "up"
  /\ online' = runs[r].conn
  /\ GotoRun(r, "serving")
  /\ UNCHANGED <<net, lsn, events, rx, hs, acceptor, client, loop, dials, gone>>

\* A wrong form, for the mutation runs: SetPeerDown is not deferred.
RunDownForgets(r) ==
  /\ runs[r].pc = "serving"
  /\ \A l \in Loops : loop[r][l].pc = "done"
  /\ GotoRun(r, "close")
  /\ UNCHANGED <<net, lsn, events, rx, hs, acceptor, client, loop, online, dials, gone>>

\* Both loops have returned: the deferred SetPeerDown.
RunDown(r) ==
  /\ runs[r].pc = "serving"
  /\ \A l \in Loops : loop[r][l].pc = "done"
  /\ online' = 0
  /\ GotoRun(r, "close")
  /\ UNCHANGED <<net, lsn, events, rx, hs, acceptor, client, loop, dials, gone>>

\* Conn.Close, up to the point where the mux must be closed: l.mu is held from
\* here on.  next is where the caller goes if there is nothing more to do.
ConnCloseBegin(c, more, next, goto) ==
  /\ ~lmu
  /\ IF conns[c].closed
       THEN /\ goto = next                               \* ErrConnClosed
            /\ UNCHANGED <<peer, lsn>>
       ELSE /\ conns' = [conns EXCEPT ![c].closed = TRUE]
            /\ IF peer.mux # conns[c].smux               \* another generation
                 THEN /\ goto = next
                      /\ established' = IF established = c THEN 0 ELSE established
                      /\ UNCHANGED <<peer, lmu>>
                 ELSE /\ goto = more
                      /\ GoOffline
                      /\ lmu' = TRUE
                      /\ UNCHANGED established
  /\ UNCHANGED <<gens, stopped>>

\* The end of Conn.Close: the Conn leaves the table and l.mu is released.
ConnCloseEnd(c) ==
  /\ established' = IF established = c THEN 0 ELSE established
  /\ lmu' = FALSE
  /\ UNCHANGED conns

RunClose(r) ==
  /\ runs[r].pc = "close"
  /\ \E pc \in {"closeMux", "done"} :
       /\ ConnCloseBegin(runs[r].conn, "closeMux", "done", pc)
       /\ runs' = [runs EXCEPT ![r].pc = pc, ![r].gen = conns[runs[r].conn].smux]
  /\ UNCHANGED <<events, rx, hs, acceptor, client, loop, online, dials, gone>>

RunCloseMux(r) ==
  /\ runs[r].pc = "closeMux"
  /\ CloseGen(runs[r].gen)
  /\ GotoRun(r, "closeEnd")
  /\ UNCHANGED <<peer, stopped, lsn, events, rx, hs, acceptor, client, loop, online, dials, gone>>

RunCloseEnd(r) ==
  /\ runs[r].pc = "closeEnd"
  /\ Emit("offline")
  /\ ConnCloseEnd(runs[r].conn)
  /\ GotoRun(r, "done")
  /\ UNCHANGED <<net, rx, hs, acceptor, client, loop, dials, gone>>

-----------------------------------------------------------------------------
(* An accept loop: http.Server over ServiceListener, then listener.Close,   *)
(* then the deferred conn.Close of serveAdmin and servePublic.              *)

Goto(r, l, pc) == loop' = [loop EXCEPT ![r][l].pc = pc]
Running(r, l, pc) == runs[r].pc = "serving" /\ loop[r][l].pc = pc

\* ServiceListener.Accept: the peer's state.
LoopAccept(r, l) ==
  /\ Running(r, l, "accept")
  /\ Goto(r, l, IF peer.state = "offline" THEN "stop" ELSE "smux")
  /\ UNCHANGED <<net, lsn, events, rx, hs, acceptor, client, runs, online, dials, gone>>

\* Conn.serviceMux, for Accept (from smux to blocked) and for ServiceListener.
\* Close (from stop on): the Conn's mux if it is open; nothing if the Conn
\* is closed or the peer not established; otherwise the peer's mux, refreshed.
LoopServiceMux(r, l) ==
  LET c == runs[r].conn
      g == conns[c].smux
      accepting == loop[r][l].pc = "smux"
  IN  /\ Running(r, l, "smux") \/ Running(r, l, "stop")
      /\ loop' = [loop EXCEPT ![r][l] =
           IF conns[c].closed \/ (~IsOpen(g) /\ peer.state # "established")
             THEN [pc |-> IF accepting THEN "stop" ELSE "close", gen |-> 0]
             ELSE IF IsOpen(g)
               THEN [pc |-> IF accepting THEN "blocked" ELSE "stopService", gen |-> g]
               ELSE [pc |-> IF accepting THEN "refresh" ELSE "stopRefresh", gen |-> 0]]
      /\ UNCHANGED <<net, lsn, events, rx, hs, acceptor, client, runs, online, dials, gone>>

LoopRefresh(r, l) ==
  LET accepting == loop[r][l].pc = "refresh"
  IN  /\ Running(r, l, "refresh") \/ Running(r, l, "stopRefresh")
      /\ \E g \in Gen, made \in BOOLEAN :
           /\ EnsureServiceMux(g, made)
           /\ loop' = [loop EXCEPT ![r][l] =
                [pc |-> IF accepting THEN (IF made THEN "emit" ELSE "assign")
                                     ELSE (IF made THEN "stopEmit" ELSE "stopAssign"),
                 gen |-> g]]
      /\ UNCHANGED <<lsn, events, rx, hs, acceptor, client, runs, online, dials, gone>>

LoopEmit(r, l) ==
  /\ Running(r, l, "emit") \/ Running(r, l, "stopEmit")
  /\ Emit("established")
  /\ Goto(r, l, IF loop[r][l].pc = "emit" THEN "assign" ELSE "stopAssign")
  /\ UNCHANGED <<net, lsn, rx, hs, acceptor, client, runs, dials, gone>>

\* c.smux = smux, without a lock.
LoopAssign(r, l) ==
  /\ Running(r, l, "assign") \/ Running(r, l, "stopAssign")
  /\ conns' = [conns EXCEPT ![runs[r].conn].smux = loop[r][l].gen]
  /\ Goto(r, l, IF loop[r][l].pc = "assign" THEN "blocked" ELSE "stopService")
  /\ UNCHANGED <<net, established, lmu, events, rx, hs, acceptor, client, runs, online,
                 dials, gone>>

\* StopAcceptingService.
LoopStopService(r, l) ==
  /\ Running(r, l, "stopService")
  /\ stopped' = stopped \union {<<loop[r][l].gen, l>>}
  /\ Goto(r, l, "close")
  /\ UNCHANGED <<peer, gens, lsn, events, rx, hs, acceptor, client, runs, online, dials, gone>>

Accepts(g, l) == gens[g] /\ <<g, l>> \notin stopped

\* AcceptStream returned a stream ...
LoopStream(r, l) ==
  /\ Running(r, l, "blocked")
  /\ Accepts(loop[r][l].gen, l)
  /\ Goto(r, l, "accept")
  /\ UNCHANGED <<net, lsn, events, rx, hs, acceptor, client, runs, online, dials, gone>>

\* ... or its mux was closed, or the service stopped.
LoopMuxClosed(r, l) ==
  /\ Running(r, l, "blocked")
  /\ ~Accepts(loop[r][l].gen, l)
  /\ Goto(r, l, "stop")
  /\ UNCHANGED <<net, lsn, events, rx, hs, acceptor, client, runs, online, dials, gone>>

LoopClose(r, l) ==
  /\ Running(r, l, "close")
  /\ \E pc \in {"closeMux", "done"} :
       /\ ConnCloseBegin(runs[r].conn, "closeMux", "done", pc)
       /\ loop' = [loop EXCEPT ![r][l] = [pc |-> pc, gen |-> conns[runs[r].conn].smux]]
  /\ UNCHANGED <<events, rx, hs, acceptor, client, runs, online, dials, gone>>

LoopCloseMux(r, l) ==
  /\ Running(r, l, "closeMux")
  /\ CloseGen(loop[r][l].gen)
  /\ Goto(r, l, "closeEnd")
  /\ UNCHANGED <<peer, stopped, lsn, events, rx, hs, acceptor, client, runs, online, dials, gone>>

LoopCloseEnd(r, l) ==
  /\ Running(r, l, "closeEnd")
  /\ Emit("offline")
  /\ ConnCloseEnd(runs[r].conn)
  /\ loop' = [loop EXCEPT ![r][l] = [pc |-> "done", gen |-> 0]]
  /\ UNCHANGED <<net, rx, hs, acceptor, client, runs, dials, gone>>

-----------------------------------------------------------------------------
RunStep(r) ==
  \/ RunEnsure(r) \/ RunUp(r) \/ RunDown(r)
  \/ RunClose(r) \/ RunCloseMux(r) \/ RunCloseEnd(r)

LoopStep(r, l) ==
  \/ LoopAccept(r, l) \/ LoopServiceMux(r, l) \/ LoopRefresh(r, l) \/ LoopEmit(r, l)
  \/ LoopAssign(r, l) \/ LoopStopService(r, l) \/ LoopMuxClosed(r, l)
  \/ LoopClose(r, l) \/ LoopCloseMux(r, l) \/ LoopCloseEnd(r, l)

AcceptStep == AcceptEvent \/ AcceptCheck \/ AcceptMux \/ AcceptEmit \/ AcceptInsert
NetEmit    == HandshakeEmit \/ HandshakeSignal \/ InboundEmit \/ RemoteCloseMux \/ RemoteCloseEmit

Next ==
  \/ HandshakeInit \/ InboundData \/ RemoteClose \/ NetEmit
  \/ AcceptStep
  \/ \E p \in Client :
       \/ DialCall(p) \/ RefreshPeer(p) \/ RefreshDial(p) \/ RefreshDown(p)
       \/ Connect(p) \/ ConnectEmit(p) \/ ConnectTimeout(p) \/ HandshakeResp(p)
       \/ Connected(p) \/ ClientMux(p) \/ ClientEmit(p)
       \/ DialInsert(p) \/ RefreshAssign(p)
  \/ \E r \in 1 .. Len(runs) :
       \/ RunStep(r)
       \/ \E l \in Loops : LoopStep(r, l) \/ LoopStream(r, l)

Spec == Init /\ [][Next]_vars

\* The Go scheduler runs every goroutine that can run; nothing is assumed of
\* the peer.
Fairness ==
  /\ WF_vars(NetEmit) /\ WF_vars(AcceptStep)
  /\ \A r \in RunId : WF_vars(r \in 1 .. Len(runs) /\ RunStep(r))
  /\ \A r \in RunId, l \in Loops : WF_vars(r \in 1 .. Len(runs) /\ LoopStep(r, l))

FairSpec == Spec /\ Fairness

-----------------------------------------------------------------------------
(* Properties.                                                             *)

\* Types of the peer, of the tables and of the goroutines' progress.
TypeOK ==
  /\ peer \in [session : BOOLEAN, state : PeerState, mux : 0 .. MaxGens]
  /\ gens \in Seq(BOOLEAN) /\ Len(gens) <= MaxGens
  /\ stopped \subseteq Gen \X Loops
  /\ conns \in Seq([smux : Gen, closed : BOOLEAN]) /\ Len(conns) <= MaxConns
  /\ established \in 0 .. Len(conns)
  /\ lmu \in BOOLEAN
  /\ events \in Seq(PeerState) /\ Len(events) <= EventCap
  /\ runs \in Seq([pc : {"ensure", "up", "serving", "close", "closeMux", "closeEnd",
                         "done"}, conn : ConnId, gen : 0 .. MaxGens]) /\ Len(runs) <= MaxRuns
  /\ online \in 0 .. Len(conns)

\* listener.go: "A peer public key can have at most one active Conn here until
\* that Conn is closed and releases the entry", Accept and Dial racing included;
\* and the listener hands out no Conn that was closed before it was asked.
OneActiveConn ==
  /\ \A c, d \in 1 .. Len(conns) : ~conns[c].closed /\ ~conns[d].closed => c = d
  /\ established # 0 /\ conns[established].closed => lmu

\* Goroutines that have taken generation g out of the peer and not closed it yet.
Closing(g) ==
  \/ rx.pc = "close" /\ rx.gen = g
  \/ \E r \in 1 .. Len(runs) :
       \/ runs[r].pc = "closeMux" /\ runs[r].gen = g
       \/ \E l \in Loops : Running(r, l, "closeMux") /\ loop[r][l].gen = g

\* A generation that is not the peer's current one is closed, or somebody is at
\* it: no generation is forgotten with its streams.
ForgottenGensClosed ==
  \A g \in 1 .. Len(gens) : gens[g] /\ g # peer.mux => Closing(g)

\* Nothing under way: no event, no goroutine between two steps.
Quiet ==
  /\ rx.pc = "idle" /\ hs.pc = "idle"
  /\ acceptor.pc = "select" /\ events = << >>
  /\ \A p \in Client : client[p].pc = "idle"
  /\ \A r \in 1 .. Len(runs) :
       \/ runs[r].pc = "done"
       \/ runs[r].pc = "serving" /\ \A l \in Loops : /\ loop[r][l].pc = "blocked"
                                                     /\ Accepts(loop[r][l].gen, l)

\* integration_listener_conn_service_test.go: after a Conn was closed, "new
\* service data can create the next service mux/Conn generation": the peer must
\* not be left with an open mux, which no new data replaces, and no Conn.
ClosedConnIsReplaceable == Quiet /\ IsOpen(peer.mux) => established # 0

\* The peer has an active Conn whose loops wait on the peer's current mux.
Served ==
  \E r \in 1 .. Len(runs) :
    /\ runs[r].pc = "serving" /\ ~conns[runs[r].conn].closed
    /\ \A l \in Loops : loop[r][l].pc = "blocked" /\ loop[r][l].gen = peer.mux

\* peer_manager_test.go, TestManagerSetPeerUpReplacesConnection: after a
\* replacement the manager has the new Conn.  A peer that is served is online.
ServedIsOnline == Quiet /\ Served => online # 0

\* peer_service_test.go: "peer should be removed after client close": a peer that
\* was last heard closing is not online.
GonePeerIsDown == Quiet /\ gone => online = 0

\* A peer that stays offline is marked down for good, and its Conn is released,
\* whatever runs, stale events and calls of the manager were under way (as long
\* as the bound on generations stops nobody).
OfflineSettles ==
  <>[](peer.state = "offline" /\ Len(gens) < MaxGens)
    => <>[](online = 0 /\ established = 0)

=============================================================================
