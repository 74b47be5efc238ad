---------------------------- MODULE UDPPeerProofs ----------------------------
(***************************************************************************)
(* Proofs about UDPPeer, for every number of Connect calls, of decrypt     *)
(* workers and of indices.                                                 *)
(*                                                                         *)
(* None of the four safety invariants is inductive alone: that both live   *)
(* sessions are routed rests on every session being installed once, this   *)
(* on indices being fresh and on a pending entry being taken once; what a  *)
(* returned Connect call relies on comes to it from a handler over its     *)
(* done channel; and that the other end keeps its half of a session rests  *)
(* on the response having been sent by a handler that had drawn its index, *)
(* and on the rotation dropping the older of the two sessions it holds.    *)
(***************************************************************************)
EXTENDS UDPPeer, TLAPS

-----------------------------------------------------------------------------
(* The invariant.                                                          *)

Live(n) == {peer[n].session, peer[n].previous} \ {None}

\* Handshake datagrams carry indices.
WireTyped ==
  \A m \in wire :
    /\ m.type \in {"init", "resp"} => m.to \in Node /\ m.sender \in Index
    /\ m.type = "resp" => m.receiver \in Index
    /\ m.type = "init" => m = HandshakeInit(Other[m.to], m.sender) /\ m.sender < nextIndex

\* Sessions are installed once, and an index that is not pending any more never
\* comes back.
SessionsInv(n) ==
  /\ \A i \in pending[n] : i < nextIndex
  /\ \A s \in installed[n] : s.local < nextIndex /\ s.local \notin pending[n]
  /\ \A s \in abandoned[n] : s.local < nextIndex
  /\ \A s, t \in installed[n] : s.local = t.local => s = t
  /\ Live(n) \subseteq installed[n]
  /\ peer[n].previous # None => peer[n].previous.local # peer[n].session.local

\* The rotation keeps the last two sessions, in their order.
RotationInv(n) ==
  /\ peer[n].previous # None => <<peer[n].previous, peer[n].session>> \in after[n]
  /\ \A t \in installed[n] : t \in Live(n) \/ RotatedOut(n, t)

\* A session that a handler has still to install.
Unborn(n, w) == worker[n][w].pc \in {"sent", "install"}

\* Connect call or handler i can be told that its handshake succeeded.
Usable(n, i) ==
  /\ \E s \in installed[n] : s.local = i
  /\ \A s \in {peer[n].session, peer[n].previous} : s.local = i => s.local \in byIndex[n]

HandlerInv(n, w) ==
  LET h == worker[n][w]
  IN  /\ h.done # 0 => /\ h.done < nextIndex /\ h.done \notin pending[n]
                       /\ h.pc \in {"sent", "install", "register", "report"} =>
                            h.session.local = h.done
      /\ h.pc \in {"sent", "install"} =>
           /\ h.session \in Session /\ h.session.local < nextIndex
           /\ h.session.local \notin pending[n]
           /\ \A s \in installed[n] : s.local # h.session.local
           /\ \A v \in Workers :
                v # w /\ Unborn(n, v) => worker[n][v].session.local # h.session.local
      /\ h.pc = "register" =>
           /\ h.session \in installed[n]
           /\ h.oldPrevious # None => \A s \in Live(n) : s.local # h.oldPrevious.local
           /\ h.oldPrevious # None => h.oldPrevious \in installed[n]
      /\ h.pc = "report" /\ h.done # 0 => Usable(n, h.done)

CallerInv(n, c) ==
  LET call == caller[n][c]
  IN  /\ call.index < nextIndex
      /\ call.pc \in {"wait", "expire", "reportFailed"} => call.index # 0
      /\ call.done # "empty" => /\ call.pc \in {"wait", "expire", "reportFailed"}
                                /\ call.index \notin pending[n]
      /\ call.done = "ok" => Usable(n, call.index)
      /\ call.pc = "idle" /\ call.result = "ok" => call.index # 0 /\ Usable(n, call.index)

PendingOwned(n) ==
  \A i \in pending[n] : \E c \in Callers : caller[n][c].pc = "wait" /\ caller[n][c].index = i

Routed(n) ==
  \A s \in Live(n) :
    \/ s.local \in byIndex[n]
    \/ \E w \in Workers : worker[n][w].pc = "register" /\ worker[n][w].session = s

NodeInv(n) ==
  /\ SessionsInv(n) /\ RotationInv(n) /\ PendingOwned(n) /\ Routed(n)
  /\ \A w \in Workers : HandlerInv(n, w)
  /\ \A c \in Callers : CallerInv(n, c)

\* Node n answered or completed a handshake for s: it has installed the session,
\* is about to, or gave it up.
Made(n, s) ==
  \/ s \in installed[n] \union abandoned[n]
  \/ \E w \in Workers : Unborn(n, w) /\ worker[n][w].session = s

\* A response was sent for a session its sender has made; a session that came of
\* the node's own initiation was made from a response.
PairInv ==
  /\ \A m \in wire :
       m.type = "resp" => Made(Other[m.to], [local |-> m.sender, remote |-> m.receiver])
  /\ \A n \in Node, s \in Session :
       Made(n, s) /\ HandshakeInit(n, s.local) \in wire => Made(Other[n], Mirror(s))

IInv == TypeOK /\ WireTyped /\ (\A n \in Node : NodeInv(n)) /\ PairInv

-----------------------------------------------------------------------------
(* Frames: what a step does not touch.                                     *)

LiveSame(k) == peer'[k].session = peer[k].session /\ peer'[k].previous = peer[k].previous

HistorySame(k) ==
  installed'[k] = installed[k] /\ after'[k] = after[k] /\ abandoned'[k] = abandoned[k]

\* Node k's sessions, tables, calls and handlers are what they were.
NodeSame(k) ==
  /\ LiveSame(k) /\ nextIndex' >= nextIndex
  /\ byIndex'[k] = byIndex[k] /\ pending'[k] = pending[k] /\ HistorySame(k)
  /\ caller'[k] = caller[k] /\ worker'[k] = worker[k]

LEMMA Typing ==
  ASSUME TypeOK, NEW n \in Node
  PROVE  /\ peer[n].session \in SessionOrNone /\ peer[n].previous \in SessionOrNone
         /\ byIndex[n] \subseteq Index /\ pending[n] \subseteq Index
         /\ installed[n] \subseteq Session /\ abandoned[n] \subseteq Session
         /\ after[n] \subseteq Session \X Session
         /\ nextIndex \in Nat /\ nextIndex >= 1
         /\ nextIndex <= MaxIndex => nextIndex \in Index
         /\ \A w \in Workers : worker[n][w] \in Handler /\ worker[n][w].done \in Nat
         /\ \A c \in Callers : caller[n][c] \in Call /\ caller[n][c].index \in Nat
         /\ \A s \in Session : s.local \in Nat /\ s.local # 0 /\ s # None
<1>1. /\ peer[n] \in peerState /\ byIndex[n] \subseteq Index /\ pending[n] \subseteq Index
      /\ installed[n] \subseteq Session /\ abandoned[n] \subseteq Session
      /\ after[n] \subseteq Session \X Session /\ nextIndex \in 1 .. MaxIndex + 1
      /\ \A w \in Workers : worker[n][w] \in Handler
      /\ \A c \in Callers : caller[n][c] \in Call
  BY DEF TypeOK
<1>2. peer[n].session \in SessionOrNone /\ peer[n].previous \in SessionOrNone
  BY <1>1 DEF peerState
<1>3. /\ \A w \in Workers : worker[n][w].done \in Nat
      /\ \A c \in Callers : caller[n][c].index \in Nat
  BY <1>1, PeerAssumption DEF Handler, Call
<1>4. \A s \in Session : s.local \in Nat /\ s.local # 0 /\ s # None
  BY PeerAssumption DEF Session, Index, None
<1>5. nextIndex \in Nat /\ nextIndex >= 1 /\ (nextIndex <= MaxIndex => nextIndex \in Index)
  BY <1>1, PeerAssumption DEF Index
<1>6. QED
  BY <1>1, <1>2, <1>3, <1>4, <1>5

LEMMA RotationFrame ==
  ASSUME NEW k \in Node, RotationInv(k), LiveSame(k), HistorySame(k)
  PROVE  RotationInv(k)'
BY DEF RotationInv, RotatedOut, Live, LiveSame, HistorySame

LEMMA NodeFrame ==
  ASSUME TypeOK, NEW k \in Node, NodeInv(k), NodeSame(k), nextIndex' \in Nat
  PROVE  NodeInv(k)'
<1>0. /\ pending[k] \subseteq Nat /\ nextIndex \in Nat /\ nextIndex' \in Nat
      /\ nextIndex' >= nextIndex
      /\ \A s \in installed[k] \union abandoned[k] : s.local \in Nat
      /\ \A w \in Workers : worker[k][w].done \in Nat
      /\ \A w \in Workers : worker[k][w].session \in Session => worker[k][w].session.local \in Nat
      /\ \A c \in Callers : caller[k][c].index \in Nat
  BY Typing DEF NodeSame, Index
<1>1. Live(k)' = Live(k)
  BY DEF NodeSame, LiveSame, Live
<1>2. SessionsInv(k)'
  BY <1>0, <1>1 DEF NodeInv, SessionsInv, NodeSame, LiveSame, HistorySame
<1>3. PendingOwned(k)' /\ Routed(k)'
  BY <1>1 DEF NodeInv, PendingOwned, Routed, NodeSame
<1>4. \A i : Usable(k, i) => Usable(k, i)'
  BY DEF Usable, NodeSame, LiveSame, HistorySame
<1>5. ASSUME NEW w \in Workers PROVE HandlerInv(k, w)'
  <2>1. HandlerInv(k, w)
    BY DEF NodeInv
  <2>2. QED
    BY <1>0, <1>1, <1>4, <2>1 DEF HandlerInv, NodeSame, HistorySame, Unborn
<1>6. ASSUME NEW c \in Callers PROVE CallerInv(k, c)'
  <2>1. CallerInv(k, c)
    BY DEF NodeInv
  <2>2. QED
    BY <1>0, <1>4, <2>1 DEF CallerInv, NodeSame
<1>8. RotationInv(k)'
  BY RotationFrame DEF NodeInv, NodeSame
<1>7. QED
  BY <1>8, <1>2, <1>3, <1>5, <1>6 DEF NodeInv

\* The index of a session that a node made was drawn before.
LEMMA MadeFresh ==
  ASSUME IInv, NEW k \in Node, NEW s \in Session, Made(k, s)
  PROVE  s.local < nextIndex
<1>1. SessionsInv(k) /\ \A w \in Workers : HandlerInv(k, w)
  BY DEF IInv, NodeInv
<1>2. CASE s \in installed[k] \union abandoned[k]
  BY <1>1, <1>2 DEF SessionsInv
<1>3. CASE \E w \in Workers : Unborn(k, w) /\ worker[k][w].session = s
  BY <1>1, <1>3 DEF HandlerInv, Unborn
<1>4. QED
  BY <1>2, <1>3 DEF Made

\* A step that makes no session, sends no response and no initiation for a
\* session there is.
LEMMA PairFrame ==
  ASSUME PairInv, WireTyped,
         \A k \in Node, s \in Session : Made(k, s)' <=> Made(k, s),
         \A m \in wire' : m.type = "resp" => m \in wire,
         \A k \in Node, s \in Session :
           Made(k, s) /\ HandshakeInit(k, s.local) \in wire' => HandshakeInit(k, s.local) \in wire
  PROVE  PairInv'
<1>1. ASSUME NEW m \in wire', m.type = "resp"
      PROVE  Made(Other[m.to], [local |-> m.sender, remote |-> m.receiver])'
  <2>1. /\ m \in wire /\ Other[m.to] \in Node
        /\ [local |-> m.sender, remote |-> m.receiver] \in Session
    BY <1>1, PeerAssumption DEF WireTyped, Session
  <2>2. Made(Other[m.to], [local |-> m.sender, remote |-> m.receiver])
    BY <1>1, <2>1 DEF PairInv
  <2>3. QED
    BY <2>1, <2>2
<1>2. ASSUME NEW n \in Node, NEW s \in Session, Made(n, s)', (HandshakeInit(n, s.local) \in wire)'
      PROVE  Made(Other[n], Mirror(s))'
  <2>1. Other[n] \in Node /\ Mirror(s) \in Session
    BY PeerAssumption DEF Mirror, Session
  <2>2. Made(n, s) /\ HandshakeInit(n, s.local) \in wire
    BY <1>2 DEF HandshakeInit
  <2>3. Made(Other[n], Mirror(s))
    BY <2>2 DEF PairInv
  <2>4. QED
    BY <2>1, <2>3
<1>3. QED
  BY <1>1, <1>2 DEF PairInv

LEMMA MadeFrame ==
  ASSUME NEW k \in Node, worker'[k] = worker[k], installed'[k] = installed[k],
         abandoned'[k] = abandoned[k]
  PROVE  \A s : Made(k, s)' <=> Made(k, s)
BY DEF Made, Unborn

\* A step that makes at most one kind of new thing: a session that answers an
\* initiation or is made from a response, and the response for it.
LEMMA PairGrow ==
  ASSUME PairInv, WireTyped,
         \A k \in Node, s \in Session : Made(k, s) => Made(k, s)',
         \A k \in Node, s \in Session :
           Made(k, s)' => \/ Made(k, s) \/ Made(Other[k], Mirror(s))
                          \/ HandshakeInit(k, s.local) \notin wire,
         \A m \in wire' :
           m.type = "resp" =>
             \/ m \in wire
             \/ Made(Other[m.to], [local |-> m.sender, remote |-> m.receiver])',
         \A m \in wire' : m.type = "init" => m \in wire
  PROVE  PairInv'
<1>1. ASSUME NEW m \in wire', m.type = "resp"
      PROVE  Made(Other[m.to], [local |-> m.sender, remote |-> m.receiver])'
  <2>1. CASE m \in wire
    <3>1. /\ Other[m.to] \in Node
          /\ [local |-> m.sender, remote |-> m.receiver] \in Session
      BY <1>1, <2>1, PeerAssumption DEF WireTyped, Session
    <3>2. Made(Other[m.to], [local |-> m.sender, remote |-> m.receiver])
      BY <1>1, <2>1 DEF PairInv
    <3>3. QED
      BY <3>1, <3>2
  <2>2. QED
    BY <1>1, <2>1
<1>2. ASSUME NEW n \in Node, NEW s \in Session, Made(n, s)', (HandshakeInit(n, s.local) \in wire)'
      PROVE  Made(Other[n], Mirror(s))'
  <2>1. Other[n] \in Node /\ Mirror(s) \in Session
    BY PeerAssumption DEF Mirror, Session
  <2>2. HandshakeInit(n, s.local) \in wire
    BY <1>2 DEF HandshakeInit
  <2>3. Made(Other[n], Mirror(s))
    BY <1>2, <2>2 DEF PairInv
  <2>4. QED
    BY <2>1, <2>3
<1>3. QED
  BY <1>1, <1>2 DEF PairInv

\* One handler changes.
LEMMA WorkerUpdate ==
  ASSUME TypeOK, NEW n \in Node, NEW w \in Workers, NEW h \in Handler,
         worker' = [worker EXCEPT ![n][w] = h]
  PROVE  /\ worker' \in [Node -> [Workers -> Handler]]
         /\ worker'[n][w] = h
         /\ \A v \in Workers \ {w} : worker'[n][v] = worker[n][v]
         /\ \A k \in Node \ {n} : worker'[k] = worker[k]
BY DEF TypeOK

\* One Connect call changes.
LEMMA CallerUpdate ==
  ASSUME TypeOK, NEW n \in Node, NEW c \in Callers, NEW call \in Call,
         caller' = [caller EXCEPT ![n][c] = call]
  PROVE  /\ caller' \in [Node -> [Callers -> Call]]
         /\ caller'[n][c] = call
         /\ \A d \in Callers \ {c} : caller'[n][d] = caller[n][d]
         /\ \A k \in Node \ {n} : caller'[k] = caller[k]
BY DEF TypeOK

-----------------------------------------------------------------------------
(* Initially.                                                              *)

LEMMA InitIInv == Init => IInv
<1>. SUFFICES ASSUME Init PROVE IInv
  OBVIOUS
<1>1. None \in SessionOrNone /\ 0 \in 0 .. MaxIndex /\ 1 \in 1 .. MaxIndex + 1
      /\ 0 \in 0 .. MaxNotices
  BY PeerAssumption DEF SessionOrNone
<1>2. TypeOK
  <2>1. IdleHandler \in Handler
    BY <1>1 DEF IdleHandler, Handler
  <2>2. IdleCall("none", 0) \in Call
    BY <1>1 DEF IdleCall, Call
  <2>3. peer \in [Node -> peerState]
    BY <1>1 DEF Init, peerState, PeerState
  <2>4. QED
    BY <1>1, <2>1, <2>2, <2>3 DEF TypeOK, Init, PeerState
<1>3. WireTyped
  BY DEF Init, WireTyped
<1>4. ASSUME NEW n \in Node PROVE NodeInv(n)
  <2>1. Live(n) = {} /\ peer[n].previous = None
    BY DEF Init, Live
  <2>2. SessionsInv(n) /\ RotationInv(n) /\ PendingOwned(n) /\ Routed(n)
    BY <2>1 DEF Init, SessionsInv, RotationInv, PendingOwned, Routed
  <2>3. \A w \in Workers : HandlerInv(n, w)
    BY DEF Init, HandlerInv, IdleHandler
  <2>4. \A c \in Callers : CallerInv(n, c)
    BY DEF Init, CallerInv, IdleCall
  <2>5. QED
    BY <2>2, <2>3, <2>4 DEF NodeInv
<1>5. PairInv
  BY DEF Init, PairInv, Made, Unborn, IdleHandler
<1>6. QED
  BY <1>2, <1>3, <1>4, <1>5 DEF IInv

-----------------------------------------------------------------------------
(* Steps that change neither the sessions nor the calls nor the handlers.  *)

LEMMA QuietStep ==
  ASSUME IInv, TypeOK', WireTyped',
         UNCHANGED <<byIndex, pending, caller, worker, nextIndex, installed, after, abandoned>>,
         \A k \in Node : LiveSame(k),
         \A m \in wire' : m.type = "resp" => m \in wire,
         \A m \in wire' : m.type = "init" => m \in wire
  PROVE  IInv'
<1>1. \A k \in Node : NodeInv(k)'
  <2>1. ASSUME NEW k \in Node PROVE NodeSame(k)
    BY Typing DEF NodeSame, HistorySame, IInv
  <2>2. nextIndex' \in Nat
    BY DEF TypeOK
  <2>3. QED
    BY <2>1, <2>2, NodeFrame DEF IInv
<1>2. PairInv'
  <2>1. \A k \in Node, s \in Session : Made(k, s)' <=> Made(k, s)
    BY MadeFrame
  <2>2. \A k \in Node, s \in Session :
          HandshakeInit(k, s.local) \in wire' => HandshakeInit(k, s.local) \in wire
    BY DEF HandshakeInit
  <2>3. QED
    BY <2>1, <2>2, PairFrame DEF IInv
<1>3. QED
  BY <1>1, <1>2 DEF IInv

LEMMA PeerSteps ==
  ASSUME IInv, NEW n \in Node,
         \/ SetPeerEndpoint(n) \/ SendClose(n)
         \/ \E m \in wire : HandleHandshakeInitNotSent(n, m)
         \/ \E m \in wire : DecryptTransport(n, m)
         \/ \E d \in decoded[n] : DeliverClose(n, d)
  PROVE  IInv'
<1>0. TypeOK /\ WireTyped /\ n \in Node /\ peer[n] \in peerState
  BY DEF IInv, TypeOK
<1>1. CASE SetPeerEndpoint(n)
  <2>1. TypeOK'
    BY <1>0, <1>1 DEF SetPeerEndpoint, TypeOK, peerState
  <2>2. \A k \in Node : LiveSame(k)
    BY <1>0, <1>1 DEF SetPeerEndpoint, TypeOK, peerState, LiveSame
  <2>3. WireTyped'
    BY <1>0, <1>1 DEF SetPeerEndpoint, WireTyped, HandshakeInit
  <2>4. QED
    BY <1>1, <2>1, <2>2, <2>3, QuietStep DEF SetPeerEndpoint
<1>2. CASE SendClose(n)
  <2>1. TypeOK'
    BY <1>0, <1>2, PeerAssumption DEF SendClose, TypeOK
  <2>2. \A k \in Node : LiveSame(k)
    BY <1>2 DEF SendClose, LiveSame
  <2>3. WireTyped'
    BY <1>0, <1>2 DEF SendClose, WireTyped, HandshakeInit, CloseNotice
  <2>4. \A m \in wire' : m.type \in {"init", "resp"} => m \in wire
    BY <1>2 DEF SendClose, CloseNotice
  <2>5. QED
    BY <1>2, <2>1, <2>2, <2>3, <2>4, QuietStep DEF SendClose
<1>3. ASSUME NEW m \in wire, HandleHandshakeInitNotSent(n, m) PROVE IInv'
  <2>1. TypeOK'
    BY <1>0, <1>3 DEF HandleHandshakeInitNotSent, TypeOK, peerState
  <2>2. \A k \in Node : LiveSame(k)
    BY <1>0, <1>3 DEF HandleHandshakeInitNotSent, TypeOK, peerState, LiveSame
  <2>3. WireTyped'
    BY <1>0, <1>3 DEF HandleHandshakeInitNotSent, WireTyped, HandshakeInit
  <2>4. QED
    BY <1>3, <2>1, <2>2, <2>3, QuietStep DEF HandleHandshakeInitNotSent
<1>4. ASSUME NEW m \in wire, DecryptTransport(n, m) PROVE IInv'
  <2>1. TypeOK'
    BY <1>0, <1>4 DEF DecryptTransport, TypeOK
  <2>2. \A k \in Node : LiveSame(k)
    BY <1>4 DEF DecryptTransport, LiveSame
  <2>3. WireTyped'
    BY <1>0, <1>4 DEF DecryptTransport, WireTyped, HandshakeInit
  <2>4. \A x \in wire : x.type = "init" => x \in wire'
    BY <1>4 DEF DecryptTransport
  <2>5. \A x \in wire' : x.type = "resp" => x \in wire
    BY <1>4 DEF DecryptTransport
  <2>6. QED
    BY <1>4, <2>1, <2>2, <2>3, <2>4, <2>5, QuietStep DEF DecryptTransport
<1>5. ASSUME NEW d \in decoded[n], DeliverClose(n, d) PROVE IInv'
  <2>0. /\ peer' \in [Node -> peerState] /\ event' \in [Node -> PeerState]
        /\ \A k \in Node : LiveSame(k)
    <3>1. CASE d.current
      <4>1. peer' = [peer EXCEPT ![n].state = "offline", ![n].mux = FALSE]
        BY <1>5, <3>1 DEF DeliverClose
      <4>2. event' \in [Node -> PeerState]
        BY <1>0, <1>5, <3>1 DEF DeliverClose, TypeOK, PeerState
      <4>3. peer' \in [Node -> peerState]
        BY <1>0, <4>1 DEF TypeOK, peerState, PeerState
      <4>4. \A k \in Node : LiveSame(k)
        BY <1>0, <4>1 DEF TypeOK, peerState, LiveSame
      <4>5. QED
        BY <4>2, <4>3, <4>4
    <3>2. CASE ~d.current
      BY <1>0, <1>5, <3>2 DEF DeliverClose, TypeOK, LiveSame
    <3>3. QED
      BY <3>1, <3>2
  <2>1. TypeOK'
    BY <1>0, <1>5, <2>0 DEF DeliverClose, TypeOK
  <2>2. \A k \in Node : LiveSame(k)
    BY <2>0
  <2>3. WireTyped'
    BY <1>0, <1>5 DEF DeliverClose, WireTyped, HandshakeInit
  <2>4. QED
    BY <1>5, <2>1, <2>2, <2>3, QuietStep DEF DeliverClose
<1>6. QED
  BY <1>1, <1>2, <1>3, <1>4, <1>5

-----------------------------------------------------------------------------
(* Connect.                                                                *)

\* Connect call c of node n changes, and an entry it does not need any more may
\* leave the pending table.
LEMMA CallStep ==
  ASSUME IInv, WireTyped', TypeOK', NEW n \in Node, NEW c \in Callers, NEW call \in Call,
         caller' = [caller EXCEPT ![n][c] = call],
         \A k \in Node : LiveSame(k),
         UNCHANGED <<byIndex, worker, nextIndex, installed, after, abandoned, wire>>,
         \A k \in Node \ {n} : pending'[k] = pending[k],
         pending'[n] \subseteq pending[n],
         \A i \in pending'[n] : caller[n][c].pc = "wait" /\ caller[n][c].index = i =>
                                  call.pc = "wait" /\ call.index = i,
         CallerInv(n, c)'
  PROVE  IInv'
<1>0. TypeOK /\ NodeInv(n) /\ nextIndex' \in Nat /\ nextIndex \in Nat
  BY DEF IInv, TypeOK
<1>1. /\ caller'[n][c] = call
      /\ \A d \in Callers \ {c} : caller'[n][d] = caller[n][d]
      /\ \A k \in Node \ {n} : caller'[k] = caller[k]
  BY ZenonT(60), <1>0, CallerUpdate
<1>2. ASSUME NEW k \in Node \ {n} PROVE NodeInv(k)'
  <2>1. NodeSame(k)
    BY <1>0, <1>1 DEF NodeSame, HistorySame
  <2>2. QED
    BY <1>0, <2>1, NodeFrame DEF IInv
<1>3. NodeInv(n)'
  <2>1. Live(n)' = Live(n) /\ \A i : Usable(n, i)' <=> Usable(n, i)
    BY DEF Live, LiveSame, Usable
  <2>2. SessionsInv(n)'
    BY <1>0, <2>1 DEF NodeInv, SessionsInv, LiveSame
  <2>3. PendingOwned(n)'
    <3>1. ASSUME NEW i \in pending'[n]
          PROVE  \E d \in Callers : caller'[n][d].pc = "wait" /\ caller'[n][d].index = i
      <4>1. PICK d \in Callers : caller[n][d].pc = "wait" /\ caller[n][d].index = i
        BY <1>0 DEF NodeInv, PendingOwned
      <4>2. QED
        BY <1>1, <4>1
    <3>2. QED
      BY <3>1 DEF PendingOwned
  <2>4. Routed(n)'
    BY <1>0, <2>1 DEF NodeInv, Routed
  <2>5. ASSUME NEW w \in Workers PROVE HandlerInv(n, w)'
    <3>1. HandlerInv(n, w)
      BY <1>0 DEF NodeInv
    <3>2. QED
      BY <2>1, <3>1 DEF HandlerInv, Unborn
  <2>6. ASSUME NEW d \in Callers PROVE CallerInv(n, d)'
    <3>1. CallerInv(n, d)
      BY <1>0 DEF NodeInv
    <3>2. CASE d # c
      BY <1>1, <2>1, <3>1, <3>2 DEF CallerInv
    <3>3. QED
      BY <3>2
  <2>7. RotationInv(n)'
    BY <1>0, RotationFrame DEF NodeInv, HistorySame
  <2>8. QED
    BY <2>2, <2>3, <2>4, <2>5, <2>6, <2>7 DEF NodeInv
<1>4. PairInv'
  <2>1. \A k \in Node, s \in Session : Made(k, s)' <=> Made(k, s)
    BY MadeFrame
  <2>2. QED
    BY <2>1, PairFrame DEF IInv
<1>5. QED
  BY <1>2, <1>3, <1>4 DEF IInv

\* What a call that ended may look like.
LEMMA EndedCall ==
  ASSUME NEW r \in {"none", "ok", "error"}, NEW i \in 0 .. MaxIndex
  PROVE  /\ IdleCall(r, i) \in Call
         /\ IdleCall(r, i).pc = "idle" /\ IdleCall(r, i).index = i
         /\ IdleCall(r, i).done = "empty" /\ IdleCall(r, i).result = r
BY DEF IdleCall, Call

\* A call that has no verdict and claims no success is sound.
LEMMA BlankCall ==
  ASSUME NEW n \in Node, NEW c \in Callers, TypeOK', nextIndex' \in Nat,
         caller'[n][c].index < nextIndex',
         caller'[n][c].pc \in {"wait", "expire", "reportFailed"} => caller'[n][c].index # 0,
         caller'[n][c].done = "empty",
         caller'[n][c].pc = "idle" => caller'[n][c].result # "ok"
  PROVE  CallerInv(n, c)'
BY DEF CallerInv

LEMMA ConnectIInv ==
  ASSUME IInv, NEW n \in Node, NEW c \in Callers,
         \/ ConnectStart(n, c) \/ ConnectEmit(n, c) \/ ConnectSendError(n, c)
         \/ ConnectReturn(n, c) \/ ConnectTimeout(n, c) \/ ConnectExpire(n, c)
         \/ ConnectReportTimeout(n, c)
  PROVE  IInv'
<1>0. /\ TypeOK /\ WireTyped /\ CallerInv(n, c) /\ caller[n][c] \in Call
      /\ nextIndex \in Nat /\ nextIndex >= 1 /\ 0 \in 0 .. MaxIndex
      /\ caller[n][c].index \in 0 .. MaxIndex
  BY Typing, PeerAssumption DEF IInv, NodeInv, TypeOK, Call
<1>1. CASE ConnectStart(n, c)
  <2>1. PICK pc \in {"started", "noEndpoint"} :
          pc = IF peer[n].endpoint THEN "started" ELSE "noEndpoint"
    OBVIOUS
  <2>2. PICK call : call = [IdleCall("none", 0) EXCEPT !.pc = pc]
    OBVIOUS
  <2>3. call \in Call /\ call.pc = pc /\ call.index = 0 /\ call.done = "empty"
    BY <1>0, <2>2 DEF IdleCall, Call
  <2>4. caller' = [caller EXCEPT ![n][c] = call]
    BY <1>1, <2>1, <2>2 DEF ConnectStart
  <2>5. /\ caller' \in [Node -> [Callers -> Call]] /\ caller'[n][c] = call
    BY <1>0, <2>4, <2>3, CallerUpdate
  <2>6. TypeOK' /\ WireTyped' /\ \A k \in Node : LiveSame(k)
    <3>1. peer' \in [Node -> peerState] /\ \A k \in Node : LiveSame(k)
      BY ZenonT(60), <1>0, <1>1 DEF ConnectStart, SetState, TypeOK, peerState, PeerState, LiveSame
    <3>2. QED
      BY <1>0, <1>1, <2>5, <3>1 DEF ConnectStart, TypeOK, WireTyped, HandshakeInit
  <2>7. CallerInv(n, c)'
    <3>1. /\ caller'[n][c].index = 0 /\ caller'[n][c].done = "empty" /\ nextIndex' = nextIndex
          /\ caller'[n][c].pc \in {"started", "noEndpoint"}
      BY <1>1, <2>3, <2>5 DEF ConnectStart
    <3>2. QED
      BY <1>0, <2>6, <3>1, BlankCall
  <2>8. QED
    BY <1>1, <2>4, <2>3, <2>6, <2>7, CallStep DEF ConnectStart
<1>2. CASE ConnectEmit(n, c)
  <2>1. PICK call \in Call :
          /\ caller' = [caller EXCEPT ![n][c] = call]
          /\ call.index < nextIndex /\ call.done = "empty"
          /\ call.pc \in {"send", "idle"}
          /\ call.pc = "idle" => call.result # "ok"
    <3>1. CASE caller[n][c].pc = "started"
      <4>1. PICK x : x = [caller[n][c] EXCEPT !.pc = "send"]
        OBVIOUS
      <4>2. caller' = [caller EXCEPT ![n][c] = x]
        BY <1>0, <1>2, <3>1, <4>1 DEF ConnectEmit, TypeOK
      <4>3. x \in Call /\ x.pc = "send" /\ x.index = caller[n][c].index /\ x.done = caller[n][c].done
        BY <1>0, <4>1 DEF Call
      <4>4. caller[n][c].index < nextIndex /\ caller[n][c].done = "empty"
        BY <1>0, <3>1 DEF CallerInv
      <4>5. QED
        BY <4>2, <4>3, <4>4
    <3>2. CASE caller[n][c].pc # "started"
      <4>1. PICK x \in Call : x = IdleCall("error", 0)
        BY <1>0, EndedCall
      <4>2. caller' = [caller EXCEPT ![n][c] = x]
        BY <1>2, <3>2, <4>1 DEF ConnectEmit
      <4>3. x.pc = "idle" /\ x.index = 0 /\ x.done = "empty" /\ x.result = "error"
        BY <1>0, <4>1, EndedCall
      <4>4. x.index < nextIndex /\ x.pc \in {"send", "idle"}
        BY <1>0, <4>3
      <4>5. QED
        BY <4>2, <4>3, <4>4
    <3>3. QED
      BY <3>1, <3>2
  <2>3. /\ caller' \in [Node -> [Callers -> Call]] /\ caller'[n][c] = call
    BY <1>0, <2>1, CallerUpdate
  <2>4. TypeOK' /\ WireTyped' /\ \A k \in Node : LiveSame(k)
    BY <1>0, <1>2, <2>3
    DEF ConnectEmit, Emit, TypeOK, PeerState, WireTyped, HandshakeInit, LiveSame
  <2>5. CallerInv(n, c)'
    BY <1>0, <1>2, <2>1, <2>3, <2>4, BlankCall DEF ConnectEmit
  <2>6. QED
    BY <1>2, <2>1, <2>4, <2>5, CallStep DEF ConnectEmit
<1>3. CASE ConnectSendError(n, c)
  <2>1. PICK call \in Call : call = IdleCall("error", 0)
    BY <1>0, EndedCall
  <2>2. caller' = [caller EXCEPT ![n][c] = call]
    BY <1>3, <2>1 DEF ConnectSendError
  <2>3. /\ caller' \in [Node -> [Callers -> Call]] /\ caller'[n][c] = call
    BY <1>0, <2>2, CallerUpdate
  <2>4. TypeOK' /\ WireTyped' /\ \A k \in Node : LiveSame(k)
    BY <1>0, <1>3, <2>3
    DEF ConnectSendError, TypeOK, WireTyped, HandshakeInit, LiveSame
  <2>5. CallerInv(n, c)'
    <3>1. call.pc = "idle" /\ call.index = 0 /\ call.done = "empty" /\ call.result = "error"
      BY <1>0, <2>1, EndedCall
    <3>2. QED
      BY <1>0, <1>3, <2>3, <2>4, <3>1, BlankCall DEF ConnectSendError
  <2>6. QED
    BY <1>3, <2>2, <2>4, <2>5, CallStep DEF ConnectSendError
<1>4. CASE ConnectReturn(n, c)
  <2>0. PICK r \in {"ok", "error"} : r = IF caller[n][c].done = "ok" THEN "ok" ELSE "error"
    OBVIOUS
  <2>1. PICK call \in Call : call = IdleCall(r, caller[n][c].index)
    BY <1>0, EndedCall
  <2>2. caller' = [caller EXCEPT ![n][c] = call]
    BY <1>4, <2>0, <2>1 DEF ConnectReturn
  <2>3. /\ caller' \in [Node -> [Callers -> Call]] /\ caller'[n][c] = call
    BY <1>0, <2>2, CallerUpdate
  <2>4. TypeOK' /\ WireTyped' /\ \A k \in Node : LiveSame(k)
    BY <1>0, <1>4, <2>3
    DEF ConnectReturn, TypeOK, WireTyped, HandshakeInit, LiveSame
  <2>5. CallerInv(n, c)'
    <3>1. /\ call.pc = "idle" /\ call.index = caller[n][c].index
          /\ call.done = "empty" /\ call.result = r
      BY <1>0, <2>1, EndedCall
    <3>2. /\ caller[n][c].index < nextIndex /\ caller[n][c].index # 0
          /\ r = "ok" => Usable(n, caller[n][c].index)
      BY <1>0, <1>4, <2>0 DEF CallerInv, ConnectReturn
    <3>3. \A i : Usable(n, i) => Usable(n, i)'
      BY <1>4, <2>4 DEF ConnectReturn, Usable
    <3>4. QED
      BY <1>4, <2>3, <3>1, <3>2, <3>3 DEF CallerInv, ConnectReturn
  <2>6. \A i \in pending[n] : caller[n][c].index # i
    BY <1>0, <1>4 DEF CallerInv, ConnectReturn
  <2>7. QED
    BY <1>4, <2>2, <2>4, <2>5, <2>6, CallStep DEF ConnectReturn
<1>5. CASE ConnectTimeout(n, c)
  <2>1. PICK call : call = [caller[n][c] EXCEPT !.pc = "expire"]
    OBVIOUS
  <2>2. call \in Call /\ call.pc = "expire" /\ call.index = caller[n][c].index
        /\ call.done = caller[n][c].done
    BY <1>0, <2>1 DEF Call
  <2>3. caller' = [caller EXCEPT ![n][c] = call]
    BY <1>0, <1>5, <2>1 DEF ConnectTimeout, TypeOK
  <2>4. /\ caller' \in [Node -> [Callers -> Call]] /\ caller'[n][c] = call
    BY <1>0, <2>2, <2>3, CallerUpdate
  <2>5. pending' \in [Node -> SUBSET Index]
        /\ pending'[n] = pending[n] \ {caller[n][c].index}
        /\ \A k \in Node \ {n} : pending'[k] = pending[k]
    BY <1>0, <1>5 DEF ConnectTimeout, TypeOK
  <2>6. TypeOK' /\ WireTyped' /\ \A k \in Node : LiveSame(k)
    BY <1>0, <1>5, <2>4, <2>5
    DEF ConnectTimeout, TypeOK, WireTyped, HandshakeInit, LiveSame
  <2>7. CallerInv(n, c)'
    <3>1. \A i : Usable(n, i) => Usable(n, i)'
      BY <1>5 DEF ConnectTimeout, Usable
    <3>2. QED
      BY <1>0, <1>5, <2>2, <2>4, <2>5, <3>1 DEF CallerInv, ConnectTimeout
  <2>8. QED
    BY <1>5, <2>2, <2>3, <2>5, <2>6, <2>7, CallStep DEF ConnectTimeout
<1>6. CASE ConnectExpire(n, c)
  <2>1. PICK call : call = [caller[n][c] EXCEPT !.pc = "reportFailed"]
    OBVIOUS
  <2>2. call \in Call /\ call.pc = "reportFailed" /\ call.index = caller[n][c].index
        /\ call.done = caller[n][c].done
    BY <1>0, <2>1 DEF Call
  <2>3. caller' = [caller EXCEPT ![n][c] = call]
    BY <1>0, <1>6, <2>1 DEF ConnectExpire, TypeOK
  <2>4. /\ caller' \in [Node -> [Callers -> Call]] /\ caller'[n][c] = call
    BY <1>0, <2>2, <2>3, CallerUpdate
  <2>5. peer' \in [Node -> peerState] /\ \A k \in Node : LiveSame(k)
    <3>1. peer' = [peer EXCEPT ![n].state = "failed"] /\ peer \in [Node -> peerState]
      BY <1>0, <1>6 DEF ConnectExpire, SetState, TypeOK
    <3>2. peer' \in [Node -> peerState]
      BY <3>1 DEF peerState, PeerState
    <3>3. \A k \in Node : LiveSame(k)
      BY <3>1 DEF peerState, LiveSame
    <3>4. QED
      BY <3>2, <3>3
  <2>6. TypeOK' /\ WireTyped'
    BY <1>0, <1>6, <2>4, <2>5 DEF ConnectExpire, TypeOK, WireTyped, HandshakeInit
  <2>7. CallerInv(n, c)'
    <3>1. \A i : Usable(n, i) => Usable(n, i)'
      BY <1>6, <2>5 DEF ConnectExpire, Usable, LiveSame
    <3>2. QED
      BY <1>0, <1>6, <2>2, <2>4, <3>1 DEF CallerInv, ConnectExpire
  <2>8. QED
    BY <1>6, <2>2, <2>3, <2>5, <2>6, <2>7, CallStep DEF ConnectExpire
<1>7. CASE ConnectReportTimeout(n, c)
  <2>1. PICK call \in Call : call = IdleCall("error", caller[n][c].index)
    BY <1>0, EndedCall
  <2>2. caller' = [caller EXCEPT ![n][c] = call]
    BY <1>7, <2>1 DEF ConnectReportTimeout
  <2>3. /\ caller' \in [Node -> [Callers -> Call]] /\ caller'[n][c] = call
    BY <1>0, <2>2, CallerUpdate
  <2>4. TypeOK' /\ WireTyped' /\ \A k \in Node : LiveSame(k)
    BY <1>0, <1>7, <2>3
    DEF ConnectReportTimeout, Emit, TypeOK, PeerState, WireTyped, HandshakeInit, LiveSame
  <2>5. CallerInv(n, c)'
    <3>1. call.pc = "idle" /\ call.index = caller[n][c].index
          /\ call.done = "empty" /\ call.result = "error"
      BY <1>0, <2>1, EndedCall
    <3>2. caller[n][c].index < nextIndex
      BY <1>0 DEF CallerInv
    <3>3. QED
      BY <1>0, <1>7, <2>3, <2>4, <3>1, <3>2, BlankCall DEF ConnectReportTimeout
  <2>6. QED
    BY <1>7, <2>2, <2>4, <2>5, CallStep DEF ConnectReportTimeout
<1>8. QED
  BY <1>1, <1>2, <1>3, <1>4, <1>5, <1>6, <1>7

LEMMA ConnectSendIInv ==
  ASSUME IInv, NEW n \in Node, NEW c \in Callers, ConnectSend(n, c)
  PROVE  IInv'
<1>0. /\ TypeOK /\ WireTyped /\ NodeInv(n) /\ CallerInv(n, c) /\ caller[n][c] \in Call
      /\ nextIndex \in Nat /\ nextIndex >= 1 /\ nextIndex \in Index
      /\ nextIndex' = nextIndex + 1
  BY Typing DEF IInv, NodeInv, ConnectSend
<1>1. PICK call : call = [caller[n][c] EXCEPT !.pc = "wait", !.index = nextIndex]
  OBVIOUS
<1>2. /\ call \in Call /\ call.pc = "wait" /\ call.index = nextIndex /\ call.done = "empty"
  <2>1. caller[n][c].done = "empty"
    BY <1>0 DEF CallerInv, ConnectSend
  <2>2. nextIndex \in 0 .. MaxIndex
    BY <1>0 DEF Index
  <2>3. QED
    BY <1>0, <1>1, <2>1, <2>2 DEF Call
<1>3. caller' = [caller EXCEPT ![n][c] = call]
  BY <1>0, <1>1 DEF ConnectSend, TypeOK
<1>4. /\ caller' \in [Node -> [Callers -> Call]] /\ caller'[n][c] = call
      /\ \A d \in Callers \ {c} : caller'[n][d] = caller[n][d]
      /\ \A k \in Node \ {n} : caller'[k] = caller[k]
  BY <1>0, <1>2, <1>3, CallerUpdate
<1>5. /\ pending' \in [Node -> SUBSET Index]
      /\ pending'[n] = pending[n] \union {nextIndex}
      /\ \A k \in Node \ {n} : pending'[k] = pending[k]
  BY <1>0 DEF ConnectSend, TypeOK
<1>6. TypeOK'
  BY <1>0, <1>4, <1>5, PeerAssumption DEF ConnectSend, TypeOK, Index
<1>7. WireTyped'
  <2>1. Other[n] \in Node /\ Other[Other[n]] = n
    BY PeerAssumption
  <2>2. ASSUME NEW m \in wire'
        PROVE  /\ m.type \in {"init", "resp"} => m.to \in Node /\ m.sender \in Index
               /\ m.type = "resp" => m.receiver \in Index
               /\ m.type = "init" => /\ m = HandshakeInit(Other[m.to], m.sender)
                                     /\ m.sender < nextIndex'
    <3>1. CASE m \in wire
      BY <1>0, <3>1, PeerAssumption DEF WireTyped, Index
    <3>2. CASE m = HandshakeInit(n, nextIndex)
      BY <1>0, <2>1, <3>2 DEF HandshakeInit
    <3>3. QED
      BY <3>1, <3>2 DEF ConnectSend
  <2>3. QED
    BY <2>2 DEF WireTyped, HandshakeInit
<1>8. ASSUME NEW k \in Node \ {n} PROVE NodeInv(k)'
  <2>1. NodeSame(k)
    BY <1>0, <1>4, <1>5 DEF NodeSame, LiveSame, HistorySame, ConnectSend
  <2>2. QED
    BY <1>0, <2>1, NodeFrame DEF IInv
<1>9. NodeInv(n)'
  <2>1. /\ Live(n)' = Live(n) /\ \A i : Usable(n, i)' <=> Usable(n, i)
        /\ installed' = installed /\ abandoned' = abandoned
        /\ worker' = worker /\ peer' = peer /\ byIndex' = byIndex
    BY DEF Live, Usable, ConnectSend
  <2>2. /\ \A s \in installed[n] \union abandoned[n] : s.local \in Nat
        /\ \A w \in Workers : worker[n][w].done \in Nat
        /\ \A w \in Workers : worker[n][w].session \in Session => worker[n][w].session.local \in Nat
        /\ \A d \in Callers : caller[n][d].index \in Nat
        /\ pending[n] \subseteq Nat
    BY <1>0, Typing DEF Index
  <2>3. SessionsInv(n)'
    <3>1. SessionsInv(n)
      BY <1>0 DEF NodeInv
    <3>2. \A i \in pending'[n] : i < nextIndex'
      BY <1>0, <1>5, <2>2, <3>1 DEF SessionsInv
    <3>3. /\ \A s \in installed[n] : s.local < nextIndex' /\ s.local \notin pending'[n]
          /\ \A s \in abandoned[n] : s.local < nextIndex'
      BY <1>0, <1>5, <2>2, <3>1 DEF SessionsInv
    <3>4. QED
      BY <2>1, <3>1, <3>2, <3>3 DEF SessionsInv
  <2>4. PendingOwned(n)'
    <3>1. ASSUME NEW i \in pending'[n]
          PROVE  \E d \in Callers : caller'[n][d].pc = "wait" /\ caller'[n][d].index = i
      <4>1. CASE i = nextIndex
        BY <1>2, <1>4, <4>1
      <4>2. CASE i \in pending[n]
        <5>1. PICK d \in Callers : caller[n][d].pc = "wait" /\ caller[n][d].index = i
          BY <1>0, <4>2 DEF NodeInv, PendingOwned
        <5>2. d # c
          BY <5>1 DEF ConnectSend
        <5>3. QED
          BY <1>4, <5>1, <5>2
      <4>3. QED
        BY <1>5, <4>1, <4>2
    <3>2. QED
      BY <3>1 DEF PendingOwned
  <2>5. Routed(n)'
    BY <1>0, <2>1 DEF NodeInv, Routed
  <2>6. ASSUME NEW w \in Workers PROVE HandlerInv(n, w)'
    <3>1. HandlerInv(n, w)
      BY <1>0 DEF NodeInv
    <3>2. worker[n][w].done # 0 =>
            worker[n][w].done < nextIndex' /\ worker[n][w].done \notin pending'[n]
      BY <1>0, <1>5, <2>2, <3>1 DEF HandlerInv
    <3>3. worker[n][w].pc \in {"sent", "install"} =>
            worker[n][w].session.local < nextIndex' /\ worker[n][w].session.local \notin pending'[n]
      BY <1>0, <1>5, <2>2, <3>1 DEF HandlerInv
    <3>4. QED
      BY <2>1, <3>1, <3>2, <3>3 DEF HandlerInv, Unborn
  <2>7. ASSUME NEW d \in Callers PROVE CallerInv(n, d)'
    <3>1. CallerInv(n, d)
      BY <1>0 DEF NodeInv
    <3>2. CASE d # c
      <4>1. /\ caller[n][d].index < nextIndex'
            /\ caller[n][d].done # "empty" => caller[n][d].index \notin pending'[n]
        BY <1>0, <1>5, <2>2, <3>1 DEF CallerInv
      <4>2. QED
        BY <1>4, <2>1, <3>1, <3>2, <4>1 DEF CallerInv
    <3>3. CASE d = c
      BY <1>0, <1>2, <1>4, <3>3 DEF CallerInv
    <3>4. QED
      BY <3>2, <3>3
  <2>8. RotationInv(n)'
    BY <1>0, RotationFrame DEF NodeInv, HistorySame, LiveSame, ConnectSend
  <2>9. QED
    BY <2>3, <2>4, <2>5, <2>6, <2>7, <2>8 DEF NodeInv
<1>10. PairInv'
  <2>1. \A k \in Node, s \in Session : Made(k, s)' <=> Made(k, s)
    BY MadeFrame DEF ConnectSend
  <2>2. \A k \in Node, s \in Session : Made(k, s) => s.local < nextIndex
    BY MadeFresh
  <2>3. ASSUME NEW k \in Node, NEW s \in Session, Made(k, s),
               HandshakeInit(k, s.local) \in wire'
        PROVE  HandshakeInit(k, s.local) \in wire
    BY <1>0, <2>2, <2>3, Typing DEF ConnectSend, HandshakeInit
  <2>4. \A m \in wire' : m.type = "resp" => m \in wire
    BY DEF ConnectSend, HandshakeInit
  <2>5. QED
    BY <1>0, <2>1, <2>3, <2>4, PairFrame DEF IInv
<1>11. QED
  BY <1>6, <1>7, <1>8, <1>9, <1>10 DEF IInv

-----------------------------------------------------------------------------
(* The start of a handler: a session of its own, for a fresh index or for  *)
(* the pending entry it takes.                                             *)

LEMMA HandleInitIInv ==
  ASSUME IInv, NEW n \in Node, NEW w \in Workers, NEW m \in wire, HandleHandshakeInit(n, w, m)
  PROVE  IInv'
<1> DEFINE t == [local |-> nextIndex, remote |-> m.sender]
<1>0. /\ TypeOK /\ WireTyped /\ NodeInv(n) /\ worker[n][w].pc = "idle"
      /\ nextIndex \in Nat /\ nextIndex >= 1 /\ nextIndex \in Index
      /\ nextIndex' = nextIndex + 1
      /\ m.sender \in Index /\ m.type = "init" /\ m.to = n
      /\ m = HandshakeInit(Other[n], m.sender)
      /\ Other[n] \in Node /\ Other[Other[n]] = n
      /\ 0 \in 0 .. MaxIndex
      /\ UNCHANGED <<byIndex, pending, caller, installed, after, abandoned>>
  BY Typing, PeerAssumption DEF IInv, NodeInv, WireTyped, HandleHandshakeInit
<1>1. PICK h : h = [IdleHandler EXCEPT !.pc = "sent", !.session = t]
  OBVIOUS
<1>2. /\ h \in Handler /\ h.pc = "sent" /\ h.session = t /\ h.done = 0
      /\ t \in Session /\ t.local = nextIndex
  BY <1>0, <1>1 DEF IdleHandler, Handler, SessionOrNone, Session
<1>3. /\ worker' \in [Node -> [Workers -> Handler]] /\ worker'[n][w] = h
      /\ \A v \in Workers \ {w} : worker'[n][v] = worker[n][v]
      /\ \A k \in Node \ {n} : worker'[k] = worker[k]
  <2>1. worker' = [worker EXCEPT ![n][w] = h]
    BY <1>1 DEF HandleHandshakeInit
  <2>2. h \in Handler
    BY <1>2
  <2>3. TypeOK
    BY <1>0
  <2>4. QED
    BY ZenonT(60), <2>1, <2>2, <2>3, WorkerUpdate
<1>4. peer' \in [Node -> peerState] /\ \A k \in Node : LiveSame(k)
  <2>1. peer' = [peer EXCEPT ![n].known = TRUE] /\ peer \in [Node -> peerState]
    BY <1>0 DEF HandleHandshakeInit, TypeOK
  <2>2. peer' \in [Node -> peerState]
    BY <2>1 DEF peerState
  <2>3. \A k \in Node : LiveSame(k)
    BY <2>1 DEF peerState, LiveSame
  <2>4. QED
    BY <2>2, <2>3
<1>5. TypeOK'
  BY <1>0, <1>3, <1>4, PeerAssumption DEF HandleHandshakeInit, TypeOK, Index
<1>6. WireTyped'
  <2>2. ASSUME NEW x \in wire'
        PROVE  /\ x.type \in {"init", "resp"} => x.to \in Node /\ x.sender \in Index
               /\ x.type = "resp" => x.receiver \in Index
               /\ x.type = "init" => /\ x = HandshakeInit(Other[x.to], x.sender)
                                     /\ x.sender < nextIndex'
    <3>1. CASE x \in wire
      BY <1>0, <3>1, PeerAssumption DEF WireTyped, Index
    <3>2. CASE x = HandshakeResp(n, nextIndex, m.sender)
      BY <1>0, <3>2 DEF HandshakeResp
    <3>3. QED
      BY <3>1, <3>2 DEF HandleHandshakeInit
  <2>3. QED
    BY <2>2 DEF WireTyped, HandshakeInit
<1>7. ASSUME NEW k \in Node \ {n} PROVE NodeInv(k)'
  <2>1. NodeSame(k)
    BY <1>0, <1>3, <1>4 DEF NodeSame, HistorySame
  <2>2. QED
    BY <1>0, <2>1, NodeFrame DEF IInv
<1>8. NodeInv(n)'
  <2>1. Live(n)' = Live(n) /\ \A i : Usable(n, i)' <=> Usable(n, i)
    BY <1>0, <1>4 DEF Live, Usable, LiveSame
  <2>2. /\ \A s \in installed[n] \union abandoned[n] : s.local \in Nat
        /\ \A v \in Workers : worker[n][v].done \in Nat
        /\ \A v \in Workers : worker[n][v].session \in Session => worker[n][v].session.local \in Nat
        /\ \A d \in Callers : caller[n][d].index \in Nat
        /\ pending[n] \subseteq Nat
    BY <1>0, Typing DEF Index
  <2>3. SessionsInv(n)'
    BY <1>0, <1>4, <2>1, <2>2 DEF NodeInv, SessionsInv, LiveSame
  <2>4. PendingOwned(n)' /\ Routed(n)'
    BY <1>0, <1>3, <2>1 DEF NodeInv, PendingOwned, Routed
  <2>5. HandlerInv(n, w)'
    <3>1. nextIndex \notin pending[n] /\ \A s \in installed[n] : s.local # nextIndex
      BY <1>0, <2>2 DEF NodeInv, SessionsInv
    <3>2. ASSUME NEW v \in Workers \ {w}, Unborn(n, v)'
          PROVE  worker'[n][v].session.local # nextIndex
      <4>1. HandlerInv(n, v) /\ Unborn(n, v)
        BY <1>0, <1>3, <3>2 DEF NodeInv, Unborn
      <4>2. QED
        BY <1>0, <1>3, <2>2, <4>1 DEF HandlerInv, Unborn
    <3>3. QED
      BY <1>0, <1>2, <1>3, <3>1, <3>2 DEF HandlerInv
  <2>6. ASSUME NEW v \in Workers \ {w} PROVE HandlerInv(n, v)'
    <3>1. HandlerInv(n, v)
      BY <1>0 DEF NodeInv
    <3>2. worker[n][v].done # 0 => worker[n][v].done < nextIndex'
      BY <1>0, <2>2, <3>1 DEF HandlerInv
    <3>3. worker[n][v].pc \in {"sent", "install"} =>
            /\ worker[n][v].session.local < nextIndex'
            /\ worker[n][v].session.local # nextIndex
      BY <1>0, <2>2, <3>1 DEF HandlerInv
    <3>4. worker[n][v].pc \in {"sent", "install"} =>
            \A u \in Workers : u # v /\ Unborn(n, u)' =>
              worker'[n][u].session.local # worker[n][v].session.local
      BY <1>2, <1>3, <3>1, <3>3 DEF HandlerInv, Unborn
    <3>5. QED
      BY <1>0, <1>3, <2>1, <3>1, <3>2, <3>3, <3>4 DEF HandlerInv
  <2>7. ASSUME NEW d \in Callers PROVE CallerInv(n, d)'
    <3>1. CallerInv(n, d)
      BY <1>0 DEF NodeInv
    <3>2. caller[n][d].index < nextIndex'
      BY <1>0, <2>2, <3>1 DEF CallerInv
    <3>3. QED
      BY <1>0, <2>1, <3>1, <3>2 DEF CallerInv
  <2>8. RotationInv(n)'
    BY <1>0, <1>4, RotationFrame DEF NodeInv, HistorySame
  <2>9. QED
    BY <2>3, <2>4, <2>5, <2>6, <2>7, <2>8 DEF NodeInv
<1>9. PairInv'
  <2>1. \A s : Made(n, s)' <=> Made(n, s) \/ s = t
    BY <1>0, <1>2, <1>3 DEF Made, Unborn
  <2>2. \A k \in Node \ {n} : \A s : Made(k, s)' <=> Made(k, s)
    BY <1>0, <1>3, MadeFrame
  <2>3. HandshakeInit(n, t.local) \notin wire
    BY <1>0, <1>2 DEF WireTyped, HandshakeInit
  <2>4. ASSUME NEW x \in wire', x.type = "resp", x \notin wire
        PROVE  Made(Other[x.to], [local |-> x.sender, remote |-> x.receiver])'
    <3>1. x = HandshakeResp(n, nextIndex, m.sender)
      BY <2>4 DEF HandleHandshakeInit
    <3>2. Other[x.to] = n /\ x.sender = nextIndex /\ x.receiver = m.sender
      BY <1>0, <3>1 DEF HandshakeResp
    <3>3. \E v \in Workers : Unborn(n, v)' /\ worker'[n][v].session = [local |-> x.sender, remote |-> x.receiver]
      BY <1>2, <1>3, <3>2 DEF Unborn
    <3>4. QED
      BY <3>2, <3>3 DEF Made
  <2>5. \A x \in wire' : x.type = "init" => x \in wire
    BY DEF HandleHandshakeInit, HandshakeResp
  <2>6. \A k \in Node, s \in Session : Made(k, s) => Made(k, s)'
    BY <2>1, <2>2
  <2>7. \A k \in Node, s \in Session :
          Made(k, s)' => \/ Made(k, s) \/ Made(Other[k], Mirror(s))
                         \/ HandshakeInit(k, s.local) \notin wire
    BY <2>1, <2>2, <2>3
  <2>8. QED
    BY <1>6, <2>4, <2>5, <2>6, <2>7, PairGrow DEF IInv
<1>10. QED
  BY <1>5, <1>6, <1>7, <1>8, <1>9 DEF IInv

\* Steps of a handler that sends nothing: the other node is what it was.
LEMMA HandlerFrame ==
  ASSUME IInv, NEW n \in Node, NEW w \in Workers, NEW h \in Handler,
         worker' = [worker EXCEPT ![n][w] = h],
         UNCHANGED <<nextIndex, wire>>,
         \A k \in Node \ {n} : /\ LiveSame(k) /\ byIndex'[k] = byIndex[k]
                               /\ pending'[k] = pending[k] /\ HistorySame(k)
                               /\ caller'[k] = caller[k]
  PROVE  /\ \A k \in Node \ {n} : NodeInv(k)'
         /\ WireTyped'
         /\ worker' \in [Node -> [Workers -> Handler]] /\ worker'[n][w] = h
         /\ \A v \in Workers \ {w} : worker'[n][v] = worker[n][v]
         /\ \A k \in Node \ {n} : \A s : Made(k, s)' <=> Made(k, s)
<1>1. TypeOK /\ WireTyped /\ nextIndex \in Nat /\ nextIndex' \in Nat
  BY DEF IInv, TypeOK
<1>2. /\ worker' \in [Node -> [Workers -> Handler]] /\ worker'[n][w] = h
      /\ \A v \in Workers \ {w} : worker'[n][v] = worker[n][v]
      /\ \A k \in Node \ {n} : worker'[k] = worker[k]
  BY ZenonT(60), <1>1, WorkerUpdate
<1>3. ASSUME NEW k \in Node \ {n} PROVE NodeInv(k)' /\ \A s : Made(k, s)' <=> Made(k, s)
  <2>1. NodeSame(k)
    BY <1>1, <1>2 DEF NodeSame
  <2>2. QED
    BY <1>1, <2>1, NodeFrame, MadeFrame DEF IInv, NodeSame, HistorySame
<1>4. WireTyped'
  BY <1>1 DEF WireTyped, HandshakeInit
<1>5. QED
  BY <1>2, <1>3, <1>4

\* A handler that neither makes nor installs a session.
LEMMA HandlerPair ==
  ASSUME IInv, NEW n \in Node, NEW w \in Workers,
         UNCHANGED wire, installed'[n] = installed[n], abandoned'[n] = abandoned[n],
         ~Unborn(n, w), ~Unborn(n, w)',
         \A v \in Workers \ {w} : worker'[n][v] = worker[n][v],
         \A k \in Node \ {n} : \A s : Made(k, s)' <=> Made(k, s)
  PROVE  PairInv'
<1>1. \A s : Made(n, s)' <=> Made(n, s)
  BY DEF Made, Unborn
<1>2. \A k \in Node, s \in Session : Made(k, s)' <=> Made(k, s)
  BY <1>1
<1>3. QED
  BY <1>2, PairFrame DEF IInv

LEMMA HandleRespIInv ==
  ASSUME IInv, NEW n \in Node, NEW w \in Workers, NEW m \in wire, HandleHandshakeResp(n, w, m)
  PROVE  IInv'
<1> DEFINE t == [local |-> m.receiver, remote |-> m.sender]
<1>0. /\ TypeOK /\ WireTyped /\ NodeInv(n) /\ worker[n][w].pc = "idle"
      /\ m.sender \in Index /\ m.receiver \in Index /\ m.type = "resp" /\ m.to = n
      /\ m.receiver \in pending[n]
      /\ Other[n] \in Node /\ Other[Other[n]] = n
      /\ UNCHANGED <<peer, byIndex, caller, installed, after, abandoned, nextIndex, wire>>
  BY Typing, PeerAssumption DEF IInv, NodeInv, WireTyped, HandleHandshakeResp
<1>1. PICK h : /\ \/ h = [IdleHandler EXCEPT !.pc = "install", !.done = m.receiver, !.session = t]
                  \/ h = [IdleHandler EXCEPT !.pc = "fail", !.done = m.receiver]
               /\ worker' = [worker EXCEPT ![n][w] = h]
  BY DEF HandleHandshakeResp
<1>2. /\ h \in Handler /\ h.pc \in {"install", "fail"} /\ h.done = m.receiver
      /\ h.pc = "install" => h.session = t
      /\ t \in Session /\ t.local = m.receiver /\ m.receiver # 0
  <2>1. /\ m.receiver \in 0 .. MaxIndex /\ m.receiver # 0 /\ 0 \in 0 .. MaxIndex
        /\ t \in Session /\ t \in SessionOrNone
    BY <1>0, PeerAssumption DEF Index, Session, SessionOrNone
  <2>2. CASE h = [IdleHandler EXCEPT !.pc = "install", !.done = m.receiver, !.session = t]
    BY <2>1, <2>2 DEF IdleHandler, Handler, SessionOrNone
  <2>3. CASE h = [IdleHandler EXCEPT !.pc = "fail", !.done = m.receiver]
    BY <2>1, <2>3 DEF IdleHandler, Handler, SessionOrNone
  <2>4. QED
    BY <1>1, <2>2, <2>3
<1>3. /\ pending' \in [Node -> SUBSET Index]
      /\ pending'[n] = pending[n] \ {m.receiver}
      /\ \A k \in Node \ {n} : pending'[k] = pending[k]
  BY <1>0 DEF HandleHandshakeResp, TypeOK
<1>4. /\ \A k \in Node \ {n} : NodeInv(k)'
      /\ WireTyped'
      /\ worker' \in [Node -> [Workers -> Handler]] /\ worker'[n][w] = h
      /\ \A v \in Workers \ {w} : worker'[n][v] = worker[n][v]
      /\ \A k \in Node \ {n} : \A s : Made(k, s)' <=> Made(k, s)
  <2>1. h \in Handler /\ worker' = [worker EXCEPT ![n][w] = h]
    BY <1>1, <1>2
  <2>2. \A k \in Node \ {n} : /\ LiveSame(k) /\ byIndex'[k] = byIndex[k]
                               /\ pending'[k] = pending[k] /\ HistorySame(k)
                               /\ caller'[k] = caller[k]
    BY <1>0, <1>3 DEF LiveSame, HistorySame
  <2>3. UNCHANGED <<nextIndex, wire>>
    BY <1>0
  <2>4. QED
    BY <2>1, <2>2, <2>3, HandlerFrame
<1>5. TypeOK'
  BY <1>0, <1>3, <1>4 DEF HandleHandshakeResp, TypeOK
<1>6. NodeInv(n)'
  <2>1. Live(n)' = Live(n) /\ \A i : Usable(n, i)' <=> Usable(n, i)
    BY <1>0 DEF Live, Usable
  <2>2. SessionsInv(n)'
    BY <1>0, <1>3, <2>1 DEF NodeInv, SessionsInv
  <2>3. PendingOwned(n)' /\ Routed(n)'
    BY SMTT(30), <1>0, <1>3, <1>4, <2>1 DEF NodeInv, PendingOwned, Routed
  <2>4. HandlerInv(n, w)'
    <3>1. m.receiver < nextIndex /\ \A s \in installed[n] : s.local # m.receiver
      BY <1>0 DEF NodeInv, SessionsInv
    <3>2. ASSUME NEW v \in Workers \ {w}, Unborn(n, v)'
          PROVE  worker'[n][v].session.local # m.receiver
      <4>1. HandlerInv(n, v) /\ Unborn(n, v)
        BY <1>0, <1>4, <3>2 DEF NodeInv, Unborn
      <4>2. QED
        BY <1>0, <1>4, <4>1 DEF HandlerInv, Unborn
    <3>3. QED
      BY <1>0, <1>2, <1>3, <1>4, <3>1, <3>2 DEF HandlerInv
  <2>5. ASSUME NEW v \in Workers \ {w} PROVE HandlerInv(n, v)'
    <3>1. HandlerInv(n, v)
      BY <1>0 DEF NodeInv
    <3>2. worker[n][v].pc \in {"sent", "install"} =>
            \A u \in Workers : u # v /\ Unborn(n, u)' =>
              worker'[n][u].session.local # worker[n][v].session.local
      BY <1>0, <1>2, <1>4, <3>1 DEF HandlerInv, Unborn
    <3>3. QED
      BY <1>0, <1>3, <1>4, <2>1, <3>1, <3>2 DEF HandlerInv
  <2>6. ASSUME NEW d \in Callers PROVE CallerInv(n, d)'
    <3>1. CallerInv(n, d)
      BY <1>0 DEF NodeInv
    <3>2. QED
      BY <1>0, <1>3, <2>1, <3>1 DEF CallerInv
  <2>7. RotationInv(n)'
    BY <1>0, RotationFrame DEF NodeInv, HistorySame, LiveSame
  <2>8. QED
    BY <2>2, <2>3, <2>4, <2>5, <2>6, <2>7 DEF NodeInv
<1>7. PairInv'
  <2>1. CASE h.pc = "fail"
    <3>1. ~Unborn(n, w) /\ ~Unborn(n, w)'
      BY <1>0, <1>4, <2>1 DEF Unborn
    <3>2. QED
      BY <1>0, <1>4, <3>1, HandlerPair
  <2>2. CASE h.pc = "install"
    <3>1. \A s : Made(n, s)' <=> Made(n, s) \/ s = t
      BY SMTT(30), <1>0, <1>2, <1>4, <2>2 DEF Made, Unborn
    <3>2. Made(Other[n], Mirror(t))
      BY <1>0 DEF IInv, PairInv, Mirror
    <3>3. \A k \in Node, s \in Session : Made(k, s) => Made(k, s)'
      BY <1>4, <3>1
    <3>4. \A k \in Node, s \in Session :
            Made(k, s)' => \/ Made(k, s) \/ Made(Other[k], Mirror(s))
                           \/ HandshakeInit(k, s.local) \notin wire
      BY <1>4, <3>1, <3>2
    <3>5. QED
      BY <1>0, <1>4, <3>3, <3>4, PairGrow DEF IInv
  <2>3. QED
    BY <1>2, <2>1, <2>2
<1>8. QED
  BY <1>4, <1>5, <1>6, <1>7 DEF IInv

-----------------------------------------------------------------------------
(* The responder after its response: it makes the session or gives it up.  *)

LEMMA ResponderSessionIInv ==
  ASSUME IInv, NEW n \in Node, NEW w \in Workers, ResponderSession(n, w)
  PROVE  IInv'
<1>0. /\ TypeOK /\ WireTyped /\ NodeInv(n) /\ worker[n][w].pc = "sent"
      /\ worker[n][w] \in Handler
      /\ UNCHANGED <<peer, byIndex, pending, caller, installed, after, abandoned, nextIndex, wire>>
  BY Typing DEF IInv, NodeInv, ResponderSession
<1>1. PICK h : h = [worker[n][w] EXCEPT !.pc = "install"]
  OBVIOUS
<1>2. /\ h \in Handler /\ h.pc = "install" /\ h.done = worker[n][w].done
      /\ h.session = worker[n][w].session
      /\ worker' = [worker EXCEPT ![n][w] = h]
  <2>1. /\ h \in Handler /\ h.pc = "install" /\ h.done = worker[n][w].done
        /\ h.session = worker[n][w].session
    BY <1>0, <1>1 DEF Handler
  <2>2. worker' = [worker EXCEPT ![n][w] = h]
    BY <1>0, <1>1 DEF ResponderSession, TypeOK
  <2>3. QED
    BY <2>1, <2>2
<1>3. \A k \in Node : LiveSame(k) /\ HistorySame(k)
  BY <1>0 DEF LiveSame, HistorySame
<1>4. /\ \A k \in Node \ {n} : NodeInv(k)'
      /\ WireTyped'
      /\ worker' \in [Node -> [Workers -> Handler]] /\ worker'[n][w] = h
      /\ \A v \in Workers \ {w} : worker'[n][v] = worker[n][v]
      /\ \A k \in Node \ {n} : \A s : Made(k, s)' <=> Made(k, s)
  BY <1>0, <1>2, <1>3, HandlerFrame
<1>5. TypeOK'
  BY <1>0, <1>4 DEF ResponderSession, TypeOK
<1>6. NodeInv(n)'
  <2>1. Live(n)' = Live(n) /\ \A i : Usable(n, i)' <=> Usable(n, i)
    BY <1>0 DEF Live, Usable
  <2>2. SessionsInv(n)' /\ RotationInv(n)'
    BY <1>0, <1>3, <2>1, RotationFrame DEF NodeInv, SessionsInv
  <2>3. PendingOwned(n)' /\ Routed(n)'
    BY <1>0, <1>4, <2>1 DEF NodeInv, PendingOwned, Routed
  <2>4. ASSUME NEW v \in Workers PROVE HandlerInv(n, v)'
    <3>1. HandlerInv(n, v)
      BY <1>0 DEF NodeInv
    <3>2. \A u \in Workers : Unborn(n, u)' => /\ Unborn(n, u)
                                              /\ worker'[n][u].session = worker[n][u].session
      BY <1>0, <1>2, <1>4 DEF Unborn
    <3>3. CASE v = w
      BY <1>0, <1>2, <1>4, <3>1, <3>2, <3>3 DEF HandlerInv
    <3>4. CASE v # w
      BY <1>0, <1>4, <2>1, <3>1, <3>2, <3>4 DEF HandlerInv
    <3>5. QED
      BY <3>3, <3>4
  <2>5. ASSUME NEW d \in Callers PROVE CallerInv(n, d)'
    <3>1. CallerInv(n, d)
      BY <1>0 DEF NodeInv
    <3>2. QED
      BY <1>0, <2>1, <3>1 DEF CallerInv
  <2>6. QED
    BY <2>2, <2>3, <2>4, <2>5 DEF NodeInv
<1>7. PairInv'
  <2>1. \A s : Made(n, s)' <=> Made(n, s)
    BY <1>0, <1>2, <1>4 DEF Made, Unborn
  <2>2. \A k \in Node, s \in Session : Made(k, s)' <=> Made(k, s)
    BY <1>4, <2>1
  <2>3. QED
    BY <1>0, <2>2, PairFrame DEF IInv, HandshakeInit
<1>8. QED
  BY <1>4, <1>5, <1>6, <1>7 DEF IInv

LEMMA ResponderNoSessionIInv ==
  ASSUME IInv, NEW n \in Node, NEW w \in Workers, ResponderNoSession(n, w)
  PROVE  IInv'
<1>0. /\ TypeOK /\ WireTyped /\ NodeInv(n) /\ HandlerInv(n, w) /\ worker[n][w].pc = "sent"
      /\ UNCHANGED <<peer, byIndex, pending, caller, installed, after, nextIndex, wire>>
  BY DEF IInv, NodeInv, ResponderNoSession
<1>1. PICK s0 \in Session : s0 = worker[n][w].session /\ s0.local < nextIndex
  BY <1>0 DEF HandlerInv
<1>2. /\ IdleHandler \in Handler /\ IdleHandler.pc = "idle" /\ IdleHandler.done = 0
      /\ worker' = [worker EXCEPT ![n][w] = IdleHandler]
  <2>1. 0 \in 0 .. MaxIndex /\ None \in SessionOrNone
    BY PeerAssumption DEF SessionOrNone
  <2>2. IdleHandler \in Handler /\ IdleHandler.pc = "idle" /\ IdleHandler.done = 0
    BY <2>1 DEF IdleHandler, Handler
  <2>3. QED
    BY <2>2 DEF ResponderNoSession
<1>3. /\ abandoned' \in [Node -> SUBSET Session]
      /\ abandoned'[n] = abandoned[n] \union {s0}
      /\ \A k \in Node \ {n} : abandoned'[k] = abandoned[k]
  BY <1>0, <1>1 DEF ResponderNoSession, TypeOK
<1>4. /\ \A k \in Node \ {n} : NodeInv(k)'
      /\ WireTyped'
      /\ worker' \in [Node -> [Workers -> Handler]] /\ worker'[n][w] = IdleHandler
      /\ \A v \in Workers \ {w} : worker'[n][v] = worker[n][v]
      /\ \A k \in Node \ {n} : \A s : Made(k, s)' <=> Made(k, s)
  <2>1. \A k \in Node \ {n} : /\ LiveSame(k) /\ byIndex'[k] = byIndex[k]
                               /\ pending'[k] = pending[k] /\ HistorySame(k)
                               /\ caller'[k] = caller[k]
    BY <1>0, <1>3 DEF LiveSame, HistorySame
  <2>2. UNCHANGED <<nextIndex, wire>>
    BY <1>0
  <2>3. QED
    BY <1>2, <2>1, <2>2, HandlerFrame
<1>5. TypeOK'
  BY <1>0, <1>3, <1>4 DEF ResponderNoSession, TypeOK
<1>6. NodeInv(n)'
  <2>1. Live(n)' = Live(n) /\ \A i : Usable(n, i)' <=> Usable(n, i)
    BY <1>0 DEF Live, Usable
  <2>2. SessionsInv(n)'
    BY <1>0, <1>1, <1>3, <2>1 DEF NodeInv, SessionsInv
  <2>3. RotationInv(n)'
    BY <1>0, <2>1 DEF NodeInv, RotationInv, RotatedOut
  <2>4. PendingOwned(n)' /\ Routed(n)'
    BY <1>0, <1>4, <2>1 DEF NodeInv, PendingOwned, Routed
  <2>5. ASSUME NEW v \in Workers PROVE HandlerInv(n, v)'
    <3>1. HandlerInv(n, v)
      BY <1>0 DEF NodeInv
    <3>2. \A u \in Workers : Unborn(n, u)' => Unborn(n, u) /\ worker'[n][u] = worker[n][u]
      BY <1>2, <1>4 DEF Unborn
    <3>3. CASE v = w
      BY <1>2, <1>4, <3>3 DEF HandlerInv
    <3>4. CASE v # w
      BY <1>0, <1>4, <2>1, <3>1, <3>2, <3>4 DEF HandlerInv
    <3>5. QED
      BY <3>3, <3>4
  <2>6. ASSUME NEW d \in Callers PROVE CallerInv(n, d)'
    <3>1. CallerInv(n, d)
      BY <1>0 DEF NodeInv
    <3>2. QED
      BY <1>0, <2>1, <3>1 DEF CallerInv
  <2>7. QED
    BY <2>2, <2>3, <2>4, <2>5, <2>6 DEF NodeInv
<1>7. PairInv'
  <2>1. \A s : Made(n, s)' <=> Made(n, s)
    BY <1>0, <1>1, <1>2, <1>3, <1>4 DEF Made, Unborn
  <2>2. \A k \in Node, s \in Session : Made(k, s)' <=> Made(k, s)
    BY <1>4, <2>1
  <2>3. QED
    BY <1>0, <2>2, PairFrame DEF IInv, HandshakeInit
<1>8. QED
  BY <1>4, <1>5, <1>6, <1>7 DEF IInv

-----------------------------------------------------------------------------
(* The failure path of the response handler.                               *)

LEMMA HandshakeFailedIInv ==
  ASSUME IInv, NEW n \in Node, NEW w \in Workers, HandshakeFailed(n, w)
  PROVE  IInv'
<1>0. /\ TypeOK /\ WireTyped /\ NodeInv(n) /\ worker[n][w].pc = "fail"
      /\ worker[n][w] \in Handler
      /\ UNCHANGED <<byIndex, pending, caller, installed, after, abandoned, nextIndex, wire>>
  BY Typing DEF IInv, NodeInv, HandshakeFailed
<1>1. PICK h : h = [worker[n][w] EXCEPT !.pc = "reportFailed"]
  OBVIOUS
<1>2. /\ h \in Handler /\ h.pc = "reportFailed" /\ h.done = worker[n][w].done
      /\ worker' = [worker EXCEPT ![n][w] = h]
  <2>1. h \in Handler /\ h.pc = "reportFailed" /\ h.done = worker[n][w].done
    BY <1>0, <1>1 DEF Handler
  <2>2. worker' = [worker EXCEPT ![n][w] = h]
    BY <1>0, <1>1 DEF HandshakeFailed, TypeOK
  <2>3. QED
    BY <2>1, <2>2
<1>3. peer' \in [Node -> peerState] /\ \A k \in Node : LiveSame(k)
  <2>1. peer' = [peer EXCEPT ![n].state = "failed"] /\ peer \in [Node -> peerState]
    BY <1>0 DEF HandshakeFailed, SetState, TypeOK
  <2>2. peer' \in [Node -> peerState]
    BY <2>1 DEF peerState, PeerState
  <2>3. \A k \in Node : LiveSame(k)
    BY <2>1 DEF peerState, LiveSame
  <2>4. QED
    BY <2>2, <2>3
<1>4. /\ \A k \in Node \ {n} : NodeInv(k)'
      /\ WireTyped'
      /\ worker' \in [Node -> [Workers -> Handler]] /\ worker'[n][w] = h
      /\ \A v \in Workers \ {w} : worker'[n][v] = worker[n][v]
      /\ \A k \in Node \ {n} : \A s : Made(k, s)' <=> Made(k, s)
  BY <1>0, <1>2, <1>3, HandlerFrame DEF HistorySame
<1>5. TypeOK'
  BY <1>0, <1>3, <1>4 DEF HandshakeFailed, TypeOK
<1>6. NodeInv(n)'
  <2>1. Live(n)' = Live(n) /\ \A i : Usable(n, i)' <=> Usable(n, i)
    BY <1>0, <1>3 DEF Live, Usable, LiveSame
  <2>2. SessionsInv(n)'
    BY <1>0, <1>3, <2>1 DEF NodeInv, SessionsInv, LiveSame
  <2>3. PendingOwned(n)' /\ Routed(n)'
    BY <1>0, <1>4, <2>1 DEF NodeInv, PendingOwned, Routed
  <2>4. ASSUME NEW v \in Workers PROVE HandlerInv(n, v)'
    <3>1. HandlerInv(n, v)
      BY <1>0 DEF NodeInv
    <3>2. \A u \in Workers : Unborn(n, u)' => Unborn(n, u) /\ worker'[n][u] = worker[n][u]
      BY <1>2, <1>4 DEF Unborn
    <3>3. CASE v = w
      BY <1>0, <1>2, <1>4, <3>1, <3>3 DEF HandlerInv
    <3>4. CASE v # w
      BY <1>0, <1>4, <2>1, <3>1, <3>2, <3>4 DEF HandlerInv
    <3>5. QED
      BY <3>3, <3>4
  <2>5. ASSUME NEW d \in Callers PROVE CallerInv(n, d)'
    <3>1. CallerInv(n, d)
      BY <1>0 DEF NodeInv
    <3>2. QED
      BY <1>0, <2>1, <3>1 DEF CallerInv
  <2>6. RotationInv(n)'
    BY <1>0, <1>3, RotationFrame DEF NodeInv, HistorySame
  <2>7. QED
    BY <2>2, <2>3, <2>4, <2>5, <2>6 DEF NodeInv
<1>7. PairInv'
  <2>1. ~Unborn(n, w) /\ ~Unborn(n, w)'
    BY <1>0, <1>2, <1>4 DEF Unborn
  <2>2. QED
    BY <1>0, <1>4, <2>1, HandlerPair
<1>8. QED
  BY <1>4, <1>5, <1>6, <1>7 DEF IInv

-----------------------------------------------------------------------------
(* The verdict for the Connect call.                                       *)

Waiting(n, c, i) ==
  caller[n][c].pc \in {"wait", "expire", "reportFailed"} /\ caller[n][c].index = i

LEMMA SignalFacts ==
  ASSUME TypeOK, NEW n \in Node, NEW i, NEW verdict \in {"ok", "failed"},
         Signal(n, i, verdict)
  PROVE  /\ caller' \in [Node -> [Callers -> Call]]
         /\ \A k \in Node \ {n} : caller'[k] = caller[k]
         /\ \A c \in Callers : /\ caller'[n][c].pc = caller[n][c].pc
                               /\ caller'[n][c].index = caller[n][c].index
                               /\ caller'[n][c].result = caller[n][c].result
                               /\ Waiting(n, c, i) => caller'[n][c].done = verdict
                               /\ ~Waiting(n, c, i) => caller'[n][c].done = caller[n][c].done
<1>1. \A c \in Callers : caller[n][c] \in Call
  BY DEF TypeOK
<1>2. caller' = [caller EXCEPT ![n] =
                   [c \in Callers |-> IF Waiting(n, c, i)
                                        THEN [caller[n][c] EXCEPT !.done = verdict]
                                        ELSE caller[n][c]]]
  BY DEF Signal, Waiting
<1>3. ASSUME NEW c \in Callers
      PROVE  LET x == [caller[n][c] EXCEPT !.done = verdict]
             IN  x \in Call /\ x.pc = caller[n][c].pc /\ x.index = caller[n][c].index
                 /\ x.result = caller[n][c].result /\ x.done = verdict
  BY <1>1 DEF Call
<1>4. [c \in Callers |-> IF Waiting(n, c, i)
                           THEN [caller[n][c] EXCEPT !.done = verdict]
                           ELSE caller[n][c]] \in [Callers -> Call]
  BY <1>1, <1>3
<1>5. caller' \in [Node -> [Callers -> Call]] /\ \A k \in Node \ {n} : caller'[k] = caller[k]
  BY <1>2, <1>4 DEF TypeOK
<1>6. \A c \in Callers : caller'[n][c] = IF Waiting(n, c, i)
                                           THEN [caller[n][c] EXCEPT !.done = verdict]
                                           ELSE caller[n][c]
  BY <1>2 DEF TypeOK
<1>7. QED
  BY <1>3, <1>5, <1>6

\* A handler reports its verdict and is idle again.
LEMMA ReportIInv ==
  ASSUME IInv, NEW n \in Node, NEW w \in Workers, NEW verdict \in {"ok", "failed"},
         worker[n][w].pc \in {"report", "reportFailed"},
         verdict = "ok" => worker[n][w].pc = "report",
         Signal(n, worker[n][w].done, verdict),
         worker' = [worker EXCEPT ![n][w] = IdleHandler],
         event' \in [Node -> PeerState],
         UNCHANGED <<peer, byIndex, pending, decoded, wire, nextIndex, notices, installed, after,
                     abandoned>>
  PROVE  IInv'
<1>0. /\ TypeOK /\ WireTyped /\ NodeInv(n) /\ HandlerInv(n, w) /\ worker[n][w] \in Handler
  BY Typing DEF IInv, NodeInv
<1>1. PICK i : i = worker[n][w].done
  OBVIOUS
<1>2. IdleHandler \in Handler
  <2>1. 0 \in 0 .. MaxIndex /\ None \in SessionOrNone
    BY PeerAssumption DEF SessionOrNone
  <2>2. QED
    BY <2>1 DEF IdleHandler, Handler
<1>3. IdleHandler.pc = "idle" /\ IdleHandler.done = 0
  BY DEF IdleHandler
<1>4. /\ caller' \in [Node -> [Callers -> Call]]
      /\ \A k \in Node \ {n} : caller'[k] = caller[k]
      /\ \A c \in Callers : /\ caller'[n][c].pc = caller[n][c].pc
                            /\ caller'[n][c].index = caller[n][c].index
                            /\ caller'[n][c].result = caller[n][c].result
                            /\ Waiting(n, c, i) => caller'[n][c].done = verdict
                            /\ ~Waiting(n, c, i) => caller'[n][c].done = caller[n][c].done
  BY <1>0, <1>1, SignalFacts
<1>5. /\ \A k \in Node \ {n} : NodeInv(k)'
      /\ WireTyped'
      /\ worker' \in [Node -> [Workers -> Handler]] /\ worker'[n][w] = IdleHandler
      /\ \A v \in Workers \ {w} : worker'[n][v] = worker[n][v]
      /\ \A k \in Node \ {n} : \A s : Made(k, s)' <=> Made(k, s)
  <2>1. \A k \in Node \ {n} : /\ LiveSame(k) /\ byIndex'[k] = byIndex[k]
                               /\ pending'[k] = pending[k] /\ HistorySame(k)
                               /\ caller'[k] = caller[k]
    BY <1>4 DEF LiveSame, HistorySame
  <2>2. UNCHANGED <<nextIndex, wire>>
    OBVIOUS
  <2>3. QED
    BY <1>2, <2>1, <2>2, HandlerFrame
<1>6. TypeOK'
  BY <1>0, <1>4, <1>5 DEF TypeOK
<1>7. NodeInv(n)'
  <2>1. Live(n)' = Live(n) /\ \A j : Usable(n, j)' <=> Usable(n, j)
    BY DEF Live, Usable
  <2>2. SessionsInv(n)'
    BY <1>0, <2>1 DEF NodeInv, SessionsInv
  <2>3. PendingOwned(n)' /\ Routed(n)'
    <3>1. ASSUME NEW j \in pending[n]
          PROVE  \E d \in Callers : caller'[n][d].pc = "wait" /\ caller'[n][d].index = j
      BY <1>0, <1>4 DEF NodeInv, PendingOwned
    <3>2. Routed(n)'
      BY <1>0, <1>5, <2>1 DEF NodeInv, Routed
    <3>3. QED
      BY <3>1, <3>2 DEF PendingOwned
  <2>4. ASSUME NEW v \in Workers PROVE HandlerInv(n, v)'
    <3>1. HandlerInv(n, v)
      BY <1>0 DEF NodeInv
    <3>2. \A u \in Workers : Unborn(n, u)' => Unborn(n, u) /\ worker'[n][u] = worker[n][u]
      BY <1>3, <1>5 DEF Unborn
    <3>3. CASE v = w
      BY <1>3, <1>5, <3>3 DEF HandlerInv
    <3>4. CASE v # w
      BY <1>0, <1>5, <2>1, <3>1, <3>2, <3>4 DEF HandlerInv
    <3>5. QED
      BY <3>3, <3>4
  <2>5. ASSUME NEW d \in Callers PROVE CallerInv(n, d)'
    <3>1. CallerInv(n, d)
      BY <1>0 DEF NodeInv
    <3>2. CASE Waiting(n, d, i)
      <4>1. i # 0 /\ caller[n][d].index = i /\ caller[n][d].pc \in {"wait", "expire", "reportFailed"}
        BY <3>1, <3>2 DEF CallerInv, Waiting
      <4>2. i \notin pending[n] /\ (verdict = "ok" => Usable(n, i))
        BY <1>0, <1>1, <4>1 DEF HandlerInv
      <4>3. QED
        BY <1>4, <2>1, <3>1, <3>2, <4>1, <4>2 DEF CallerInv
    <3>3. CASE ~Waiting(n, d, i)
      BY <1>4, <2>1, <3>1, <3>3 DEF CallerInv
    <3>4. QED
      BY <3>2, <3>3
  <2>6. RotationInv(n)'
    BY <1>0, RotationFrame DEF NodeInv, HistorySame, LiveSame
  <2>7. QED
    BY <2>2, <2>3, <2>4, <2>5, <2>6 DEF NodeInv
<1>8. PairInv'
  <2>1. ~Unborn(n, w) /\ ~Unborn(n, w)'
    BY <1>0, <1>3, <1>5 DEF Unborn
  <2>2. QED
    BY <1>0, <1>5, <2>1, HandlerPair
<1>9. QED
  BY <1>5, <1>6, <1>7, <1>8 DEF IInv

-----------------------------------------------------------------------------
(* The two critical sections that make a session current and routed.       *)

LEMMA InstallSessionIInv ==
  ASSUME IInv, NEW n \in Node, NEW w \in Workers, InstallSession(n, w)
  PROVE  IInv'
<1>0. /\ TypeOK /\ WireTyped /\ NodeInv(n) /\ HandlerInv(n, w) /\ worker[n][w].pc = "install"
      /\ RotationInv(n) /\ UNCHANGED abandoned
      /\ worker[n][w] \in Handler /\ peer[n].session \in SessionOrNone
      /\ peer[n].previous \in SessionOrNone /\ SessionsInv(n)
      /\ UNCHANGED <<byIndex, pending, caller, nextIndex, wire>>
  BY Typing DEF IInv, NodeInv, InstallSession
<1>1. PICK s0 \in Session : s0 = worker[n][w].session
  BY <1>0 DEF HandlerInv
<1>2. /\ s0.local < nextIndex /\ s0.local \notin pending[n]
      /\ \A s \in installed[n] : s.local # s0.local
      /\ s0 # None
  BY <1>0, <1>1, Typing DEF HandlerInv
<1>3. PICK old \in SessionOrNone, oldPrev \in SessionOrNone :
        old = peer[n].session /\ oldPrev = peer[n].previous
  BY <1>0
<1>4. PICK b \in BOOLEAN : b = ~peer[n].mux
  OBVIOUS
<1>5. PICK h : h = [worker[n][w] EXCEPT !.pc = "register", !.oldSession = old,
                                        !.oldPrevious = oldPrev, !.created = b]
  OBVIOUS
<1>6. /\ h \in Handler /\ h.pc = "register" /\ h.done = worker[n][w].done
      /\ h.session = s0 /\ h.oldSession = old /\ h.oldPrevious = oldPrev
  BY <1>0, <1>1, <1>5 DEF Handler
<1>7. worker' = [worker EXCEPT ![n][w] = h]
  BY <1>3, <1>4, <1>5 DEF InstallSession
<1>8. peer' = [peer EXCEPT ![n].endpoint = TRUE, ![n].session = s0, ![n].previous = old,
                           ![n].state = "established", ![n].mux = TRUE]
  BY <1>1, <1>3 DEF InstallSession
<1>9. /\ peer' \in [Node -> peerState] /\ \A k \in Node \ {n} : peer'[k] = peer[k]
      /\ peer'[n].session = s0 /\ peer'[n].previous = old
  <2>1. peer \in [Node -> peerState] /\ s0 \in SessionOrNone
    BY <1>0 DEF TypeOK, SessionOrNone
  <2>2. peer' \in [Node -> peerState]
    <3>1. peer[n] \in peerState
      BY <2>1
    <3>2. [peer[n] EXCEPT !.endpoint = TRUE, !.session = s0, !.previous = old,
                          !.state = "established", !.mux = TRUE] \in peerState
      BY <2>1, <3>1 DEF peerState, PeerState
    <3>3. peer' = [peer EXCEPT ![n] = [peer[n] EXCEPT !.endpoint = TRUE, !.session = s0,
                     !.previous = old, !.state = "established", !.mux = TRUE]]
      BY <1>8, <2>1
    <3>4. QED
      BY <2>1, <3>2, <3>3
  <2>3. /\ \A k \in Node \ {n} : peer'[k] = peer[k]
        /\ peer'[n].session = s0 /\ peer'[n].previous = old
    BY <1>8, <2>1 DEF peerState
  <2>4. QED
    BY <2>2, <2>3
<1>10. /\ installed' \in [Node -> SUBSET Session]
       /\ installed'[n] = installed[n] \union {s0}
       /\ \A k \in Node \ {n} : installed'[k] = installed[k]
       /\ after' \in [Node -> SUBSET (Session \X Session)]
       /\ after'[n] = after[n] \union (installed[n] \X {s0})
       /\ \A k \in Node \ {n} : after'[k] = after[k]
  BY <1>0, <1>1 DEF InstallSession, TypeOK
<1>11. /\ \A k \in Node \ {n} : NodeInv(k)'
       /\ WireTyped'
       /\ worker' \in [Node -> [Workers -> Handler]] /\ worker'[n][w] = h
       /\ \A v \in Workers \ {w} : worker'[n][v] = worker[n][v]
       /\ \A k \in Node \ {n} : \A s : Made(k, s)' <=> Made(k, s)
  <2>1. \A k \in Node \ {n} : /\ LiveSame(k) /\ byIndex'[k] = byIndex[k]
                               /\ pending'[k] = pending[k] /\ HistorySame(k)
                               /\ caller'[k] = caller[k]
    BY <1>0, <1>9, <1>10 DEF LiveSame, HistorySame
  <2>2. UNCHANGED <<nextIndex, wire>>
    BY <1>0
  <2>3. h \in Handler
    BY <1>6
  <2>4. QED
    BY <1>7, <2>1, <2>2, <2>3, HandlerFrame
<1>12. TypeOK'
  BY <1>0, <1>9, <1>10, <1>11 DEF InstallSession, TypeOK
<1>13. NodeInv(n)'
  <2>1. /\ Live(n)' = {s0, old} \ {None} /\ Live(n) = {old, oldPrev} \ {None}
        /\ Live(n) \subseteq installed[n]
    BY <1>0, <1>3, <1>9 DEF Live, SessionsInv
  <2>2. \A i : Usable(n, i) => Usable(n, i)'
    BY <1>0, <1>2, <1>3, <1>9, <1>10 DEF Usable
  <2>3. SessionsInv(n)'
    <3>1. \A s, t \in installed'[n] : s.local = t.local => s = t
      BY <1>0, <1>2, <1>10 DEF SessionsInv
    <3>2. Live(n)' \subseteq installed'[n]
      BY <1>10, <2>1
    <3>3. old # None => old.local # s0.local
      BY <1>2, <2>1
    <3>4. QED
      BY <1>0, <1>2, <1>9, <1>10, <3>1, <3>2, <3>3 DEF SessionsInv
  <2>4. PendingOwned(n)'
    BY <1>0 DEF NodeInv, PendingOwned
  <2>5. Routed(n)'
    <3>1. ASSUME NEW s \in {s0, old} \ {None}
          PROVE  \/ s.local \in byIndex[n]
                 \/ \E v \in Workers : worker'[n][v].pc = "register" /\ worker'[n][v].session = s
      <4>1. CASE s = s0
        BY <1>6, <1>11, <4>1
      <4>2. CASE s # s0
        <5>1. s \in Live(n)
          BY <2>1, <4>2
        <5>2. \/ s.local \in byIndex[n]
              \/ \E v \in Workers : worker[n][v].pc = "register" /\ worker[n][v].session = s
          BY <1>0, <5>1 DEF NodeInv, Routed
        <5>3. QED
          BY <1>0, <1>11, <5>2
      <4>3. QED
        BY <4>1, <4>2
    <3>2. QED
      BY <1>0, <2>1, <3>1 DEF Routed
  <2>6. ASSUME NEW v \in Workers PROVE HandlerInv(n, v)'
    <3>1. HandlerInv(n, v)
      BY <1>0 DEF NodeInv
    <3>2. \A u \in Workers : Unborn(n, u)' => /\ Unborn(n, u) /\ worker'[n][u] = worker[n][u]
                                              /\ worker[n][u].session.local # s0.local
      BY <1>0, <1>1, <1>6, <1>11 DEF Unborn, HandlerInv
    <3>3. CASE v = w
      <4>1. oldPrev # None => /\ \A s \in Live(n)' : s.local # oldPrev.local
                              /\ oldPrev \in installed'[n]
        <5>1. oldPrev # None => oldPrev \in installed[n] /\ oldPrev.local # old.local
          BY <1>0, <1>3, <2>1 DEF SessionsInv
        <5>2. QED
          BY <1>2, <1>10, <2>1, <5>1
      <4>2. h.done # 0 => h.done < nextIndex /\ h.done \notin pending[n] /\ s0.local = h.done
        BY <1>0, <1>1, <1>6 DEF HandlerInv
      <4>3. QED
        BY <1>0, <1>6, <1>10, <1>11, <3>3, <4>1, <4>2 DEF HandlerInv
    <3>4. CASE v # w
      <4>1. worker'[n][v] = worker[n][v]
        BY <1>11, <3>4
      <4>2. worker[n][v].pc \in {"sent", "install"} =>
              \A s \in installed'[n] : s.local # worker[n][v].session.local
        BY <1>10, <3>1, <3>2, <4>1 DEF HandlerInv, Unborn
      <4>3. worker[n][v].pc = "register" /\ worker[n][v].oldPrevious # None =>
              /\ \A s \in Live(n)' : s.local # worker[n][v].oldPrevious.local
              /\ worker[n][v].oldPrevious \in installed'[n]
        BY <1>2, <1>10, <2>1, <3>1 DEF HandlerInv
      <4>4. worker[n][v].pc = "register" => worker[n][v].session \in installed'[n]
        BY <1>10, <3>1 DEF HandlerInv
      <4>5. worker[n][v].pc \in {"sent", "install"} =>
              \A u \in Workers : u # v /\ Unborn(n, u)' =>
                worker'[n][u].session.local # worker[n][v].session.local
        BY <3>1, <3>2 DEF HandlerInv
      <4>6. QED
        BY <1>0, <2>2, <3>1, <4>1, <4>2, <4>3, <4>4, <4>5 DEF HandlerInv
    <3>5. QED
      BY <3>3, <3>4
  <2>7. ASSUME NEW d \in Callers PROVE CallerInv(n, d)'
    <3>1. CallerInv(n, d)
      BY <1>0 DEF NodeInv
    <3>2. QED
      BY <1>0, <2>2, <3>1 DEF CallerInv
  <2>8. RotationInv(n)'
    <3>1. old # None => <<old, s0>> \in after'[n]
      BY <1>10, <2>1
    <3>2. ASSUME NEW t \in installed'[n], t \notin Live(n)' PROVE RotatedOut(n, t)'
      <4>1. t \in installed[n] /\ t # old /\ t # None
        BY <1>0, <1>2, <1>10, <2>1, <3>2, Typing
      <4>2. CASE t = oldPrev
        <5>1. <<t, old>> \in after[n] /\ old \in Session
          BY <1>0, <1>3, <4>1, <4>2, Typing DEF RotationInv
        <5>2. old \in installed[n] /\ old # s0
          BY <1>0, <1>2, <1>3, <2>1, <5>1, Typing
        <5>3. /\ old \in installed'[n] /\ s0 \in installed'[n] /\ old # s0
              /\ <<t, old>> \in after'[n] /\ <<t, s0>> \in after'[n]
          BY <1>10, <4>1, <5>1, <5>2
        <5>4. QED
          BY <5>3 DEF RotatedOut
      <4>3. CASE t # oldPrev
        <5>1. RotatedOut(n, t)
          BY <1>0, <2>1, <4>1, <4>3 DEF RotationInv
        <5>2. QED
          BY <1>10, <5>1 DEF RotatedOut
      <4>4. QED
        BY <4>2, <4>3
    <3>3. QED
      BY <1>9, <3>1, <3>2 DEF RotationInv
  <2>9. QED
    BY <2>3, <2>4, <2>5, <2>6, <2>7, <2>8 DEF NodeInv
<1>14. PairInv'
  <2>1. \A s : Made(n, s)' <=> Made(n, s)
    <3>1. /\ Unborn(n, w) /\ ~Unborn(n, w)'
          /\ \A v \in Workers \ {w} : Unborn(n, v)' <=> Unborn(n, v)
      BY <1>0, <1>6, <1>11 DEF Unborn
    <3>2. QED
      BY <1>0, <1>1, <1>10, <1>11, <3>1 DEF Made
  <2>2. \A k \in Node, s \in Session : Made(k, s)' <=> Made(k, s)
    BY <1>11, <2>1
  <2>3. QED
    BY <1>0, <2>2, PairFrame DEF IInv
<1>15. QED
  BY <1>11, <1>12, <1>13, <1>14 DEF IInv

LEMMA RegisterSessionIInv ==
  ASSUME IInv, NEW n \in Node, NEW w \in Workers, RegisterSession(n, w)
  PROVE  IInv'
<1>0. /\ TypeOK /\ WireTyped /\ NodeInv(n) /\ HandlerInv(n, w) /\ worker[n][w].pc = "register"
      /\ worker[n][w] \in Handler /\ byIndex[n] \subseteq Index
      /\ UNCHANGED <<peer, pending, caller, nextIndex, wire, installed, after, abandoned>>
  BY Typing DEF IInv, NodeInv, RegisterSession
<1>1. PICK h : h = [worker[n][w] EXCEPT !.pc = "report"]
  OBVIOUS
<1>2. /\ h \in Handler /\ h.pc = "report" /\ h.done = worker[n][w].done
      /\ h.session = worker[n][w].session
  BY <1>0, <1>1 DEF Handler
<1>3. worker' = [worker EXCEPT ![n][w] = h]
  BY <1>0, <1>1 DEF RegisterSession, TypeOK
<1>4. PICK rotated \in SessionOrNone, kept \in SessionOrNone, s0 \in Session :
        /\ rotated = worker[n][w].oldPrevious /\ kept = worker[n][w].oldSession
        /\ s0 = worker[n][w].session
  <2>1. worker[n][w].session \in Session
    BY <1>0 DEF HandlerInv, TypeOK
  <2>2. QED
    BY <1>0, <2>1 DEF Handler
<1>5. /\ byIndex' \in [Node -> SUBSET Index]
      /\ byIndex'[n] = (byIndex[n] \ {rotated.local}) \union ({kept.local, s0.local} \ {0})
      /\ \A k \in Node \ {n} : byIndex'[k] = byIndex[k]
  <2>1. {kept.local, s0.local} \ {0} \subseteq Index
    BY <1>4 DEF SessionOrNone, Session, None
  <2>2. byIndex' = [byIndex EXCEPT ![n] = (byIndex[n] \ {rotated.local})
                                            \union ({kept.local, s0.local} \ {0})]
    BY <1>4 DEF RegisterSession, None
  <2>3. QED
    BY <1>0, <2>1, <2>2 DEF TypeOK
<1>6. /\ \A k \in Node \ {n} : NodeInv(k)'
      /\ WireTyped'
      /\ worker' \in [Node -> [Workers -> Handler]] /\ worker'[n][w] = h
      /\ \A v \in Workers \ {w} : worker'[n][v] = worker[n][v]
      /\ \A k \in Node \ {n} : \A s : Made(k, s)' <=> Made(k, s)
  <2>1. \A k \in Node \ {n} : /\ LiveSame(k) /\ byIndex'[k] = byIndex[k]
                               /\ pending'[k] = pending[k] /\ HistorySame(k)
                               /\ caller'[k] = caller[k]
    BY <1>0, <1>5 DEF LiveSame, HistorySame
  <2>2. UNCHANGED <<nextIndex, wire>>
    BY <1>0
  <2>3. h \in Handler
    BY <1>2
  <2>4. QED
    BY <1>3, <2>1, <2>2, <2>3, HandlerFrame
<1>7. TypeOK'
  BY <1>0, <1>5, <1>6 DEF RegisterSession, TypeOK
<1>8. NodeInv(n)'
  <2>1. Live(n)' = Live(n) /\ Live(n) \subseteq installed[n] /\ installed[n] \subseteq Session
    BY <1>0, Typing DEF Live, NodeInv, SessionsInv
  <2>2. \A s \in Live(n) : s.local # 0 /\ s.local # rotated.local
    BY <1>0, <1>4, <2>1, Typing DEF HandlerInv, None
  <2>3. \A s \in Live(n) : s.local \in byIndex[n] => s.local \in byIndex'[n]
    BY <1>5, <2>2
  <2>4. \A i : Usable(n, i) => Usable(n, i)'
    <3>1. ASSUME NEW i, Usable(n, i),
                 NEW s \in {peer[n].session, peer[n].previous}, s.local = i
          PROVE  s.local \in byIndex'[n]
      <4>1. s.local \in byIndex[n]
        BY <3>1 DEF Usable
      <4>2. s # None
        BY <1>0, <4>1, PeerAssumption DEF None, Index
      <4>3. QED
        BY <2>3, <4>1, <4>2 DEF Live
    <3>2. QED
      BY <1>0, <3>1 DEF Usable
  <2>5. SessionsInv(n)'
    BY <1>0, <2>1 DEF NodeInv, SessionsInv
  <2>6. PendingOwned(n)'
    BY <1>0 DEF NodeInv, PendingOwned
  <2>7. Routed(n)'
    <3>1. ASSUME NEW s \in Live(n)
          PROVE  \/ s.local \in byIndex'[n]
                 \/ \E v \in Workers : worker'[n][v].pc = "register" /\ worker'[n][v].session = s
      <4>1. CASE s.local \in byIndex[n]
        BY <2>3, <4>1
      <4>2. ASSUME NEW v \in Workers, worker[n][v].pc = "register", worker[n][v].session = s
            PROVE  \/ s.local \in byIndex'[n]
                   \/ worker'[n][v].pc = "register" /\ worker'[n][v].session = s
        BY <1>4, <1>5, <1>6, <2>2, <4>2
      <4>3. QED
        BY <1>0, <4>1, <4>2 DEF NodeInv, Routed
    <3>2. QED
      BY <2>1, <3>1 DEF Routed
  <2>8. ASSUME NEW v \in Workers PROVE HandlerInv(n, v)'
    <3>1. HandlerInv(n, v)
      BY <1>0 DEF NodeInv
    <3>2. \A u \in Workers : Unborn(n, u)' => Unborn(n, u) /\ worker'[n][u] = worker[n][u]
      BY <1>2, <1>6 DEF Unborn
    <3>3. CASE v = w
      <4>1. h.done # 0 => Usable(n, h.done)'
        <5>1. HAVE h.done # 0
        <5>2. s0.local = h.done /\ s0 \in installed[n]
          BY <1>0, <1>2, <1>4, <5>1 DEF HandlerInv
        <5>3. s0.local \in byIndex'[n]
          BY <1>5, <5>1, <5>2
        <5>4. QED
          BY <1>0, <5>2, <5>3 DEF Usable
      <4>2. h.done # 0 => h.done < nextIndex /\ h.done \notin pending[n] /\ h.session.local = h.done
        BY <1>0, <1>2 DEF HandlerInv
      <4>3. QED
        BY <1>0, <1>2, <1>6, <3>3, <4>1, <4>2 DEF HandlerInv
    <3>4. CASE v # w
      BY <1>0, <1>6, <2>1, <2>4, <3>1, <3>2, <3>4 DEF HandlerInv
    <3>5. QED
      BY <3>3, <3>4
  <2>9. ASSUME NEW d \in Callers PROVE CallerInv(n, d)'
    <3>1. CallerInv(n, d)
      BY <1>0 DEF NodeInv
    <3>2. QED
      BY <1>0, <2>4, <3>1 DEF CallerInv
  <2>10. RotationInv(n)'
    BY <1>0, RotationFrame DEF NodeInv, HistorySame, LiveSame
  <2>11. QED
    BY <2>5, <2>6, <2>7, <2>8, <2>9, <2>10 DEF NodeInv
<1>9. PairInv'
  <2>1. ~Unborn(n, w) /\ ~Unborn(n, w)'
    BY <1>0, <1>2, <1>6 DEF Unborn
  <2>2. QED
    BY <1>0, <1>6, <2>1, HandlerPair
<1>10. QED
  BY <1>6, <1>7, <1>8, <1>9 DEF IInv

-----------------------------------------------------------------------------
(* The invariant, and what follows from it.                                *)

LEMMA HandlerStepIInv ==
  ASSUME IInv, NEW n \in Node, NEW w \in Workers, HandlerStep(n, w)
  PROVE  IInv'
<1>1. event \in [Node -> PeerState]
  BY DEF IInv, TypeOK
<1>2. CASE HandshakeReportFailed(n, w)
  <2>1. event' \in [Node -> PeerState]
    BY <1>1, <1>2 DEF HandshakeReportFailed, Emit, PeerState
  <2>2. QED
    BY <1>2, <2>1, ReportIInv DEF HandshakeReportFailed
<1>3. CASE HandshakeReport(n, w)
  <2>1. event' \in [Node -> PeerState]
    BY <1>1, <1>3 DEF HandshakeReport, PeerState
  <2>2. QED
    BY <1>3, <2>1, ReportIInv DEF HandshakeReport
<1>4. QED
  BY <1>2, <1>3, HandleInitIInv, HandleRespIInv, ResponderSessionIInv,
     ResponderNoSessionIInv, HandshakeFailedIInv, InstallSessionIInv, RegisterSessionIInv
     DEF HandlerStep

LEMMA StepIInv == IInv /\ [Next]_vars => IInv'
<1> SUFFICES ASSUME IInv, [Next]_vars PROVE IInv'
  OBVIOUS
<1>1. CASE UNCHANGED vars
  <2>1. TypeOK' /\ WireTyped'
    BY <1>1 DEF vars, IInv, TypeOK, WireTyped, HandshakeInit
  <2>2. \A k \in Node : LiveSame(k)
    BY <1>1 DEF vars, LiveSame
  <2>3. QED
    BY <1>1, <2>1, <2>2, QuietStep DEF vars
<1>2. CASE Next
  <2>1. PICK n \in Node :
          \/ SetPeerEndpoint(n)
          \/ \E c \in Callers : ConnectStep(n, c)
          \/ \E w \in Workers : HandlerStep(n, w)
          \/ \E m \in wire : HandleHandshakeInitNotSent(n, m)
          \/ SendClose(n)
          \/ \E m \in wire : DecryptTransport(n, m)
          \/ \E d \in decoded[n] : DeliverClose(n, d)
    BY <1>2 DEF Next
  <2>2. ASSUME NEW c \in Callers, ConnectStep(n, c) PROVE IInv'
    BY <2>2, ConnectIInv, ConnectSendIInv DEF ConnectStep
  <2>3. QED
    BY <2>1, <2>2, PeerSteps, HandlerStepIInv
<1>3. QED
  BY <1>1, <1>2

LEMMA SpecIInv == Spec => []IInv
BY InitIInv, StepIInv, PTL DEF Spec

\* Every step keeps the types (newPeerState, the tables, the handlers).
THEOREM TypeCorrect == Spec => []TypeOK
<1>1. IInv => TypeOK
  BY DEF IInv
<1>2. QED
  BY <1>1, SpecIInv, PTL

\* handleHandshakeInit and handleHandshakeResp, on any number of decrypt workers,
\* never leave the current or the previous session without its entry in byIndex,
\* except while the handler that installed it has still to take u.mu.
THEOREM SessionsRouted == Spec => []LiveIndexRouted
<1>1. IInv => LiveIndexRouted
  BY DEF IInv, NodeInv, Routed, Live, LiveIndexRouted
<1>2. QED
  BY <1>1, SpecIInv, PTL

\* A pending entry is taken by one response and its index never comes back, so
\* a handshake yields one session; and the entry always has a call waiting on it,
\* which will take it out.
THEOREM HandshakesEndOnce == Spec => []HandshakeEndsOnce
<1>1. IInv => HandshakeEndsOnce
  BY DEF IInv, NodeInv, SessionsInv, PendingOwned, HandshakeEndsOnce
<1>2. QED
  BY <1>1, SpecIInv, PTL

\* Connect returns nil only for a session that was installed and is routed, also
\* when other handlers have rotated the sessions since.
THEOREM ConnectedUsable == Spec => []ConnectedIsUsable
<1>1. IInv => ConnectedIsUsable
  <2> SUFFICES ASSUME IInv, NEW n \in Node, NEW c \in Callers,
                      caller[n][c].pc = "idle", caller[n][c].result = "ok"
               PROVE  Usable(n, caller[n][c].index)
    BY DEF ConnectedIsUsable, Usable
  <2>1. CallerInv(n, c)
    BY DEF IInv, NodeInv
  <2>2. QED
    BY <2>1 DEF CallerInv
<1>2. QED
  BY <1>1, SpecIInv, PTL

\* A session that came of a node's own Connect and that it still keeps can be
\* opened at the other end, or the handler that answered is still at work there,
\* unless that handler failed after its response (udp.go:897-912) or two other
\* sessions have been made current there since (udp.go:914-922).
THEOREM CounterpartsKept == Spec => []CounterpartKept
<1>1. IInv => CounterpartKept
  <2> SUFFICES ASSUME IInv, NEW n \in Node, NEW s \in Live(n), HandshakeInit(n, s.local) \in wire
               PROVE  \/ Opens(Other[n], Mirror(s))
                      \/ \E w \in Workers : /\ worker[Other[n]][w].pc \in {"sent", "install"}
                                            /\ worker[Other[n]][w].session = Mirror(s)
                      \/ Mirror(s) \in abandoned[Other[n]]
                      \/ RotatedOut(Other[n], Mirror(s))
    BY DEF CounterpartKept, Live
  <2>1. s \in Session /\ s \in installed[n] /\ Other[n] \in Node
    BY Typing, PeerAssumption DEF IInv, NodeInv, SessionsInv
  <2>2. Made(Other[n], Mirror(s))
    BY <2>1 DEF IInv, PairInv, Made
  <2>3. RotationInv(Other[n]) /\ Routed(Other[n])
    BY <2>1 DEF IInv, NodeInv
  <2>4. CASE Mirror(s) \in installed[Other[n]]
    <3>1. CASE Mirror(s) \in Live(Other[n])
      BY <2>3, <3>1 DEF Routed, Opens, Live
    <3>2. QED
      BY <2>3, <2>4, <3>1 DEF RotationInv
  <2>5. QED
    BY <2>2, <2>4 DEF Made, Unborn
<1>2. QED
  BY <1>1, SpecIInv, PTL

=============================================================================
