------------------------------ MODULE UDPPeer ------------------------------
(***************************************************************************)
(* Sessions between two UDP nodes (core/udp.go): Connect with its pending  *)
(* table and its timeout, the two handshake handlers, which run on several *)
(* decrypt workers at once, the rotation of a peer's current and previous  *)
(* session, the index table that routes transport datagrams, and the close *)
(* notice that is decrypted by a worker and applied later by the ordered   *)
(* receive loop.                                                           *)
(*                                                                         *)
(* Each handler takes peer.mu and u.mu one after the other, never both, so *)
(* each of its critical sections is a step of its own.                     *)
(*                                                                         *)
(* The network keeps every handshake datagram: it may lose, duplicate,     *)
(* reorder and, for responses, damage them.  A transport datagram is taken *)
(* at most once, which is what the replay filter guarantees (NoiseSession).*)
(* Session indices are fresh; the code draws them at random from 32 bits.  *)
(***************************************************************************)
EXTENDS Integers, FiniteSets

CONSTANTS
  Node,        \* the two nodes
  Other,       \* Other[n]: the only peer of n
  Initiators,  \* nodes whose application calls SetPeerEndpoint and Connect
  Admitting,   \* nodes whose allowFunc admits an unknown peer
  Callers,     \* goroutines that call Connect, of each node
  Workers,     \* decrypt workers, of each node
  MaxIndex,    \* bound: session indices drawn
  MaxNotices   \* bound: close notices sent

ASSUME PeerAssumption == /\ Other \in [Node -> Node]
                         /\ \A n \in Node : Other[Other[n]] = n
                         /\ Initiators \subseteq Node
                         /\ Admitting \subseteq Node
                         /\ MaxIndex \in Nat
                         /\ MaxNotices \in Nat

VARIABLES
  peer,       \* peer[n]: the peerState n keeps for Other[n]
  byIndex,    \* byIndex[n]: local indices registered for that peer
  pending,    \* pending[n]: local indices of the handshakes awaiting a response
  caller,     \* caller[n][c]: progress of a Connect call
  worker,     \* worker[n][w]: progress of a handler
  decoded,    \* decoded[n]: close notices decrypted and not yet delivered
  wire,       \* datagrams sent
  nextIndex,  \* the next fresh index
  notices,    \* close notices sent so far
  event,      \* event[n]: the last peer event emitted by n
  installed,  \* history: installed[n], the sessions ever made current at n
  after,      \* history: after[n], the pairs <<s, t>> with t made current after s at n
  abandoned,  \* history: abandoned[n], the sessions n answered for and gave up
  closedBy    \* history: closedBy[n], the session of the last notice applied and
              \* the session that was current then

vars == <<peer, byIndex, pending, caller, worker, decoded, wire, nextIndex,
          notices, event, installed, after, abandoned, closedBy>>

Index     == 1 .. MaxIndex
None      == [local |-> 0, remote |-> 0]
Session   == [local : Index, remote : Index]
SessionOrNone == Session \union {None}
PeerState == {"new", "connecting", "established", "failed", "offline"}

peerState == [known : BOOLEAN, endpoint : BOOLEAN, session : SessionOrNone,
              previous : SessionOrNone, state : PeerState, mux : BOOLEAN]

\* Progress of a handler: the session it installs, the sessions it found, the
\* caller it reports to (the index of its handshake, 0 at the responder) and
\* whether it created the mux.
Handler == [pc : {"idle", "sent", "fail", "reportFailed", "install", "register", "report"},
            session : SessionOrNone, oldSession : SessionOrNone,
            oldPrevious : SessionOrNone, done : 0 .. MaxIndex, created : BOOLEAN]

IdleHandler == [pc |-> "idle", session |-> None, oldSession |-> None,
                oldPrevious |-> None, done |-> 0, created |-> FALSE]

\* Progress of a Connect call; done is the one-element channel of its handshake.
Call == [pc : {"idle", "started", "noEndpoint", "send", "wait", "expire", "reportFailed"},
         index : 0 .. MaxIndex, done : {"empty", "ok", "failed"},
         result : {"none", "ok", "error"}]

IdleCall(result, i) == [pc |-> "idle", index |-> i, done |-> "empty", result |-> result]

HandshakeInit(n, i)    == [type |-> "init", to |-> Other[n], sender |-> i, receiver |-> 0]
HandshakeResp(n, i, r) == [type |-> "resp", to |-> Other[n], sender |-> i, receiver |-> r]
CloseNotice(n, s)      == [type |-> "close", to |-> Other[n], sender |-> s.local,
                           receiver |-> s.remote]

\* A node before any call (NewUDP).
Init ==
  /\ peer = [n \in Node |-> [known |-> FALSE, endpoint |-> FALSE, session |-> None,
                             previous |-> None, state |-> "new", mux |-> FALSE]]
  /\ byIndex = [n \in Node |-> {}]
  /\ pending = [n \in Node |-> {}]
  /\ caller = [n \in Node |-> [c \in Callers |-> IdleCall("none", 0)]]
  /\ worker = [n \in Node |-> [w \in Workers |-> IdleHandler]]
  /\ decoded = [n \in Node |-> {}]
  /\ wire = {}
  /\ nextIndex = 1
  /\ notices = 0
  /\ event = [n \in Node |-> "new"]
  /\ installed = [n \in Node |-> {}]
  /\ after = [n \in Node |-> {}]
  /\ abandoned = [n \in Node |-> {}]
  /\ closedBy = [n \in Node |-> [notice |-> None, current |-> None]]

SetState(n, state) == peer' = [peer EXCEPT ![n].state = state]
Emit(n, state)     == event' = [event EXCEPT ![n] = state]

-----------------------------------------------------------------------------
(* Connect.                                                                *)

SetPeerEndpoint(n) ==
  /\ n \in Initiators
  /\ peer' = [peer EXCEPT ![n].known = TRUE, ![n].endpoint = TRUE]
  /\ UNCHANGED <<byIndex, pending, caller, worker, decoded, wire, nextIndex, notices,
                 event, installed, after, abandoned, closedBy>>

\* initiateHandshake: the first peer.mu section, which reads the endpoint.
ConnectStart(n, c) ==
  /\ n \in Initiators
  /\ caller[n][c].pc = "idle"
  /\ peer[n].known
  /\ SetState(n, "connecting")
  /\ caller' = [caller EXCEPT ![n][c] =
                  [IdleCall("none", 0) EXCEPT
                     !.pc = IF peer[n].endpoint THEN "started" ELSE "noEndpoint"]]
  /\ UNCHANGED <<byIndex, pending, worker, decoded, wire, nextIndex, notices, event,
                 installed, after, abandoned, closedBy>>

\* The Connecting event, and ErrNoEndpoint if there was no endpoint.
ConnectEmit(n, c) ==
  /\ caller[n][c].pc \in {"started", "noEndpoint"}
  /\ Emit(n, "connecting")
  /\ caller' = IF caller[n][c].pc = "started"
                 THEN [caller EXCEPT ![n][c].pc = "send"]
                 ELSE [caller EXCEPT ![n][c] = IdleCall("error", 0)]
  /\ UNCHANGED <<peer, byIndex, pending, worker, decoded, wire, nextIndex, notices,
                 installed, after, abandoned, closedBy>>

\* A fresh index, its entry in the pending table and the initiation on the wire.
ConnectSend(n, c) ==
  /\ caller[n][c].pc = "send"
  /\ nextIndex <= MaxIndex
  /\ nextIndex' = nextIndex + 1
  /\ pending' = [pending EXCEPT ![n] = @ \union {nextIndex}]
  /\ wire' = wire \union {HandshakeInit(n, nextIndex)}
  /\ caller' = [caller EXCEPT ![n][c].pc = "wait", ![n][c].index = nextIndex]
  /\ UNCHANGED <<peer, byIndex, worker, decoded, notices, event, installed, after,
                 abandoned, closedBy>>

\* WriteToUDP failed: the entry is removed again and the error returned.
ConnectSendError(n, c) ==
  /\ caller[n][c].pc = "send"
  /\ caller' = [caller EXCEPT ![n][c] = IdleCall("error", 0)]
  /\ UNCHANGED <<peer, byIndex, pending, worker, decoded, wire, nextIndex, notices,
                 event, installed, after, abandoned, closedBy>>

\* The handler's verdict arrives on the done channel.
ConnectReturn(n, c) ==
  LET call == caller[n][c]
  IN  /\ call.pc = "wait"
      /\ call.done # "empty"
      /\ caller' = [caller EXCEPT ![n][c] =
                      IdleCall(IF call.done = "ok" THEN "ok" ELSE "error", call.index)]
      /\ UNCHANGED <<peer, byIndex, pending, worker, decoded, wire, nextIndex,
                     notices, event, installed, after, abandoned, closedBy>>

\* A wrong form, for the mutation runs: a call whose entry a handler has taken
\* is not timed out.
ConnectTimeoutIfPending(n, c) ==
  /\ caller[n][c].pc = "wait"
  /\ caller[n][c].index \in pending[n]
  /\ pending' = [pending EXCEPT ![n] = @ \ {caller[n][c].index}]
  /\ caller' = [caller EXCEPT ![n][c].pc = "expire"]
  /\ UNCHANGED <<peer, byIndex, worker, decoded, wire, nextIndex, notices, event,
                 installed, after, abandoned, closedBy>>

\* Five seconds passed: the pending entry goes first ...
ConnectTimeout(n, c) ==
  /\ caller[n][c].pc = "wait"
  /\ pending' = [pending EXCEPT ![n] = @ \ {caller[n][c].index}]
  /\ caller' = [caller EXCEPT ![n][c].pc = "expire"]
  /\ UNCHANGED <<peer, byIndex, worker, decoded, wire, nextIndex, notices, event,
                 installed, after, abandoned, closedBy>>

\* ... then the state, whatever a response has done to it in between ...
ConnectExpire(n, c) ==
  /\ caller[n][c].pc = "expire"
  /\ SetState(n, "failed")
  /\ caller' = [caller EXCEPT ![n][c].pc = "reportFailed"]
  /\ UNCHANGED <<byIndex, pending, worker, decoded, wire, nextIndex, notices, event,
                 installed, after, abandoned, closedBy>>

\* ... and the event.
ConnectReportTimeout(n, c) ==
  /\ caller[n][c].pc = "reportFailed"
  /\ Emit(n, "failed")
  /\ caller' = [caller EXCEPT ![n][c] = IdleCall("error", caller[n][c].index)]
  /\ UNCHANGED <<peer, byIndex, pending, worker, decoded, wire, nextIndex, notices,
                 installed, after, abandoned, closedBy>>

-----------------------------------------------------------------------------
(* The handlers of handshake datagrams.                                    *)

\* handleHandshakeInit up to the response: the peer is looked up or admitted,
\* and the response leaves before there is a session.
HandleHandshakeInit(n, w, m) ==
  /\ worker[n][w].pc = "idle"
  /\ m.type = "init" /\ m.to = n
  /\ peer[n].known \/ n \in Admitting
  /\ nextIndex <= MaxIndex
  /\ nextIndex' = nextIndex + 1
  /\ peer' = [peer EXCEPT ![n].known = TRUE]
  /\ wire' = wire \union {HandshakeResp(n, nextIndex, m.sender)}
  /\ worker' = [worker EXCEPT ![n][w] =
                  [IdleHandler EXCEPT !.pc = "sent",
                     !.session = [local |-> nextIndex, remote |-> m.sender]]]
  /\ UNCHANGED <<byIndex, pending, caller, decoded, notices, event, installed, after,
                 abandoned, closedBy>>

\* The keys are split and the session made, after the response has left.
ResponderSession(n, w) ==
  /\ worker[n][w].pc = "sent"
  /\ worker' = [worker EXCEPT ![n][w].pc = "install"]
  /\ UNCHANGED <<peer, byIndex, pending, caller, decoded, wire, nextIndex, notices,
                 event, installed, after, abandoned, closedBy>>

\* Split or NewSession failed: the handler returns, and the initiator has a
\* response for a session that is never made.
ResponderNoSession(n, w) ==
  /\ worker[n][w].pc = "sent"
  /\ worker' = [worker EXCEPT ![n][w] = IdleHandler]
  /\ abandoned' = [abandoned EXCEPT ![n] = @ \union {worker[n][w].session}]
  /\ UNCHANGED <<peer, byIndex, pending, caller, decoded, wire, nextIndex, notices,
                 event, installed, after, closedBy>>

\* The response could not be written: the handler returns, the peer stays.
HandleHandshakeInitNotSent(n, m) ==
  /\ m.type = "init" /\ m.to = n
  /\ peer[n].known \/ n \in Admitting
  /\ peer' = [peer EXCEPT ![n].known = TRUE]
  /\ UNCHANGED <<byIndex, pending, caller, worker, decoded, wire, nextIndex, notices,
                 event, installed, after, abandoned, closedBy>>

\* A wrong form, for the mutation runs: a response leaves its pending entry.
HandleHandshakeRespKeepsEntry(n, w, m) ==
  /\ worker[n][w].pc = "idle"
  /\ m.type = "resp" /\ m.to = n
  /\ m.receiver \in pending[n]
  /\ worker' = [worker EXCEPT ![n][w] =
                    [IdleHandler EXCEPT !.pc = "install", !.done = m.receiver,
                       !.session = [local |-> m.receiver, remote |-> m.sender]]]
  /\ UNCHANGED <<peer, byIndex, pending, caller, decoded, wire, nextIndex, notices,
                 event, installed, after, abandoned, closedBy>>

\* handleHandshakeResp up to the session: the pending entry is removed before
\* the response is authenticated, so that a damaged one ends the handshake.
HandleHandshakeResp(n, w, m) ==
  /\ worker[n][w].pc = "idle"
  /\ m.type = "resp" /\ m.to = n
  /\ m.receiver \in pending[n]
  /\ pending' = [pending EXCEPT ![n] = @ \ {m.receiver}]
  /\ \/ worker' = [worker EXCEPT ![n][w] =
                     [IdleHandler EXCEPT !.pc = "install", !.done = m.receiver,
                        !.session = [local |-> m.receiver, remote |-> m.sender]]]
     \/ worker' = [worker EXCEPT ![n][w] =      \* damaged, or no session made of it
                     [IdleHandler EXCEPT !.pc = "fail", !.done = m.receiver]]
  /\ UNCHANGED <<peer, byIndex, caller, decoded, wire, nextIndex, notices, event,
                 installed, after, abandoned, closedBy>>

HandshakeFailed(n, w) ==
  /\ worker[n][w].pc = "fail"
  /\ SetState(n, "failed")
  /\ worker' = [worker EXCEPT ![n][w].pc = "reportFailed"]
  /\ UNCHANGED <<byIndex, pending, caller, decoded, wire, nextIndex, notices, event,
                 installed, after, abandoned, closedBy>>

\* The done channel of handshake i, if its call is still waiting on it.
Signal(n, i, verdict) ==
  caller' = [caller EXCEPT ![n] =
               [c \in Callers |->
                  IF caller[n][c].pc \in {"wait", "expire", "reportFailed"}
                     /\ caller[n][c].index = i
                    THEN [caller[n][c] EXCEPT !.done = verdict]
                    ELSE caller[n][c]]]

\* A wrong form, for the mutation runs: the failure path reports success.
HandshakeReportFailedAsOk(n, w) ==
  /\ worker[n][w].pc = "reportFailed"
  /\ Emit(n, "failed")
  /\ Signal(n, worker[n][w].done, "ok")
  /\ worker' = [worker EXCEPT ![n][w] = IdleHandler]
  /\ UNCHANGED <<peer, byIndex, pending, decoded, wire, nextIndex, notices, installed,
                 after, abandoned, closedBy>>

\* The event, then the verdict.
HandshakeReportFailed(n, w) ==
  /\ worker[n][w].pc = "reportFailed"
  /\ Emit(n, "failed")
  /\ Signal(n, worker[n][w].done, "failed")
  /\ worker' = [worker EXCEPT ![n][w] = IdleHandler]
  /\ UNCHANGED <<peer, byIndex, pending, decoded, wire, nextIndex, notices, installed,
                 after, abandoned, closedBy>>

\* A wrong form, for the mutation runs: the current session is replaced before it
\* is copied.
InstallSessionSwapped(n, w) ==
  LET h == worker[n][w]
  IN  /\ h.pc = "install"
      /\ peer' = [peer EXCEPT ![n].endpoint = TRUE,
                              ![n].session  = h.session,
                              ![n].previous = h.session,
                              ![n].state    = "established",
                              ![n].mux      = TRUE]
      /\ worker' = [worker EXCEPT ![n][w] =
                      [h EXCEPT !.pc = "register", !.oldSession = peer[n].session,
                                !.oldPrevious = peer[n].previous,
                                !.created = ~peer[n].mux]]
      /\ installed' = [installed EXCEPT ![n] = @ \union {h.session}]
      /\ after' = [after EXCEPT ![n] = @ \union (installed[n] \X {h.session})]
      /\ UNCHANGED <<byIndex, pending, caller, decoded, wire, nextIndex, notices,
                     event, abandoned, closedBy>>

\* The peer.mu section of both handlers: the session becomes current, the
\* current one previous, the mux is created unless there is one.
InstallSession(n, w) ==
  LET h == worker[n][w]
  IN  /\ h.pc = "install"
      /\ peer' = [peer EXCEPT ![n].endpoint = TRUE,
                              ![n].session  = h.session,
                              ![n].previous = peer[n].session,
                              ![n].state    = "established",
                              ![n].mux      = TRUE]
      /\ worker' = [worker EXCEPT ![n][w] =
                      [h EXCEPT !.pc = "register", !.oldSession = peer[n].session,
                                !.oldPrevious = peer[n].previous,
                                !.created = ~peer[n].mux]]
      /\ installed' = [installed EXCEPT ![n] = @ \union {h.session}]
      /\ after' = [after EXCEPT ![n] = @ \union (installed[n] \X {h.session})]
      /\ UNCHANGED <<byIndex, pending, caller, decoded, wire, nextIndex, notices,
                     event, abandoned, closedBy>>

\* A wrong form, for the mutation runs: the wrong old session is retired.
RegisterSessionRetiresOld(n, w) ==
  LET h == worker[n][w]
  IN  /\ h.pc = "register"
      /\ byIndex' = [byIndex EXCEPT ![n] =
                       (@ \ {h.oldSession.local}) \union {h.session.local}]
      /\ worker' = [worker EXCEPT ![n][w].pc = "report"]
      /\ UNCHANGED <<peer, pending, caller, decoded, wire, nextIndex, notices, event,
                     installed, after, abandoned, closedBy>>

\* A wrong form, for the mutation runs: a missing old session is registered too.
RegisterSessionNoNilCheck(n, w) ==
  LET h == worker[n][w]
  IN  /\ h.pc = "register"
      /\ byIndex' = [byIndex EXCEPT ![n] =
                       (@ \ {h.oldPrevious.local})
                         \union {h.oldSession.local, h.session.local}]
      /\ worker' = [worker EXCEPT ![n][w].pc = "report"]
      /\ UNCHANGED <<peer, pending, caller, decoded, wire, nextIndex, notices, event,
                     installed, after, abandoned, closedBy>>

\* The u.mu section of both handlers: the index that fell out of the rotation
\* goes, those of the old and of the new session are registered.
RegisterSession(n, w) ==
  LET h == worker[n][w]
  IN  /\ h.pc = "register"
      /\ byIndex' = [byIndex EXCEPT ![n] =
                       (@ \ {h.oldPrevious.local})
                         \union ({h.oldSession.local, h.session.local} \ {None.local})]
      /\ worker' = [worker EXCEPT ![n][w].pc = "report"]
      /\ UNCHANGED <<peer, pending, caller, decoded, wire, nextIndex, notices, event,
                     installed, after, abandoned, closedBy>>

\* The event, if the handler created the mux, and the verdict for Connect.
HandshakeReport(n, w) ==
  LET h == worker[n][w]
  IN  /\ h.pc = "report"
      /\ event' = IF h.created THEN [event EXCEPT ![n] = "established"] ELSE event
      /\ Signal(n, h.done, "ok")
      /\ worker' = [worker EXCEPT ![n][w] = IdleHandler]
      /\ UNCHANGED <<peer, byIndex, pending, decoded, wire, nextIndex, notices,
                     installed, after, abandoned, closedBy>>

-----------------------------------------------------------------------------
(* Close notices.                                                          *)

\* sendPayload of a close notice on the current session (Close's best effort).
SendClose(n) ==
  /\ notices < MaxNotices
  /\ peer[n].session # None /\ peer[n].endpoint
  /\ notices' = notices + 1
  /\ wire' = wire \union {CloseNotice(n, peer[n].session)}
  /\ UNCHANGED <<peer, byIndex, pending, caller, worker, decoded, nextIndex, event,
                 installed, after, abandoned, closedBy>>

\* decryptTransport: the index table gives the peer, one of its two sessions
\* opens the datagram, and whether that session is current is noted.
DecryptTransport(n, m) ==
  /\ m.type = "close" /\ m.to = n
  /\ m.receiver \in byIndex[n]
  /\ \E s \in {peer[n].session, peer[n].previous} \ {None} :
       /\ s.local = m.receiver /\ s.remote = m.sender
       /\ decoded' = [decoded EXCEPT ![n] =
                        @ \union {[session |-> s, current |-> s = peer[n].session]}]
  /\ wire' = wire \ {m}
  /\ UNCHANGED <<peer, byIndex, pending, caller, worker, nextIndex, notices, event,
                 installed, after, abandoned, closedBy>>

\* deliverInbound of a close notice: Peer.CloseServiceMux, its critical section
\* and its event (the ordered receive loop is one goroutine).
DeliverClose(n, d) ==
  /\ d \in decoded[n]
  /\ decoded' = [decoded EXCEPT ![n] = @ \ {d}]
  /\ IF d.current
       THEN /\ peer' = [peer EXCEPT ![n].state = "offline", ![n].mux = FALSE]
            /\ event' = IF peer[n].state # "offline"
                          THEN [event EXCEPT ![n] = "offline"] ELSE event
            /\ closedBy' = [closedBy EXCEPT ![n] = [notice |-> d.session,
                                                    current |-> peer[n].session]]
       ELSE UNCHANGED <<peer, event, closedBy>>
  /\ UNCHANGED <<byIndex, pending, caller, worker, wire, nextIndex, notices,
                 installed, after, abandoned>>

-----------------------------------------------------------------------------
ConnectStep(n, c) ==
  \/ ConnectStart(n, c) \/ ConnectEmit(n, c)
  \/ ConnectSend(n, c) \/ ConnectSendError(n, c)
  \/ ConnectReturn(n, c)
  \/ ConnectTimeout(n, c) \/ ConnectExpire(n, c) \/ ConnectReportTimeout(n, c)

HandlerStep(n, w) ==
  \/ \E m \in wire : HandleHandshakeInit(n, w, m) \/ HandleHandshakeResp(n, w, m)
  \/ ResponderSession(n, w) \/ ResponderNoSession(n, w)
  \/ HandshakeFailed(n, w) \/ HandshakeReportFailed(n, w)
  \/ InstallSession(n, w) \/ RegisterSession(n, w) \/ HandshakeReport(n, w)

Next ==
  \E n \in Node :
    \/ SetPeerEndpoint(n)
    \/ \E c \in Callers : ConnectStep(n, c)
    \/ \E w \in Workers : HandlerStep(n, w)
    \/ \E m \in wire : HandleHandshakeInitNotSent(n, m)
    \/ SendClose(n)
    \/ \E m \in wire : DecryptTransport(n, m)
    \/ \E d \in decoded[n] : DeliverClose(n, d)

Spec == Init /\ [][Next]_vars

\* The Go scheduler runs every goroutine that can run, and the timer of a
\* waiting call fires.
Fairness ==
  /\ \A n \in Node, c \in Callers :
       WF_vars(\/ ConnectEmit(n, c) \/ ConnectSend(n, c) \/ ConnectSendError(n, c)
               \/ ConnectReturn(n, c) \/ ConnectTimeout(n, c)
               \/ ConnectExpire(n, c) \/ ConnectReportTimeout(n, c))

FairSpec == Spec /\ Fairness

-----------------------------------------------------------------------------
(* Properties.                                                             *)

\* Types of the peer states, of the tables and of the calls and handlers.
TypeOK ==
  /\ peer \in [Node -> peerState]
  /\ byIndex \in [Node -> SUBSET Index]
  /\ pending \in [Node -> SUBSET Index]
  /\ caller \in [Node -> [Callers -> Call]]
  /\ worker \in [Node -> [Workers -> Handler]]
  /\ nextIndex \in 1 .. MaxIndex + 1
  /\ notices \in 0 .. MaxNotices
  /\ event \in [Node -> PeerState]
  /\ installed \in [Node -> SUBSET Session]
  /\ after \in [Node -> SUBSET (Session \X Session)]
  /\ abandoned \in [Node -> SUBSET Session]

\* Datagrams for the current and for the previous session find the peer: both
\* indices stay in the table, however handlers that rotate the sessions under
\* peer.mu and update the table under u.mu overtake one another.
LiveIndexRouted ==
  \A n \in Node : \A s \in {peer[n].session, peer[n].previous} \ {None} :
    \/ s.local \in byIndex[n]
    \/ \E w \in Workers : worker[n][w].pc = "register" /\ worker[n][w].session = s

\* A handshake ends once: it yields at most one session at its initiator,
\* whatever responses are duplicated, damaged or handled at once, and no outcome
\* of the Connect call leaks its entry in the pending table.
HandshakeEndsOnce ==
  \A n \in Node :
    /\ \A s, t \in installed[n] : s.local = t.local => s = t
    /\ \A i \in pending[n] : \E c \in Callers : caller[n][c].pc = "wait" /\ caller[n][c].index = i

\* A Connect call that returned nil left its session installed and routed: its
\* index may be missing from the table only if the session was rotated out.
ConnectedIsUsable ==
  \A n \in Node, c \in Callers :
    caller[n][c].pc = "idle" /\ caller[n][c].result = "ok" =>
      /\ \E s \in installed[n] : s.local = caller[n][c].index
      /\ \A s \in {peer[n].session, peer[n].previous} :
           s.local = caller[n][c].index => s.local \in byIndex[n]

\* The end of s at the other node.
Mirror(s) == [local |-> s.remote, remote |-> s.local]

\* n has made two other sessions current since t: the rotation has dropped t.
RotatedOut(n, t) ==
  \E u, v \in installed[n] : u # v /\ <<t, u>> \in after[n] /\ <<t, v>> \in after[n]

\* What n seals with the session t of its peer finds its way: n keeps t and its
\* index is routed, or will be by the handler at work.
Opens(n, t) ==
  /\ t \in {peer[n].session, peer[n].previous}
  /\ \/ t.local \in byIndex[n]
     \/ \E w \in Workers : worker[n][w].pc = "register" /\ worker[n][w].session = t

\* A session that a node got by Connect and still keeps is one the other node can
\* open, or will when the handler that answered is done.  There are two
\* exceptions: the answering handler failed after its response had left, and the
\* other node has made two further sessions current, as it does for initiations
\* delivered again.
CounterpartKept ==
  \A n \in Node : \A s \in {peer[n].session, peer[n].previous} \ {None} :
    LET m == Other[n]
        t == Mirror(s)
    IN  HandshakeInit(n, s.local) \in wire =>
          \/ Opens(m, t)
          \/ \E w \in Workers : /\ worker[m][w].pc \in {"sent", "install"}
                                 /\ worker[m][w].session = t
          \/ t \in abandoned[m]
          \/ RotatedOut(m, t)

\* The same without the second exception: the session of a Connect call outlives
\* initiations that are delivered again.
CounterpartSurvivesDuplicates ==
  \A n \in Node : \A s \in {peer[n].session, peer[n].previous} \ {None} :
    HandshakeInit(n, s.local) \in wire =>
      \/ Mirror(s) \in {peer[Other[n]].session, peer[Other[n]].previous}
                        \union abandoned[Other[n]]
      \/ \E w \in Workers : /\ worker[Other[n]][w].pc \in {"sent", "install"}
                             /\ worker[Other[n]][w].session = Mirror(s)

\* An initiation is answered with one session.
OneSessionPerInitiation ==
  \A n \in Node : \A s, t \in installed[n] : s.remote = t.remote => s = t

\* udp.go: "clean up stale entry": once no handler is running, the table holds
\* the two live sessions and nothing else.
NoStaleIndex ==
  \A n \in Node :
    (\A w \in Workers : worker[n][w].pc = "idle") =>
      byIndex[n] \subseteq {peer[n].session.local, peer[n].previous.local}

Quiet(n) ==
  /\ \A w \in Workers : worker[n][w].pc = "idle"
  /\ \A c \in Callers : caller[n][c].pc = "idle"

\* udp.go: "PeerEvent is emitted when a peer's state changes": once nothing is
\* under way at a node, the last event says the state.
EventMatchesState == \A n \in Node : Quiet(n) => event[n] = peer[n].state

\* udp.go: "PeerStateConnecting indicates the peer is performing handshake".
ConnectingMeansHandshake ==
  \A n \in Node : Quiet(n) => peer[n].state # "connecting"

\* A close notice closes the mux only while the session it came on is current
\* (TestCloseControlFromPreviousSessionDoesNotCloseCurrentServiceMux).
CloseOnlyFromCurrent == \A n \in Node : closedBy[n].notice = closedBy[n].current

\* Every Connect call returns (the done channel or the five-second timer).
ConnectReturns ==
  \A n \in Node, c \in Callers : caller[n][c].pc # "idle" ~> caller[n][c].pc = "idle"

=============================================================================
