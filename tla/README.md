# Formal verification of gizclaw-go

TLA+ models of gizclaw-go. The transport comes first, because it decides whether
peers can talk to the server at all: the encrypted UDP node with its packet
pipeline, the stream multiplexers on top of it, and the server's bookkeeping of
who is connected. Then the services that keep state of their own under
concurrent calls and failing stores: the agent host, the wallet with pets and
rewards, friends and friend groups. TLC checks the models on small instances. TLAPS
proves every safety property of every one of them for every instance, and that the
packet pipeline implements an ordered queue; only liveness is left to TLC.

Contents: [inventory](#1-inventory), [plan](#2-plan),
[modules](#3-modules-and-their-correspondence-with-the-code),
[runs](#4-runs), [proofs](#5-proofs),
[formulas the code does not satisfy](#6-formulas-the-code-does-not-satisfy),
[what is left out](#7-what-is-left-out).

Paths are relative to the repository's root; `giznet/` stands for
`pkgs/giznet/`, `core/`, `kcp/` and `noise/` for its `internal/` packages.

## 1. Inventory

### 1.1 Components

| Component | State it keeps | Operations |
| --- | --- | --- |
| Replay filter, `noise/replay.go` | highest nonce, bitmap of 2048 bits in 32 words | check, update (with the slide of the window) |
| Noise session, `noise/session.go` | state, atomic send counter, replay filter, two ciphers | Encrypt, Decrypt, Expire |
| UDP node, `core/udp.go` | peers (endpoint, current and previous session, state, service mux), table of session indices, table of pending handshakes, packet pipeline | Connect, SetPeerEndpoint, the handlers of initiation, response, transport and close datagrams, Close |
| Peer handle, `core/peer.go` | none of its own; the peer's mux generation | ServiceMux, Connect, CloseServiceMux |
| Service mux, `core/service_mux.go` | table of services, each with a KcpMux made on first use; queue of direct packets | Input, OpenStream, AcceptStream, Read, CloseService, StopAcceptingService, Close |
| KcpMux, `kcp/kcp_mux.go` | stream table, accept queue, counter of active streams, flags | Open, Accept, Input, stream Close, StopAccepting, Close, timers |
| KCP connection, `kcp/conn.go` | the KCP session of a stream over a virtual packet conn | Read, Write, Input, Drain, Close, deadlines |
| Timer queue, `internal/timer` | heap of deadlines | schedule, fire, stop |
| Listener and Conn, `giznet/giznoise` | event queue, table of established Conns; a Conn's smux and closed flag | Accept, Dial, Conn.Close, service listeners |
| HTTP over a service, `giznet/gizhttp` | one HTTP server per service listener | Serve |
| WebRTC transport, `giznet/gizwebrtc` | pion peer connections behind the same interfaces | Accept, Dial, Close |
| Serving a peer, `pkgs/gizclaw/peer_service.go`, `peer_manager.go`, `server.go` | the table of peers online | ServeConn, SetPeerUp, SetPeerDown, RefreshPeer, the Offline event |
| Agent host and peer run, `services/runtime/{agenthost,peerrun}`, `peer_realtime_source.go` | the run of each peer and its status; the agents of all workspaces with the number of runs attached to each; the lease of each workspace; the selection of each peer | Reload, Stop, Push; SetRunAgent, ResolveRunAgent, ActivateRunAgent |
| Peer records, `services/runtime/{peer,peerresource}` | records and their indexes in a key-value store | register, approve, block, delete |
| Gameplay, `services/gameplay/{wallet,pet,petspecies,reward,badge}` | balances and transactions in SQL; pets, rewards and badges in a key-value store | AddTransaction; adopt, feed, wash, play, rename, delete; claim |
| Social, `services/social/{contact,friend,friendgroup}` | rows of both friends; groups, members, the groups of each peer, invite tokens, messages; a workspace and access bindings for each conversation | add, delete; create, invite, join, appoint, remove, delete, send |
| System, `services/system/{acl,publiclogin,resourcemanager}` | policy bindings, login sessions, declared resources | authorize, login, apply |
| Firmware, `services/device/firmware` | release channels and artifacts | upload, release, rollback |
| AI configuration, `services/ai/*` | records of models, voices, workspaces, credentials | CRUD with validation |
| GenX, `pkgs/genx`, and agents, `pkgs/agent` | streams between model providers | generate, transform |
| Stores and buffers, `pkgs/store/*`, `pkgs/buffer` | key-value, object, graph and vector stores; blocking buffers | get, put, list; read, write, close |
| Audio, `pkgs/audio/*` | codecs, mixers, device I/O | encode, decode, mix |
| CLI, generated APIs, UI: `cmd/`, `pkgs/gizclaw/api/*` | configuration | wiring |

### 1.2 How they interact

A datagram is read by the UDP node's I/O loop and handed both to a decrypt
worker (there are several) and to the ordered receive loop, which waits for the
worker's result. Handshake datagrams are handled completely by the worker.
Transport datagrams are decrypted by `Session.Decrypt` and delivered by the
receive loop to the peer's `ServiceMux.Input`, which creates the service's
`KcpMux` when it has to and calls `KcpMux.Input`. A close notice makes the
receive loop take the peer's service mux away and close it: that is one *mux
generation*; the next data or the next Connect makes the next one.

Changes of a peer's state are reported through a callback that puts a
`PeerEvent` on the listener's bounded queue, or drops it. `Listener.Accept`
turns an Established event into a `Conn`; the server starts a *serving run* for
every Conn Accept returns: it registers the peer as online, runs one accept
loop for each service, and when all loops are done marks the peer down and
closes the Conn. A loop whose mux generation is closed asks the Conn for the
peer's current one. An Offline event makes the server mark the peer down too.
The manager calls `RefreshPeer`, which dials the peer over the Conn it has for it.

A connected peer has an agent host `Service`. Its `Reload` is called by an RPC and
by the realtime source, when the peer pushes input and no run takes it; it reads
the peer's selection, opens the agent of the selected workspace in a registry that
all peers share, and starts a goroutine that consumes the agent's output. Closing
the connection stops the run.

Pets and rewards move points through `wallet.AddTransaction` and keep their own
records in another store. Friends and groups own a workspace each and write access
bindings for their members. None of these stores share a transaction.

### 1.3 What is hard

* Critical sections of two mutexes (`peer.mu`, `u.mu`) that one handler takes one
  after the other, and several handlers at once (`core/udp.go`).
* State read under a lock and used after it: whether a session is current, a
  service's mux, a Conn's smux.
* Datagrams lost, duplicated, reordered and damaged, at every layer below KCP.
* Timeouts that race the answer: the handshake's five seconds, the close ack, the
  idle timers of a stream.
* A bounded event queue that drops, on the only path that creates Conns.
* Objects that outlive one another: serving runs, Conns, mux generations, sessions.
* Packets with two owners, in pools, through channels that fill up or close.
* Goroutines that wait for one another in a ring: the receive loop answers frames
  through the send loop, and Close waits for both.
* Overlapping Reloads of one peer, and an agent that several peers share.
* A decision and its writes in two or more stores: other calls, failures and
  crashes come in between.
* Wrap-around: the nonce counter, the stream ids, the bitmap of the filter, sums
  of points.

### 1.4 What correct means

* *Session*: no nonce is used twice, no plaintext is returned twice, and no
  datagram within the window is refused that was not seen.
* *UDP node*: a live session is routed, a handshake completes at most once,
  Connect returns, its success means a routed session, and the other end keeps or
  is about to install its counterpart, unless the handler that answered failed or
  two later sessions have displaced it there.
* *KcpMux*: the counter is exact, a queued stream can be accepted, Close and
  StopAccepting leave nothing behind, nobody waits for ever.
* *Service mux*: one mux per service, and none escapes Close, CloseService or
  StopAcceptingService.
* *Serving*: one active Conn per peer, no generation is forgotten with its
  streams, a peer that is gone ends up released, a peer that is there is reachable.

* *Packet pipeline*: both directions are queues that may lose but never reorder or
  repeat; packets are neither shared nor leaked while the node runs; a nil from sendPayload means
  written; every call returns, also when the node is closed.
* *Agent host*: an agent lives exactly as long as a run is attached to it; what a
  stopped run or a closed connection leaves behind is released. (A run that
  overlapping Reloads drop is released only when its input ends: section 6.)
* *Gameplay*: the balance is the sum of the transactions; what is stored was paid
  for, and a refused call costs nothing.
* *Social*: the records of one relation agree once no call is under way, whichever
  write failed of those that the handlers take back; no peer's call takes an
  owner's role by a role it read before another call made the owner, and none takes
  it from an owner of longer standing. Administrators may.

`PROJECT.json` lists the hazards behind this section at their source lines.

## 2. Plan

Written so far, in the order of importance:

1. `ReplayFilter`, `NoiseSession`: the transport session; proofs in
   `NoiseSessionProofs`.
2. `UDPPeer`: handshakes, session rotation, index table, between two nodes.
3. `KcpMux`: one end of the stream multiplexer.
4. `ServiceMux`: the services of one peer, over KcpMux as an abstract object.
5. `PeerServing`: composes mux generations, listener, Conns, serving runs and the
   online table for one peer.
6. `OrderedQueue` and `PacketPipeline`: what the packet pipeline of the UDP node
   promises, and the pipeline, which is shown to implement it in both directions.
7. `AgentHost`: the agent hosts of two peers, the registry they share, and peerrun.
8. `Gameplay`: wallet, pets and rewards of one peer.
9. `Social`: a friendship and a group.

All of them have their proofs: see section 5. What the hazards without a property
would need is a form of each formula of section 6 that the code does satisfy.

Not begun: two KcpMux ends over a reordering channel, implementing an
abstract stream; the bounded queue of a KCP connection; access control as
operators against a reference definition; login sessions, firmware, buffers.

## 3. Modules and their correspondence with the code

In every module a step is one critical section, or one access outside the
locks, of one goroutine; a goroutine between two of its steps is a record with a
`pc` and the values it has read. Operators commented as a "wrong form, for the
mutation runs" or as a "mutant" are never used by a specification: they state
plausible bugs, and each property is known to fail when one of them replaces the
right form.
`PROJECT.json` maps each definition to its lines.

### ReplayFilter (`noise/replay.go`)

Pure operators. The bitmap is a function from words to sets of bits, with
`WordBits` (64) and `Words` (32) as constants; `slideWindow` shifts by whole
words and carries between words as the code does.

### NoiseSession (`noise/session.go`), extends ReplayFilter

One direction between two ends. `Encrypt` is two steps (the state under the read
lock; the atomic increment, the test against MaxNonce and the seal), `Decrypt`
three (state; `CheckAndUpdate`; opening). `wire` keeps every datagram, and a
worker may take any of them any number of times, or a damaged one with any
counter. The ciphers are abstract: an intact datagram opens, a damaged one does
not. `calls`, `consumed` and `delivered` are history variables. The counter
wraps at `NonceSpace` (2^64).

### UDPPeer (`core/udp.go`)

Two nodes. `Connect` is split as `initiateHandshake` is: set Connecting, emit,
draw an index and register it as pending, send, then wait for the response or the
timer, whose case removes the entry, sets Failed and reports. `HandleHandshakeInit`
ends when the response is on the wire (`"sent"`): the handler then makes its session
(`ResponderSession`) or returns an error (`ResponderNoSession`), while the initiator
may be using the session already. `ResponderSession` and `HandleHandshakeResp` are
followed by `InstallSession`
(the `peer.mu` section that rotates current and previous), `RegisterSession` (the
`u.mu` section on the index table) and the report, by any number of workers. A
close notice is decoded by a worker (`DecryptTransport`, which notes whether its
session is current) and applied by `DeliverClose`. Datagrams stay on `wire`:
loss, duplication and reordering need no actions of their own. Histories:
`installed` (sessions made current), `after` (which was made current after which)
and `abandoned` (sessions given up after the response).

### KcpMux (`kcp/kcp_mux.go`)

One end; the other end and the network are any sequence of frames. Entries hold
queued, open (the conn), localClose and the ack channel. `Input` is two steps,
because the entry is looked up and then used. `closeStream` is: mark, drain and
send CLOSE, wait for the ack, the timer or the mux's closing. `Close` closes the
streams it finds one by one and then empties the table.

### ServiceMux (`core/service_mux.go`)

Service objects and KcpMux objects are numbered as they are made. An operation
is: find or create the service object, look at its mux outside the lock, create
the mux under the lock (with the checks of the second look), use it. `Close` sets
the flag, signals, collects the objects and closes their muxes one by one.

### PeerServing (`core/peer.go`, `core/udp.go`, `giznet/giznoise`, `pkgs/gizclaw`)

One peer. `gens[g]` says that the g-th ServiceMux is open; `peer.mux` is the
current one. The receive loop, the handshake worker, Accept, Dial, RefreshPeer,
each serving run and each accept loop of a run are processes. `Emit` is the
callback: mark the peer down on Offline, then queue or drop. `lmu` is modelled
because `Conn.Close` holds the listener's mutex over several steps. Streams
are not: a loop that accepts one stays where it is (`LoopStream`).

### OrderedQueue

Not code: the abstract specification. Items are numbered as they arrive; one that
arrives enters the queue or is refused, the oldest one leaves the queue or is lost.

### PacketPipeline (`core/udp.go`)

One node. Inbound: the read loop takes one to `BatchSize` datagrams, counts each
packet for two owners and tries the output and then the decrypt channel; workers
decrypt in any order; the receive loop takes packets in order, waits for each to be
*ready* and delivers it, which may make it send a reply itself. Outbound:
`sendPayload`, called by application goroutines and by the receive loop (`Sender`),
queues the packet for the send loop, then for the workers that encrypt, then waits;
the send loop waits for each packet in order, writes it and reports. `Close` is its
steps: signal, close the socket, wait for the node's goroutines, close the channels.
`Inbound` and `Outbound` map the state to OrderedQueue: the queue is the channel
with the packet the loop holds in front.

### AgentHost (`agenthost`, `peerrun`, `peer_realtime_source.go`, `peer_conn.go`)

`Reload` runs by a caller: read the selection, set the status, swap the old runtime
out, signal it and wait (or give up, when the caller's context is cancelled), open
the input and the agent, read and write the selection, install the runtime, set the
status. A run is a record with its input, its attachment to an agent and its
consumer. `entry` is the registry, `lease` the coordinator. Closing the connection
(`PeerConn.close`) is Stop and the closing of the source. An agent may fail at any
time and its input may end.

### Gameplay (`wallet`, `pet`, `reward`)

One peer, overlapping calls. A call is a record of where it is (`pc`), of the copy
it holds of a pet, of what it has to pay (`due`) and of its result. `AddTransaction`
is one step: it runs in a SQL transaction; `GetWallet` creates the row by itself, in
two. The agent's decision is any member of a small set. Any store may fail
(`StoreFails`) and a crash ends all calls. `ledger` is the transactions table.
Sums wrap as int64 does, at a small constant.

### Social (`friend`, `friendgroup`, parts of `ai/workspace` and `acl`)

Peers, one friendship, one group. `db` holds the stores; a call is a record
with the step it is at, what it found and what it listed. Every step is one read or
one write of one store, in the order of the handler, with the handler's rollback as
further steps. An administrator's call (`req.admin`) goes through the steps of the
peers' call without the tests of roles, as `AdminPutFriendGroupMember`,
`AdminDeleteFriendGroupMember`, `AdminCreateFriendGroup`, `AdminDeleteFriendGroup` and
`AdminPutFriendGroupInviteToken` do: it appoints, demotes and removes owners. A
group may start with any members and roles, and an administrator's has no owner at
first. A write may fail (`Fault`), at most `MaxFaults` times. Histories
remember whether calls about the same subject have overlapped (`clash`), whether a
write of a deletion or of a rollback has failed (`unfinished`), and which calls were
under way when another call made their subject an owner (`overtaken`). A deletion stops
at a write that fails, and a rollback drops the error of a step it cannot take. The handlers provide
for none of this, and the properties (`Orderly`) claim nothing afterwards, except
`OwnerStays`, which holds whatever fails.

### MC modules

The modules named `MC...` only name the small sets and the symmetries. Symmetry is
used for interchangeable workers, goroutines, calls and peers, and never in a run
that checks a liveness property.

## 4. Runs

`tlc -config <cfg> <module>`; each ends within five minutes with two workers.

| Run | Configuration | Checks | Distinct states |
| --- | --- | --- | --- |
| `noise_session` | `NoiseSession.cfg` | `TypeOK`, `NonceFresh`, `AtMostOnce`, `FilterExact` | 1.80 million |
| `udp_peer` | `UDPPeer.cfg` | `TypeOK`, `LiveIndexRouted`, `HandshakeEndsOnce`, `ConnectedIsUsable`, `CounterpartKept` | 1.19 million |
| `udp_connect` | `UDPConnect.cfg` | `ConnectReturns` | 0.20 million |
| `kcp_mux` | `KcpMux.cfg` | `TypeOK`, `ActiveExact`, `QueuedIsAcceptable`, `ClosedIsEmpty` | 2.75 million |
| `kcp_mux_live` | `KcpMuxLive.cfg` | `WaiterIsWakeable`, `CallsReturn` | 0.27 million |
| `service_mux` | `ServiceMux.cfg` | `TypeOK`, `NoOrphanMux`, `GoneServiceStaysGone`, `ReadUnblocked` | 0.10 million |
| `peer_serving` | `PeerServing.cfg` | `TypeOK`, `OneActiveConn`, `ForgottenGensClosed` | 2.4 million |
| `offline_settles` | `OfflineSettles.cfg` | `OfflineSettles` | 0.70 million |
| `packet_pipeline` | `PacketPipeline.cfg` | `TypeOK`, `PacketsOwned`, `SentMeansWritten`, `InOrder`, `CallsSettle` | 0.12 million |
| `agent_host` | `AgentHost.cfg` | `TypeOK`, `AttachmentsSound`, `CallsSettle` | 0.34 million |
| `gameplay` | `Gameplay.cfg` | `TypeOK`, `BalanceIsLedger`, `PointsAreSettled`, `CooldownAfterRecord` | 0.35 million |
| `social` | `Social.cfg` | `SocialTypeOK`, `FriendsConsistent`, `GroupConsistent`, `OwnerStays` | 1.27 million |

Each property is a conjunction of what belongs together; its comment in the module
says what it means for the code.

**noise_session.** Two encrypting and two decrypting workers, a window of four
bits in two words (so that shifts within a word, across words and beyond the
window all occur), six counter values and six calls: every nonce the counter can
yield is drawn and the exhaustion error is reached. No nonce is sealed twice, no
plaintext is returned twice, and the bitmap agrees with the set of consumed
nonces at every moment.

**udp_peer.** One node connects repeatedly; two workers at each end race over
duplicated initiations and over responses intact and damaged, and the timeout
races a response a worker has already taken; a close notice may end the peer's
mux in between. Four indices allow three sessions at the responder, which is what
it takes to push a session out of *previous* while its handler has not registered
it yet, or two complete handshakes in a row. `CounterpartKept` compares the live
sessions of the two ends: a session that a node owes to its own Connect can be opened
at the other end (kept there as current or previous, and routed or about to be), or
the answering handler is between its response and the installation. Two cases are
excepted, and both occur: the handler failed after the response (`udp.go:897-912`),
and two sessions were made current since, as happens when initiations are delivered
again (section 6).

**udp_connect.** Two Connect calls of one node, with a close notice and damaged
responses. The liveness property says that no call hangs, whatever is lost.

**kcp_mux.** Two ids on each side (the id search wraps and skips ids in use) and a
backlog of one (it fills). Frames of all types, valid or not, may arrive at any time.

**kcp_mux_live.** One id on each side, one goroutine of each kind, a backlog of two,
which holds the same id twice: a stream that was closed and opened again meets the
waiter of its predecessor.

**service_mux.** Two goroutines with every operation, besides Close: enough for
two first uses of one service to race, and for a first use to race a close of
the service or of everything. Two service objects allow the service to be
made again.

**peer_serving.** Two generations, two Conns and two serving runs, an acceptor, a
dialer and a manager. Two of each are what it takes for an object to meet its
successor. The queue holds one event and overflows.

**offline_settles.** A third generation, and a queue of one that overflows at
once; without dialers, which would bring the peer back.

**packet_pipeline.** Two workers on each path, so that they overtake one another;
every channel can fill, and a batch is larger than the channel it goes to. The
receive loop answers frames. Close may come at any time. `InOrder` is the refinement
of `OrderedQueue`, once for each direction.

**agent_host.** Two peers and one workspace, which is what sharing an agent takes;
one peer has two goroutines that reload, one of which can be cancelled, and its
connection is closed; two runs for each of them may exist at once.

**gameplay.** Four calls of any kind about one pet: enough for two writers of the pet
with a deletion and an adoption around them, and for a claim after a claim that
races a third. Sums wrap at four points; rewards may be recorded before the first
call.

**social.** Two calls, any two of the operations, one after the other or at once,
either from nothing or from a group with any roles; at most two writes fail,
anywhere: one that a handler has to take back, and one of what takes it back, or one
in each call. The two peers have any roles, both may be owners, and either or an
administrator may call; two
calls are what it takes for an operation to meet another half way: a role is read,
an administrator makes the member an owner, and the role is written. A deletion that
meets an addition of the same friendship is `mixed` (see `Orderly`). `FriendsConsistent`
bounds the bindings that are left between strangers by the writes that failed.

Deadlock is not checked: the bounds stop every model, and the programs may be
idle.

### Fairness

Weak fairness, only on steps of goroutines that are running and of timers that
are armed: the Go scheduler runs every runnable goroutine, and the timers of
Connect (five seconds) and of the close ack fire. A `select` with a ready channel
and a running timer proceeds through one of them. Nothing is assumed of the peer,
of the network, of the application, or of the idle timers.

In `PacketPipeline` the node's goroutines are fair, and so are a sendPayload and a
Close that have begun; a worker or loop that finds both its channel and the close
signal ready may take either. No datagram has to arrive, nobody has to send or to
close. In `AgentHost` Reload, Stop and the clean-up after a run are fair; an agent
whose input is closed ends its output, and nothing else makes it end.

`OfflineSettles` has its own premise: the peer stays offline. (Its other conjunct
excludes behaviours in which the bound on generations, which the code does not
have, stops a goroutine.)

## 5. Proofs

Each component of the transport, and the agent host, has a module `<Component>Proofs`;
the two application services, `Gameplay` and `Social`, which share no state, have
`ServicesProofs` together. `tlapm` checks each to the last leaf. Every theorem is `Spec => ...`, so it holds of the fair
specifications too, and it holds for every value of the constants that satisfies
the named assumption of the module: any number of peers, goroutines, workers,
packets, streams and attempts, any capacity of the queues, any number of calls and
of failing writes. The bounds in the
guards stay in the models, but the theorems hold for each value of them.

| Module | Theorems (property) |
| --- | --- |
| `NoiseSessionProofs` | `TypeCorrect` (`TypeOK`), `FilterIsExact` (`FilterExact`), `DeliveredAtMostOnce` (`AtMostOnce`), `NonceIsFresh` (`NonceFresh`) |
| `UDPPeerProofs` | `TypeCorrect`, `SessionsRouted` (`LiveIndexRouted`), `HandshakesEndOnce` (`HandshakeEndsOnce`), `ConnectedUsable` (`ConnectedIsUsable`), `CounterpartsKept` (`CounterpartKept`) |
| `KcpMuxProofs` | `TypeCorrect`, `CounterIsExact` (`ActiveExact`), `QueuedStreamsAcceptable` (`QueuedIsAcceptable`), `WaitersWakeable` (`WaiterIsWakeable`), `ClosedMuxEmpty` (`ClosedIsEmpty`) |
| `ServiceMuxProofs` | `TypeCorrect`, `MuxesNeverOrphaned` (`NoOrphanMux`), `GoneServicesStayGone` (`GoneServiceStaysGone`) |
| `PeerServingProofs` | `TypeCorrect`, `OneConnActive` (`OneActiveConn`), `GensNotForgotten` (`ForgottenGensClosed`) |
| `PacketPipelineProofs` | `TypeCorrect`, `PacketsAreOwned` (`PacketsOwned`), `SentPacketsWritten` (`SentMeansWritten`), `PipelineInOrder` (the refinement `InOrder`) |
| `AgentHostProofs` | `TypeCorrect`, `AttachmentsHold` (`AttachmentsSound`) |
| `ServicesProofs`, on `Gameplay` | `TypeCorrect`, `BalanceAddsUp` (`BalanceIsLedger`), `RecordsAreSettled` (`PointsAreSettled`), `CooldownKept` (`CooldownAfterRecord`) |
| `ServicesProofs`, on `Social` | `SocialTyped` (`SocialTypeOK`), `FriendsStayConsistent` (`FriendsConsistent`), `GroupStaysConsistent` (`GroupConsistent`), `OwnerKept` (`OwnerStays`) |

In every module except the first an inductive invariant `IInv` (for `Social`
`SocialInv`) collects what the properties rest on: `Init => IInv`, `IInv /\ [Next]_vars => IInv'`, `IInv =>` the
property. TLC has checked each `IInv` as an invariant on the instances of
section 4. The step has a lemma for each action, or for each group of actions
that change the same state; lemmas about what a step leaves alone
carry the rest.

### Assumptions

Most say only that bounds are natural numbers and capacities positive. The others:

* `NoiseSession`: positive word size and number of words, at least three counter
  values. `NonceIsFresh` also needs `MaxCalls <= NonceSpace`: see `NonceFresh` in
  section 6.
* `UDPPeer`: `Other` is an involution: each node is the other one of its other one.
* `KcpMux`: the number of stream ids is even and positive, as 2^32 is: an id that
  wraps keeps its parity.
* `ServiceMux`: there is a service. `AgentHost`: there are a peer and a
  workspace, and callers that reload are no peers. `Gameplay`: there is a pet id.
* `PacketPipeline`: the names of the receive loop and of Close are no caller's, and
  neither is "none". `Gameplay`: "before", which stands for what was stored before the
  first call, is no call. `PeerServing`: dialers are not the manager.
* `Gameplay`: amounts that the agents decide are within the width of the sums,
  as an int64 is; the cost of an adoption and the opening balance are positive
  amounts, as are the cooldown and the points of a level. `Social`: the peer who makes
  the group is a peer, and the friends are two.

### The arguments

*NoiseSession.* `Exact(rf, recorded)` says that the bit at distance p behind
`maxNonce` is set exactly when that nonce was recorded, and that nothing higher
than `maxNonce` was. `SetBitSeen` and `SlideSeen` say
what setting a bit and sliding do to the bit at a distance; the second holds the
argument about words and carries, which rests on `DivModUnique`. From these,
`CheckExact` (the check accepts what was not recorded and is within the window)
and `UpdateExact` (an accepted update keeps the filter exact).
`AtMostOnce` is not inductive: it says nothing of workers
that have passed the filter and not delivered yet. `RecvInv` adds that the filter
is exact for `consumed`, that a call's datagram is unique, that an intact datagram
in a worker's hands was sent, and that the right to deliver a call is held once:
by one worker past the filter or by the delivery itself, and its nonce is consumed
either way. Two workers with copies of one datagram are then told apart by
`CheckAndUpdate`, which is one step. `SendInv`: until the counter has wrapped, it
equals the number of calls, so that a datagram's nonce identifies its call.

*UDPPeer.* Nothing about the tables is inductive without the handlers between
`peer.mu` and `u.mu`. `SessionsInv`: an index is used once, and one that has
left the pending table never comes back. `HandlerInv`: a session still to be installed is no
other handler's, and the previous session a handler is about to unregister
is not live. `Routed`: a live session is in the table or a handler is about
to put it there. `CallerInv`: what a done channel holds is about an index that is not
pending any more, and "ok" means installed, and routed if live. `PairInv`
relates the two nodes: a response on the wire is one for a session its sender has
made, is making or gave up, and a session that came of the node's own initiation has a
mirror image of that kind. `RotationInv` follows the rotation: the previous session
came before the current one, and an installed session that is not live has two
installed after it. From the two and `Routed` follows `CounterpartKept`.

*KcpMux.* `EntriesSound`: an entry is queued or active, not both, and has an ack
channel exactly when `closeStream` has begun on it. `ClosersSound`: the same from the side of the
callers. `ActiveExact` counts active entries, and the proof needs what adding
to and removing from a finite set do to its cardinality. Frames looked up and not
applied yet, ids taken from the queue and Close's list are in `InFlight`.

*ServiceMux.* `CloseSweeps`: until Close empties the table every object is the one
of its service in the table; afterwards an object whose mux is not closed is on Close's list,
and no mux is made. `Linked` and `MuxOwned`: goroutines past the lock use the mux of
their object, and a mux has one object.

*PeerServing.* `TableInv` is mutual exclusion by `lmu`, seen from the runs and
loops inside `Conn.Close`: the table's Conn is closed only while one of them holds the
lock, and there is only one. `GenInv`: an open generation is the current one or
some goroutine's `pc` says that it is about to close it; an offline peer has none.

*PacketPipeline.* Inbound, `Apart` says that a packet is at one place of the decrypt
path at most and at one of the output path, and `Fields` gives its reference
count and flags by where it is. Outbound a packet is known by its sender:
`SenderInv` says what a sender waits for while a loop or a worker holds its packet,
and that it returns earlier only once the close signal is up, after which it sends
no more. For the refinement the abstract queue is the channel with the loop's
packet in front; the numbers in it are increasing because a batch carries the
numbers that follow one another (`Numbered`). Each step is shown to be an arrival, a
departure, a loss or a stutter of `OrderedQueue`, for each direction.

*AgentHost.* `RegistryInv` strengthens the property by the release
under way: a run that has removed the entry and not returned the lease is
the only one of its workspace, the entry stays away and the lease is its agent's
until then. This is why `memoryLease.Release` cannot take the lease of a later
agent. `CallerInv`: the run a Reload opens is *private* until it is
installed: no service, and no caller that stops something, has it. Its attachment is
then what the label of the Reload says, although other Reloads of the peer swap,
stop and abandon runs meanwhile. `OwnRuns`: attempts have numbers of
their own. `RunInv`: a consumer that has ended has left `Service.runtime`.

*Gameplay.* `Accounted`: a call has no entry in the ledger before it settles and
exactly one, of the amount due, afterwards. `Carries`: a pet in a call's hands was adopted,
and changed only by calls that ended well and by the one that saves it. `Waited`: what a claim
saw when it passed its check is still stored, and a cooldown old. The balance is
a fold over the ledger; that adding an entry adds its amount to the sum
is an induction over finite sets, done as a search for the smallest counterexample (the
strict subset order on the finite subsets is well founded, so that a nonempty set
of counterexamples has a minimal member).
That the new balance does not wrap unnoticed is `AddTransaction`'s test for a
negative result: the sum of two amounts within the width is exact or negative.

*Social.* `GroupConsistent` and `FriendsConsistent` speak of moments without calls and are
far from inductive. `SocialInv` says what holds at every step in between, in three
layers. The first holds always. `Shaped`: a call at a label is of a kind that gets
there, with the peers and the role that Receive admits and its checks leave.
`FaultsSeen`: a rollback has a failure before it. `ClashKnown`: what `clash` says of any
two calls under way. `Creation`: before a group is made nobody calls it and nothing of
it is stored, and while it is made nobody else calls it. `NotTheOwner`: a peer's call
that is past its test of the role read no owner and keeps no copy of an
owner's record; if its subject is an owner now, another call has made it one since, and
the call is in `overtaken`. Every step that makes an owner is shown to put into
`overtaken` the calls about that peer, and a call that changes a member is shown to be
past its test (`WriterMoves`). From it follows `OwnerStays`, with no assumption on
overlaps and failures.

The second and the third hold while the history is `Orderly`. `FriendInv`: which
bindings an addition has already made, that a deletion still has the rows, and that the
rows stand for the workspace and both bindings when no deletion is half way. `BindInv`:
which bindings there can be at each step of an addition, of its rollback and of a
deletion, and that without friendship and calls on it there are no more than writes
that failed. `GroupInv`:
for each call what it knows of the records of its member (`MemberKnows`: both records
before its first write are what it read, and afterwards what it wrote, and the binding
is there exactly if the member was), of the group it makes (`CreateKnows`) and of the
sweep it is in (`DeleteKnows`: what is left to delete is on its lists); `MembersSettled`: the
two records and the binding of a peer agree unless a call is half way with that peer or
a deletion sweeps. A step of a call is shown to keep its own knowledge label by label
(`BeginsGood`, `WriteGood`, `GrantGood`, `RestoreGood`, `RemoveGood`); another call's knowledge is
kept since `ClashKnown` makes it one about another peer, whose records no step of
this one touches, or the same addition, made twice without a failure, which
writes the same values. At rest no call is half way, and the two properties are what is
left of the invariant.

### Only model-checked

* The liveness properties: `ConnectReturns`, `CallsReturn`, `ReadUnblocked`,
  `OfflineSettles`, and `CallsSettle` of `PacketPipeline` and of `AgentHost`. Fairness and
  ENABLED are out of the prover's reach.

## 6. Formulas the code does not satisfy

The modules also define formulas that come from a comment, a document, a test or
the plain purpose of a function, and that fail in the model as they would in the
code. They are not among the runs; replacing the properties of the named
configuration by the formula shows the behaviour. (Some are action formulas: they
go under PROPERTY.)

Transport:

* `DamageCostsOneNonce` (`NoiseSession.cfg`). A datagram whose counter was damaged
  upwards moves the window before it fails to open; intact datagrams are then too
  old.
* `NonceFresh` with more calls than counter values (`NoiseSession.cfg`, `MaxCalls =
  8`, one encryptor). The counter advances on failed calls, too, and wraps. With 64
  bits this is out of practical reach.
* `NoStaleIndex` (`UDPPeer.cfg`). Three handlers overtake one another between
  `peer.mu` and `u.mu`; one registers an index that another has already retired.
* `EventMatchesState` (`UDPPeer.cfg`). Events are emitted after the lock was
  released, so the last event need not be the last state.
* `OneSessionPerInitiation` (`UDPPeer.cfg`). An initiation that is delivered twice is
  answered twice, with two sessions.
* `CounterpartSurvivesDuplicates` (`UDPPeer.cfg`). An initiation delivered three times
  makes the responder rotate three times; the counterpart of the session that the
  initiator uses is dropped, and what it sends cannot be opened any more. It takes no
  second Connect.
* `ConnectingMeansHandshake` (`UDPPeer.cfg`). An initiation that cannot be sent
  leaves the peer Connecting.
* `CloseOnlyFromCurrent` (`UDPPeer.cfg`). A close notice is decrypted while its
  session is current; a handshake replaces the session; the receive loop then closes
  the mux that serves the new one (`core/udp.go:1321`). A test (`core/udp_test.go:1216`)
  asserts the contrary for a notice that is decrypted after the replacement.
* `NoSendOnClosed` (`PacketPipeline.cfg`). "Now safe to close channels (all writers
  have exited)" (`core/udp.go:1211`): the node waits for its own goroutines, but
  `sendPayload` also runs on those of applications and of KCP. One that has passed its
  test of the close signal, and whose select finds the channel closed meanwhile,
  panics. The liveness property of the run takes such a panic for an end.
* `RemoteActiveBounded` (`KcpMux.cfg`, `AcceptBacklog = 2`, `MaxOpens = 0`). The
  limit is tested when a stream is queued, the count grows when it is accepted.
* `ClosedConnIsReplaceable` (`PeerServing.cfg`). A Conn with a stale generation is
  closed: `CloseServiceMux(c.smux)` (`giznoise/conn.go:76`) leaves the newer mux open,
  whose event an Accept that returned the old Conn has already consumed. New data
  finds an open mux, emits nothing, and no Conn is ever made: "new service data can
  create the next service mux/Conn generation"
  (`giznet/integration_listener_conn_service_test.go:229`).
* `ServedIsOnline` (`PeerServing.cfg`). The deferred `SetPeerDown` of an old serving
  run removes the entry of the run that replaced it.
* `GonePeerIsDown` (`PeerServing.cfg`). An Established event handled after the peer's
  close notice makes Accept create a new generation and the server register the
  peer.

Agent host and peer run:

* `BusyMeansRunning` (`AgentHost.cfg`). Between the removal of the registry's entry
  and the return of the lease (`runtime_registry.go:62-71`) another peer's Reload
  finds no agent to join and the lease taken: "workspace already has a running agent",
  while none is running any more.
* `SelectionKept` (`AgentHost.cfg`, with two workspaces). ActivateRunAgent writes the
  record it has read back, over a selection stored in between.
* `QuietStatusIsFinal` (`AgentHost.cfg`). A failing run looks whether it is the
  current one and reports its error afterwards; the order of the statuses is not
  that of the runs. The swap in Reload drops what it swaps out (`_ = s.swap(next)`,
  `runtime.go:142`): of two Reloads that race, the run of the first is
  stopped by nobody, and `CallsSettle` holds of it only once its input is closed.

Gameplay:

* `FailedClaimIsFree` (`Gameplay.cfg`). "Failed reward claims do not mutate wallet
  state" (`docs/wallet.md:255`): the points are credited before the reward is saved,
  and stay when that fails.
* `RewardsAreSpaced` (`Gameplay.cfg`). Two claims that overlap both pass the cooldown.
* `AdoptedPetIsKept`, `DeletedStaysDeleted` (`Gameplay.cfg`). Two adoptions of one id
  both charge and the second overwrites the first; an action, or a rename, that has
  read a pet writes it back after its deletion.
* Not a formula, but built into the model: `applyLifeDelta` (`pet/server.go:379`)
  takes a pet whose life values are all zero for one without values and starts from
  the defaults again.

Social:

* `BelongsResolve` (`Social.cfg`). A join that comes after DeleteFriendGroup has listed
  the members leaves its record behind, and so does a deletion broken off by a failing
  store: ListFriendGroups of that peer fails from then on.
* `OwnerCanRetry` (`Social.cfg`). The members are deleted first; if a later write
  fails no peer is left with the right to delete the rest. An administrator can.
* `OwnerOutlivesCalls` (`Social.cfg`). "social: cannot change owner role"
  (`friendgroup/server.go:482`) is decided on a record read before the write: a
  member's role is read, an administrator makes the member an owner, and the first call
  writes its role over the new one. `OwnerStays` states what remains: only a call that
  began before the promotion does this, no later one.
* `FriendsConsistent` without `Orderly` (`Social.cfg`). The rollback of AddFriend drops the
  error of the step that removes the workspace: two peers that are not friends keep one.
* `NoBindingLeft` (`Social.cfg`). When the second grant of AddFriend fails the workspace
  is removed and the first binding stays: the one binding for one failed write that
  `FriendsConsistent` grants.
* `FailedPutKeepsRole` (`Social.cfg`). `writeMember` changes the record it keeps for the
  restoration (`friendgroup/server.go:837-842`): a failed change of a role is restored to
  the new role.

## 7. What is left out

* Cryptography: the handshake's key exchange and the ciphers. Plaintext mode, in
  which damage is not detected.
* Collisions of the random 32-bit session indices: indices are fresh.
* `Listener.Close`, `Conn.Read`/`Write`, the `ReadFrom` path of the UDP node, the KCP
  protocol (a third-party library), its connection wrapper and the timer queue.
  `virtualPacketConn.Input` blocks the receive loop while the queue of one stream is
  full; whether that queue drains is up to the library.
* Data that follows the handshake's response before the responder has installed the
  session is dropped by the node; KCP sends it again.
* Frames a KcpMux sends, except that sending may fail: a matter for a two-ended
  model. A local id that is reused between the lookup and the use of one Input
  needs 2^31 opens meanwhile.
* In `PeerServing`: the accept loops that end without closing the Conn (RPC, events,
  packets); one loop of the other kind is modelled. `RefreshPeer` reads the Conn's
  fields in one step. `OpenServiceMux`, called by tests only.
* In `AgentHost`: what agents do, history, recall and memory queries, output tracks,
  stored status records, and the errors of closing an agent's input and output, which
  `stop` returns when it has waited and which end the Reload or Stop around it
  (`runtime.go:457-461`): closing does not fail in `StopWait`. In `Gameplay`: lists and queries, the token balance, which
  moves as the points do, pet species and badges. In `Social`: messages and their
  assets, lists, contacts, the clock of tokens (a token may expire at any time),
  renames (`putFriendGroup` reads the record of the group and writes it back, over a
  deletion that may come in between), and `AdminApplyFriendGroup`, which makes a
  group under an id of the client's choice.
* Overlapping calls about one friendship or one member of a group (but for the same
  addition made twice), joins during the deletion of a group, and failing writes of
  deletions and rollbacks: they are in the model, the handlers do nothing about
  them, and the consistency properties of `Social`, with their theorems, claim
  nothing after them (`Orderly`). `OwnerStays` does.
* What no property follows: the place of the window after damaged datagrams
  (`FilterExact` takes them for recorded), a dropped run whose input stays open, the
  content of a pet that is written over a newer copy.
* `core/conn.go`, `kcp/service.go`: used by tests only.
* Peer records, access control, login sessions, firmware, WebRTC, the resource manager,
  buffers: not modelled yet; they are validation and single-record stores for the
  most part.
* Most of the repository's lines are out of reach of a model of this kind: generated
  API code is more than a third of them, and adapters of model providers, audio, CLI and
  UI most of the rest. The models cover the parts in which steps of several actors
  meet; the share of lines they map is small for that reason.
