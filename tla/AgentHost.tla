------------------------------ MODULE AgentHost ------------------------------
(***************************************************************************)
(* The agents that serve the peers (services/runtime/agenthost).           *)
(*                                                                         *)
(* Every connected peer has a Service with at most one current runtime.    *)
(* Reload stops the current runtime and starts another one for the         *)
(* workspace selected in the peer run store (peerrun/server.go); it is     *)
(* called by RPC handlers and by the goroutine that finds no open input for*)
(* a chunk.  Closing the PeerConn calls Stop and closes the input source.  *)
(*                                                                         *)
(* The agents of the workspaces are shared by all peers: RuntimeRegistry   *)
(* counts attachments, MemoryCoordinator holds a lease per workspace.  The *)
(* last release removes the registry's entry under its lock and gives the  *)
(* lease back after unlocking.                                             *)
(*                                                                         *)
(* A run is one attempt of Reload: the input it opens and, later on, its   *)
(* attachment, output and consumer goroutine.                              *)
(***************************************************************************)
EXTENDS Naturals, FiniteSets

CONSTANTS Peers,
          Workspaces,
          Reloaders,    \* goroutines that call Reload
          PeerOf,       \* reloader -> its peer
          Cancellable,  \* reloaders whose context may be cancelled (RPC)
          Pushers,      \* reloaders that call Reload when input is missing
          Closing,      \* peers whose PeerConn may be closed
          First,        \* peer -> the workspace selected at the start, if any
          MaxRuns,      \* bound: attempts of all Reloads
          MaxSelects    \* bound: calls of SetRunAgent

ASSUME AgentHostAssumption ==
  /\ MaxRuns \in Nat /\ MaxSelects \in Nat
  /\ PeerOf \in [Reloaders -> Peers]
  /\ First \in [Peers -> Workspaces \cup {"none"}]
  /\ Cancellable \subseteq Reloaders /\ Pushers \subseteq Reloaders
  /\ Closing \subseteq Peers /\ Peers \cap Reloaders = {}
  /\ Peers # {} /\ Workspaces # {}

Run == 1 .. MaxRuns
None == 0
NoWorkspace == "none"

\* The goroutine that closes the PeerConn of p is p itself.
Caller == Reloaders \cup Closing
Of(c) == IF c \in Closing THEN c ELSE PeerOf[c]

VARIABLES
  runAgent,    \* peer -> its PeerRunAgent record in the store
  runtime,     \* peer -> Service.runtime
  status,      \* peer -> Service.status
  source,      \* peer -> the run whose input peerRealtimeSource.current is
  run,         \* run -> its fields
  runs,        \* attempts so far
  entry,       \* workspace -> the registry's workspaceRuntime
  lease,       \* workspace -> the run that opened the agent holding the lease
  pc,          \* caller -> what it does next
  sel,         \* caller -> the selection Reload works for
  cur,         \* caller -> the run it is to open
  prev,        \* caller -> the run it stops
  record,      \* caller -> the PeerRunAgent record it is about to write
  selecting,   \* peer -> the record SetRunAgent is about to write
  selects      \* calls of SetRunAgent so far

storeVars == <<runAgent, selecting, selects>>
serviceVars == <<runtime, status, source>>
registryVars == <<entry, lease>>
callVars == <<pc, sel, cur, prev, record>>
vars == <<storeVars, serviceVars, run, runs, registryVars, callVars>>

-----------------------------------------------------------------------------
Selection == Workspaces \cup {NoWorkspace}
RunAgent == [active : Selection, pending : Selection]
NoRecord == [active |-> NoWorkspace, pending |-> NoWorkspace]
Status == {"stopped", "starting", "running", "stopping", "error"}

\* att: the attachment to the workspace agent; "dropping" between the removal
\* of the registry's entry and the return of the lease.  agent: the run that
\* opened the agent this run is attached to.
RunFields ==
  [peer : Peers, ws : Workspaces, input : {"open", "closed"}, cancelled : BOOLEAN,
   att : {"none", "held", "dropping", "released"}, agent : Run \cup {None},
   consumer : {"none", "running", "error", "closing", "releasing", "done"}]
\* A run that has not begun: whose it is does not matter.
NoRun ==
  [peer |-> CHOOSE p \in Peers : TRUE, ws |-> CHOOSE w \in Workspaces : TRUE, input |-> "closed",
   cancelled |-> FALSE, att |-> "none", agent |-> None, consumer |-> "none"]

NoEntry == [agent |-> None, refs |-> 0]

Init ==
  /\ runAgent = [p \in Peers |-> [active |-> NoWorkspace, pending |-> First[p]]]
  /\ selecting = [p \in Peers |-> NoRecord]
  /\ selects = 0
  /\ runtime = [p \in Peers |-> None]
  /\ status = [p \in Peers |-> "stopped"]
  /\ source = [p \in Peers |-> None]
  /\ run = [r \in Run |-> NoRun]
  /\ runs = 0
  /\ entry = [w \in Workspaces |-> NoEntry]
  /\ lease = [w \in Workspaces |-> None]
  /\ pc = [c \in Caller |-> "idle"]
  /\ sel = [c \in Caller |-> NoWorkspace]
  /\ cur = [c \in Caller |-> None]
  /\ prev = [c \in Caller |-> None]
  /\ record = [c \in Caller |-> NoRecord]

Goto(c, l) == pc' = [pc EXCEPT ![c] = l]
Return(c) ==
  /\ pc' = [pc EXCEPT ![c] = "idle"]
  /\ sel' = [sel EXCEPT ![c] = NoWorkspace]
  /\ cur' = [cur EXCEPT ![c] = None]
  /\ prev' = [prev EXCEPT ![c] = None]
  /\ record' = [record EXCEPT ![c] = NoRecord]
SetStatus(p, st) == status' = [status EXCEPT ![p] = st]

-----------------------------------------------------------------------------
(* RuntimeRegistry and MemoryCoordinator                                   *)

\* Mutant of Release: the last one does not give the lease back.
ReleaseKeepsLease(r, R) ==
  LET w == run[r].ws
      last == entry[w].agent = run[r].agent /\ entry[w].refs = 1
  IN  IF run[r].att = "held"
      THEN /\ run' = [run EXCEPT ![r] = [R EXCEPT !.att = "released"]]
           /\ entry' = [entry EXCEPT ![w] =
                IF @.agent # run[r].agent THEN @
                ELSE IF last THEN NoEntry ELSE [agent |-> @.agent, refs |-> @.refs - 1]]
      ELSE run' = [run EXCEPT ![r] = R] /\ UNCHANGED entry

\* releaseOnce, up to the unlock of the registry: the run's attachment is
\* dropped and the entry goes with the last one.  R gives the run's other new
\* fields.  A second release waits for the first one (sync.Once).
Release(r, R) ==
  LET w == run[r].ws
      last == entry[w].agent = run[r].agent /\ entry[w].refs = 1
  IN  IF run[r].att = "held"
      THEN /\ run' = [run EXCEPT ![r] = [R EXCEPT !.att = IF last THEN "dropping" ELSE "released"]]
           /\ entry' = [entry EXCEPT ![w] =
                IF @.agent # run[r].agent THEN @
                ELSE IF last THEN NoEntry ELSE [agent |-> @.agent, refs |-> @.refs - 1]]
      ELSE run' = [run EXCEPT ![r] = R] /\ UNCHANGED entry

\* memoryLease.Release, after the registry's unlock.
ReleaseLease(r) ==
  /\ run[r].att = "dropping"
  /\ run' = [run EXCEPT ![r].att = "released"]
  /\ lease' = [lease EXCEPT ![run[r].ws] = IF @ = run[r].agent THEN None ELSE @]
  /\ UNCHANGED <<storeVars, serviceVars, runs, entry, callVars>>

Released(r) == run[r].att \in {"none", "released"}

-----------------------------------------------------------------------------
(* The peer run store                                                      *)

\* SetRunAgent, called by an RPC handler, reads the record and writes it back
\* with another pending selection.
SetRunAgentRead(p, w) ==
  /\ selects < MaxSelects /\ selecting[p] = NoRecord
  /\ selects' = selects + 1
  /\ selecting' = [selecting EXCEPT ![p] = [runAgent[p] EXCEPT !.pending = w]]
  /\ UNCHANGED <<runAgent, serviceVars, run, runs, registryVars, callVars>>

SetRunAgentWrite(p) ==
  /\ selecting[p] # NoRecord
  /\ runAgent' = [runAgent EXCEPT ![p] = selecting[p]]
  /\ selecting' = [selecting EXCEPT ![p] = NoRecord]
  /\ UNCHANGED <<selects, serviceVars, run, runs, registryVars, callVars>>

ResolveRunAgent(a) == IF a.pending # NoWorkspace THEN a.pending ELSE a.active

-----------------------------------------------------------------------------
(* Reload                                                                  *)

\* peerRealtimeSource.Push finds a stream to push to.
InputOpen(p) == source[p] # None /\ run[source[p]].input = "open"

\* Mutant of ReloadResolve: a peer without a selection is not noticed.
ReloadResolveUnconfigured(c) ==
  /\ c \in Reloaders /\ pc[c] = "idle" /\ runs < MaxRuns
  /\ c \in Pushers => ~InputOpen(Of(c))
  /\ sel' = [sel EXCEPT ![c] = ResolveRunAgent(runAgent[Of(c)])]
  /\ runs' = runs + 1
  /\ cur' = [cur EXCEPT ![c] = runs + 1]
  /\ Goto(c, "fail") \/ Goto(c, "starting")
  /\ UNCHANGED <<storeVars, serviceVars, run, registryVars, prev, record>>

\* Up to the status "starting".  The workspace may be denied to the peer.
ReloadResolve(c) ==
  /\ c \in Reloaders /\ pc[c] = "idle" /\ runs < MaxRuns
  /\ c \in Pushers => ~InputOpen(Of(c))
  /\ LET w == ResolveRunAgent(runAgent[Of(c)]) IN
       /\ sel' = [sel EXCEPT ![c] = w]
       /\ runs' = runs + 1
       /\ cur' = [cur EXCEPT ![c] = runs + 1]
       /\ \/ Goto(c, "fail")
          \/ w # NoWorkspace /\ Goto(c, "starting")
  /\ UNCHANGED <<storeVars, serviceVars, run, registryVars, prev, record>>

ReloadFail(c) ==
  /\ pc[c] = "fail"
  /\ \A r \in {cur[c], prev[c]} \ {None} : Released(r)
  /\ SetStatus(Of(c), "error")
  /\ Return(c)
  /\ UNCHANGED <<storeVars, runtime, source, run, runs, registryVars>>

ReloadStarting(c) ==
  /\ pc[c] = "starting"
  /\ SetStatus(Of(c), "starting")
  /\ Goto(c, "swap")
  /\ UNCHANGED <<storeVars, runtime, source, run, runs, registryVars, sel, cur, prev, record>>

\* previous := s.swap(nil)
ReloadSwap(c) ==
  /\ pc[c] = "swap"
  /\ prev' = [prev EXCEPT ![c] = runtime[Of(c)]]
  /\ runtime' = [runtime EXCEPT ![Of(c)] = None]
  /\ Goto(c, IF runtime[Of(c)] = None THEN "open" ELSE "stop")
  /\ UNCHANGED <<storeVars, status, source, run, runs, registryVars, sel, cur, record>>

\* Mutant of StopSignal: the streams are left open and the context alive.
StopSignalSilently(c) ==
  /\ pc[c] = "stop"
  /\ Goto(c, "stopWait")
  /\ UNCHANGED <<storeVars, serviceVars, run, runs, registryVars, sel, cur, prev, record>>

\* runtime.stop: cancel and close the streams, then wait.
StopSignal(c) ==
  /\ pc[c] = "stop"
  /\ run' = [run EXCEPT ![prev[c]].cancelled = TRUE, ![prev[c]].input = "closed"]
  /\ Goto(c, "stopWait")
  /\ UNCHANGED <<storeVars, serviceVars, runs, registryVars, sel, cur, prev, record>>

StopWait(c) ==
  /\ pc[c] = "stopWait" /\ run[prev[c]].consumer = "done"
  /\ Goto(c, IF c \in Closing THEN "stopped" ELSE "open")
  /\ prev' = [prev EXCEPT ![c] = None]
  /\ UNCHANGED <<storeVars, serviceVars, run, runs, registryVars, sel, cur, record>>

\* ctx.Done: the runtime is released under its consumer's feet.
StopAbandon(c) ==
  /\ pc[c] = "stopWait" /\ c \in Cancellable
  /\ Release(prev[c], run[prev[c]])
  /\ Goto(c, "fail")
  /\ UNCHANGED <<storeVars, serviceVars, runs, lease, sel, cur, prev, record>>

\* OpenAgentInput closes the input it replaces.
OpenAgentInput(c) ==
  /\ pc[c] = "open"
  /\ LET r == cur[c]
         p == Of(c)
         new == [peer |-> p, ws |-> sel[c], input |-> "open", cancelled |-> FALSE,
                 att |-> "none", agent |-> None, consumer |-> "none"]
     IN  /\ run' = [x \in Run |-> IF x = r THEN new
                                  ELSE IF x = source[p] THEN [run[x] EXCEPT !.input = "closed"] ELSE run[x]]
         /\ source' = [source EXCEPT ![p] = r]
  /\ Goto(c, "agent")
  /\ UNCHANGED <<storeVars, runtime, status, runs, registryVars, sel, cur, prev, record>>

\* OpenAgent and Transform: join the agent of the workspace, or open one and
\* take its lease.
OpenAgent(c) ==
  /\ pc[c] = "agent"
  /\ LET r == cur[c]
         w == sel[c]
     IN  /\ entry[w] # NoEntry \/ lease[w] = None
         /\ LET a == IF entry[w] # NoEntry THEN entry[w].agent ELSE r IN
              /\ entry' = [entry EXCEPT ![w] = [agent |-> a, refs |-> @.refs + 1]]
              /\ lease' = [lease EXCEPT ![w] = a]
              /\ run' = [run EXCEPT ![r].att = "held", ![r].agent = a]
  /\ Goto(c, "activate")
  /\ UNCHANGED <<storeVars, serviceVars, runs, sel, cur, prev, record>>

\* The workspace cannot be resolved, its agent cannot be made, or it is busy.
OpenAgentFail(c) ==
  /\ pc[c] = "agent"
  /\ run' = [run EXCEPT ![cur[c]].cancelled = TRUE, ![cur[c]].input = "closed"]
  /\ Goto(c, "fail")
  /\ UNCHANGED <<storeVars, serviceVars, runs, registryVars, sel, cur, prev, record>>

\* ActivateRunAgent reads the record, and refuses a selection that is not the
\* pending one, or without one the active one.
ActivateRead(c) ==
  /\ pc[c] = "activate"
  /\ sel[c] = ResolveRunAgent(runAgent[Of(c)])
  /\ record' = [record EXCEPT ![c] = [active |-> sel[c], pending |-> NoWorkspace]]
  /\ Goto(c, "write")
  /\ UNCHANGED <<storeVars, serviceVars, run, runs, registryVars, sel, cur, prev>>

ActivateWrite(c) ==
  /\ pc[c] = "write"
  /\ runAgent' = [runAgent EXCEPT ![Of(c)] = record[c]]
  /\ Goto(c, "install")
  /\ UNCHANGED <<selecting, selects, serviceVars, run, runs, registryVars, sel, cur, prev, record>>

\* Transform failed, the selection has changed, or the store fails: the
\* attachment is released and the streams are closed.
ActivateFail(c) ==
  /\ pc[c] \in {"activate", "write"}
  /\ Release(cur[c], [run[cur[c]] EXCEPT !.cancelled = TRUE, !.input = "closed"])
  /\ Goto(c, "fail")
  /\ UNCHANGED <<storeVars, serviceVars, runs, lease, sel, cur, prev, record>>

\* s.swap(next): what it returns is dropped.
InstallRuntime(c) ==
  /\ pc[c] = "install"
  /\ runtime' = [runtime EXCEPT ![Of(c)] = cur[c]]
  /\ Goto(c, "running")
  /\ UNCHANGED <<storeVars, status, source, run, runs, registryVars, sel, cur, prev, record>>

\* The status is set and the consumer started.
ReloadRunning(c) ==
  /\ pc[c] = "running"
  /\ SetStatus(Of(c), "running")
  /\ run' = [run EXCEPT ![cur[c]].consumer = "running"]
  /\ Return(c)
  /\ UNCHANGED <<storeVars, runtime, source, runs, registryVars>>

-----------------------------------------------------------------------------
(* consume                                                                 *)

Consuming(r, l) == run[r].consumer = l
ConsumeGoto(r, l) == run' = [run EXCEPT ![r].consumer = l]
IfCurrent(r, x, y) == IF runtime[run[r].peer] = r THEN x ELSE y

\* ConsumeAgentOutput ends: the output is finished, or the run is cancelled.
ConsumeEnd(r) ==
  /\ Consuming(r, "running")
  /\ runtime' = [runtime EXCEPT ![run[r].peer] = IfCurrent(r, None, @)]
  /\ status' = [status EXCEPT ![run[r].peer] = IfCurrent(r, "stopped", @)]
  /\ ConsumeGoto(r, "closing")
  /\ UNCHANGED <<storeVars, source, runs, registryVars, callVars>>

\* It fails: the status is set after the unlock, whatever is current by then.
ConsumeFail(r) ==
  /\ Consuming(r, "running") /\ ~run[r].cancelled
  /\ runtime' = [runtime EXCEPT ![run[r].peer] = IfCurrent(r, None, @)]
  /\ ConsumeGoto(r, "error")
  /\ UNCHANGED <<storeVars, status, source, runs, registryVars, callVars>>

ConsumeError(r) ==
  /\ Consuming(r, "error")
  /\ SetStatus(run[r].peer, "error")
  /\ ConsumeGoto(r, "closing")
  /\ UNCHANGED <<storeVars, runtime, source, runs, registryVars, callVars>>

\* The deferred calls: close the input, release the attachment, close done.
ConsumeRelease(r) ==
  /\ Consuming(r, "closing")
  /\ Release(r, [run[r] EXCEPT !.input = "closed", !.consumer = "releasing"])
  /\ UNCHANGED <<storeVars, serviceVars, runs, lease, callVars>>

ConsumeDone(r) ==
  /\ Consuming(r, "releasing") /\ Released(r)
  /\ ConsumeGoto(r, "done")
  /\ UNCHANGED <<storeVars, serviceVars, runs, registryVars, callVars>>

-----------------------------------------------------------------------------
(* PeerConn.close                                                          *)

\* Stop takes the current runtime.
CloseSwap(p) ==
  /\ pc[p] = "idle"
  /\ runtime' = [runtime EXCEPT ![p] = None]
  /\ prev' = [prev EXCEPT ![p] = runtime[p]]
  /\ Goto(p, IF runtime[p] = None THEN "stopped" ELSE "stopping")
  /\ UNCHANGED <<storeVars, status, source, run, runs, registryVars, sel, cur, record>>

CloseStopping(p) ==
  /\ pc[p] = "stopping"
  /\ SetStatus(p, "stopping")
  /\ Goto(p, "stop")
  /\ UNCHANGED <<storeVars, runtime, source, run, runs, registryVars, sel, cur, prev, record>>

CloseStopped(p) ==
  /\ pc[p] = "stopped"
  /\ SetStatus(p, "stopped")
  /\ Goto(p, "source")
  /\ UNCHANGED <<storeVars, runtime, source, run, runs, registryVars, sel, cur, prev, record>>

\* agentInput.Close
CloseSource(p) ==
  /\ pc[p] = "source"
  /\ source' = [source EXCEPT ![p] = None]
  /\ run' = IF source[p] = None THEN run ELSE [run EXCEPT ![source[p]].input = "closed"]
  /\ Goto(p, "closed")
  /\ UNCHANGED <<storeVars, runtime, status, runs, registryVars, sel, cur, prev, record>>

-----------------------------------------------------------------------------
ReloadStep(c) ==
  \/ ReloadFail(c) \/ ReloadStarting(c) \/ ReloadSwap(c)
  \/ OpenAgentInput(c) \/ OpenAgent(c) \/ OpenAgentFail(c)
  \/ ActivateRead(c) \/ ActivateWrite(c) \/ ActivateFail(c)
  \/ InstallRuntime(c) \/ ReloadRunning(c)
StopStep(c) == StopSignal(c) \/ StopWait(c) \/ StopAbandon(c)
CloseStep(p) == CloseStopping(p) \/ CloseStopped(p) \/ CloseSource(p)
CleanupStep(r) == ReleaseLease(r) \/ ConsumeError(r) \/ ConsumeRelease(r) \/ ConsumeDone(r)

Next ==
  \/ \E c \in Reloaders : ReloadResolve(c) \/ ReloadStep(c)
  \/ \E c \in Caller : StopStep(c)
  \/ \E p \in Closing : CloseSwap(p) \/ CloseStep(p)
  \/ \E r \in Run : ConsumeEnd(r) \/ ConsumeFail(r) \/ CleanupStep(r)
  \/ \E p \in Peers, w \in Workspaces : SetRunAgentRead(p, w)
  \/ \E p \in Peers : SetRunAgentWrite(p)

Spec == Init /\ [][Next]_vars

\* Goroutines that can run do.  An agent whose input is closed or whose
\* context is cancelled ends its output; nothing else makes it end.  Nobody has
\* to call Reload, select a workspace or close the connection.
Fairness ==
  /\ \A c \in Reloaders : WF_vars(ReloadStep(c) \/ StopStep(c))
  /\ \A p \in Closing : WF_vars(CloseStep(p) \/ StopStep(p))
  /\ \A r \in Run : WF_vars(CleanupStep(r))
  /\ \A r \in Run : WF_vars(run[r].input = "closed" /\ (ConsumeEnd(r) \/ ConsumeFail(r)))

FairSpec == Spec /\ Fairness

-----------------------------------------------------------------------------
(* Properties                                                              *)

\* Every variable has its type.
TypeOK ==
  /\ runAgent \in [Peers -> RunAgent]
  /\ selecting \in [Peers -> RunAgent]
  /\ selects \in 0 .. MaxSelects
  /\ runtime \in [Peers -> Run \cup {None}]
  /\ status \in [Peers -> Status]
  /\ source \in [Peers -> Run \cup {None}]
  /\ run \in [Run -> RunFields]
  /\ runs \in 0 .. MaxRuns
  /\ entry \in [Workspaces -> [agent : Run \cup {None}, refs : 0 .. MaxRuns]]
  /\ lease \in [Workspaces -> Run \cup {None}]
  /\ pc \in [Caller -> {"idle", "fail", "starting", "swap", "stop", "stopWait", "open", "agent", "activate",
                        "write", "install", "running", "stopping", "stopped", "source", "closed"}]
  /\ sel \in [Caller -> Selection]
  /\ cur \in [Caller -> Run \cup {None}]
  /\ prev \in [Caller -> Run \cup {None}]
  /\ record \in [Caller -> RunAgent]

Holders(w) == {r \in Run : run[r].ws = w /\ run[r].att = "held"}

\* RuntimeRegistry counts the attachments: the count of a workspace's entry is
\* the number of runs that hold one, all of them to the agent of that entry, and
\* there is no entry without holders and no holder without an entry.
AttachmentsCounted ==
  \A w \in Workspaces :
    /\ entry[w].refs = Cardinality(Holders(w))
    /\ entry[w] = NoEntry <=> Holders(w) = {}
    /\ \A r \in Holders(w) : run[r].agent = entry[w].agent

\* A workspace has one live agent and the lease is its: no other agent can be
\* opened while it lives, and a lease without an entry is on its way back.
LeaseOwned ==
  \A w \in Workspaces :
    /\ entry[w] # NoEntry => lease[w] = entry[w].agent
    /\ entry[w] = NoEntry /\ lease[w] # None =>
         \E r \in Run : run[r].att = "dropping" /\ run[r].agent = lease[w]

\* The runtime that Status, history and recall use is attached to its agent.
CurrentIsAttached ==
  \A p \in Peers : runtime[p] # None => run[runtime[p]].att = "held" /\ run[runtime[p]].peer = p

\* The registry, the leases and the peers' runtimes agree, whichever Reloads,
\* failures and closes overlap.
AttachmentsSound == AttachmentsCounted /\ LeaseOwned /\ CurrentIsAttached

\* Once nobody calls any more, every Reload and every Stop has returned, and a
\* run whose input is closed has given its attachment back, also when another
\* Reload has pushed it out of Service.runtime and nobody will ever stop it.
Settled ==
  /\ \A c \in Caller : pc[c] \in {"idle", "closed"}
  /\ \A r \in Run : run[r].input = "closed" => Released(r)
CallsSettle == <>[]Settled

\* "agenthost: workspace already has a running agent": OpenAgent finds the lease
\* taken only while an agent of the workspace runs.
BusyMeansRunning ==
  \A c \in Reloaders : pc[c] = "agent" => entry[sel[c]] # NoEntry \/ lease[sel[c]] = None

\* A selection that SetRunAgent has stored stays until it is activated.
SelectionKept ==
  [][\A p \in Peers : \/ runAgent[p].pending \in {NoWorkspace, runAgent'[p].active}
                       \/ runAgent'[p].pending # NoWorkspace]_vars

\* When no call is in progress and nothing runs, the status says so.
QuietStatusIsFinal ==
  \A p \in Peers :
    /\ runtime[p] = None
    /\ \A c \in Caller : Of(c) = p => pc[c] \in {"idle", "closed"}
    /\ \A r \in Run : run[r].peer = p => run[r].consumer \in {"none", "done"}
    => status[p] \in {"stopped", "error"}

=============================================================================
