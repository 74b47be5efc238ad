-------------------------- MODULE AgentHostProofs --------------------------
(***************************************************************************)
(* Proofs about AgentHost: whichever Reloads, failures and closes of the   *)
(* peers overlap, the registry counts the attachments exactly, the lease   *)
(* of a workspace is its agent's, and a current runtime is attached.       *)
(***************************************************************************)
EXTENDS AgentHost, FiniteSetTheorems, TLAPS

-----------------------------------------------------------------------------
(* The inductive invariant                                                 *)

Dropping(r, w) == run[r].att = "dropping" /\ run[r].ws = w
Attached(r) == run[r].att \in {"held", "dropping"}

\* What the registry and the memory coordinator know of a workspace.  The run
\* that gives the lease back is the only one and nobody joins meanwhile: this is
\* what keeps it from taking the lease of the next agent away.
RegistryInv(w) ==
  /\ entry[w].refs = Cardinality(Holders(w))
  /\ entry[w] = NoEntry <=> Holders(w) = {}
  /\ \A r \in Holders(w) : run[r].agent = entry[w].agent
  /\ entry[w] # NoEntry => lease[w] = entry[w].agent
  /\ entry[w] = NoEntry /\ lease[w] # None =>
       \E r \in Run : Dropping(r, w) /\ run[r].agent = lease[w]
  /\ \A r \in Run : Dropping(r, w) => entry[w] = NoEntry /\ lease[w] = run[r].agent
  /\ \A r, s \in Run : Dropping(r, w) /\ Dropping(s, w) => r = s

\* A run that is attached knows its agent, one that has not begun has nothing,
\* and a consumer that has ended has left Service.runtime.
RunInv(r) ==
  /\ Attached(r) => run[r].agent # None
  /\ r > runs => run[r].att = "none" /\ run[r].consumer = "none"
  /\ run[r].consumer \in {"error", "closing", "releasing", "done"} => \A p \in Peers : runtime[p] # r

ReloadLabels ==
  {"idle", "fail", "starting", "swap", "stop", "stopWait", "open", "agent", "activate", "write",
   "install", "running"}
CloseLabels == {"idle", "stopping", "stop", "stopWait", "stopped", "source", "closed"}
\* Reload is at work on a run of its own.
Reloading(c) == pc[c] \in ReloadLabels \ {"idle", "fail"} /\ c \in Reloaders
\* The run has not been installed: nobody else knows it.
Private(c) == Reloading(c) /\ pc[c] # "running"

\* What a caller knows of the run it opens and of the one it stops.
CallerInv(c) ==
  /\ pc[c] \in IF c \in Closing THEN CloseLabels ELSE ReloadLabels
  /\ cur[c] <= runs /\ prev[c] <= runs
  /\ Reloading(c) => cur[c] # None /\ sel[c] \in Workspaces /\ run[cur[c]].consumer = "none"
  /\ pc[c] \in {"stopping", "stop", "stopWait"} => prev[c] # None
  /\ prev[c] # None => \A p \in Peers : runtime[p] # prev[c]
  /\ Private(c) => /\ \A p \in Peers : runtime[p] # cur[c]
                   /\ \A d \in Caller : prev[d] # cur[c]
  /\ Private(c) /\ pc[c] \in {"starting", "swap", "stop", "stopWait", "open", "agent"} =>
       run[cur[c]].att = "none"
  /\ pc[c] \in {"agent", "activate", "write", "install"} =>
       run[cur[c]].ws = sel[c] /\ run[cur[c]].peer = Of(c)
  /\ pc[c] \in {"activate", "write", "install"} => run[cur[c]].att = "held"

\* Every attempt has a number of its own.
OwnRuns == \A c, d \in Caller : cur[c] # None /\ cur[c] = cur[d] => c = d

IInv ==
  /\ TypeOK /\ CurrentIsAttached /\ OwnRuns
  /\ \A w \in Workspaces : RegistryInv(w)
  /\ \A r \in Run : RunInv(r)
  /\ \A c \in Caller : CallerInv(c)

-----------------------------------------------------------------------------
(* Types                                                                   *)

StoreTyped ==
  /\ runAgent \in [Peers -> RunAgent]
  /\ selecting \in [Peers -> RunAgent]
  /\ selects \in 0 .. MaxSelects
ServiceTyped ==
  /\ runtime \in [Peers -> Run \cup {None}]
  /\ status \in [Peers -> Status]
  /\ source \in [Peers -> Run \cup {None}]
RunsTyped == run \in [Run -> RunFields] /\ runs \in 0 .. MaxRuns
\* The counts without their bound, which follows from the registry's invariant.
RegistryTyped ==
  /\ entry \in [Workspaces -> [agent : Run \cup {None}, refs : Int]]
  /\ lease \in [Workspaces -> Run \cup {None}]
CallsTyped ==
  /\ pc \in [Caller -> ReloadLabels \cup CloseLabels]
  /\ sel \in [Caller -> Selection]
  /\ cur \in [Caller -> Run \cup {None}]
  /\ prev \in [Caller -> Run \cup {None}]
  /\ record \in [Caller -> RunAgent]
Typed == StoreTyped /\ ServiceTyped /\ RunsTyped /\ RegistryTyped /\ CallsTyped

LEMMA TypeParts ==
  /\ TypeOK => Typed
  /\ Typed /\ (\A w \in Workspaces : entry[w].refs \in 0 .. MaxRuns) => TypeOK
<1>1. ReloadLabels \cup CloseLabels =
        {"idle", "fail", "starting", "swap", "stop", "stopWait", "open", "agent", "activate",
         "write", "install", "running", "stopping", "stopped", "source", "closed"}
  BY DEF ReloadLabels, CloseLabels
<1>2. ASSUME TypeOK PROVE RegistryTyped
  BY <1>2, AgentHostAssumption DEF TypeOK, RegistryTyped
<1>3. ASSUME RegistryTyped, \A w \in Workspaces : entry[w].refs \in 0 .. MaxRuns
      PROVE  entry \in [Workspaces -> [agent : Run \cup {None}, refs : 0 .. MaxRuns]]
  BY <1>3 DEF RegistryTyped
<1>4. TypeOK => StoreTyped /\ ServiceTyped /\ RunsTyped /\ CallsTyped
  BY <1>1, Zenon DEF TypeOK, StoreTyped, ServiceTyped, RunsTyped, CallsTyped
<1>5. Typed /\ (\A w \in Workspaces : entry[w].refs \in 0 .. MaxRuns) => TypeOK
  BY <1>1, <1>3, Zenon DEF TypeOK, Typed, StoreTyped, ServiceTyped, RunsTyped, RegistryTyped, CallsTyped
<1> QED BY <1>2, <1>4, <1>5 DEF Typed

\* The holders are counted by a number of runs.
LEMMA HoldersBounded ==
  ASSUME NEW w \in Workspaces
  PROVE  /\ IsFiniteSet(Holders(w))
         /\ Cardinality(Holders(w)) \in 0 .. MaxRuns
<1>1. MaxRuns \in Nat /\ 1 \in Int
  BY AgentHostAssumption
<1>2. IsFiniteSet(Run) /\ Cardinality(Run) = MaxRuns
  BY <1>1, FS_Interval DEF Run
<1>3. Holders(w) \subseteq Run
  BY DEF Holders
<1>4. IsFiniteSet(Holders(w)) /\ Cardinality(Holders(w)) <= Cardinality(Run)
  BY <1>2, <1>3, FS_Subset
<1> QED BY <1>1, <1>2, <1>4, FS_CardinalityType

\* The peer of a caller.
LEMMA OfTyped == \A c \in Caller : Of(c) \in Peers
BY AgentHostAssumption DEF Caller, Of

\* One run changes, to another record of the right shape.
LEMMA RunUpdated ==
  ASSUME RunsTyped, NEW r \in Run, NEW R \in RunFields, run' = [run EXCEPT ![r] = R]
  PROVE  /\ run' \in [Run -> RunFields] /\ run'[r] = R
         /\ \A x \in Run : x # r => run'[x] = run[x]
BY DEF RunsTyped

-----------------------------------------------------------------------------
(* What the steps do to the runs                                           *)

\* Only the input or the context of the run may have changed.
Alike(x) ==
  /\ run'[x].peer = run[x].peer /\ run'[x].ws = run[x].ws /\ run'[x].att = run[x].att
  /\ run'[x].agent = run[x].agent /\ run'[x].consumer = run[x].consumer

\* A run of the same peer, workspace and agent.
SameRun(R, S) == R.peer = S.peer /\ R.ws = S.ws /\ R.agent = S.agent

LEMMA FieldsTyped ==
  ASSUME NEW R \in RunFields
  PROVE  /\ R.peer \in Peers /\ R.ws \in Workspaces /\ R.agent \in Run \cup {None}
         /\ R.att \in {"none", "held", "dropping", "released"}
         /\ R.consumer \in {"none", "running", "error", "closing", "releasing", "done"}
BY DEF RunFields

LEMMA AttUpdated ==
  ASSUME NEW R \in RunFields, NEW a \in {"none", "held", "dropping", "released"}
  PROVE  /\ [R EXCEPT !.att = a] \in RunFields
         /\ [R EXCEPT !.att = a].att = a /\ [R EXCEPT !.att = a].consumer = R.consumer
         /\ SameRun([R EXCEPT !.att = a], R)
BY DEF RunFields, SameRun

LEMMA ConsumerUpdated ==
  ASSUME NEW R \in RunFields, NEW l \in {"none", "running", "error", "closing", "releasing", "done"}
  PROVE  /\ [R EXCEPT !.consumer = l] \in RunFields
         /\ [R EXCEPT !.consumer = l].consumer = l /\ [R EXCEPT !.consumer = l].att = R.att
         /\ SameRun([R EXCEPT !.consumer = l], R)
BY DEF RunFields, SameRun

LEMMA InputUpdated ==
  ASSUME NEW R \in RunFields, NEW S, S = [R EXCEPT !.input = "closed"]
  PROVE  S \in RunFields /\ S.att = R.att /\ S.consumer = R.consumer /\ SameRun(S, R)
BY DEF RunFields, SameRun

LEMMA StreamsClosed ==
  ASSUME NEW R \in RunFields, NEW S, S = [R EXCEPT !.cancelled = TRUE, !.input = "closed"]
  PROVE  S \in RunFields /\ S.att = R.att /\ S.consumer = R.consumer /\ SameRun(S, R)
BY DEF RunFields, SameRun

\* stop, or the failure to open an agent, closes the streams of a run.
LEMMA SignalEffect ==
  ASSUME RunsTyped, NEW r \in Run,
         run' = [run EXCEPT ![r].cancelled = TRUE, ![r].input = "closed"]
  PROVE  run' \in [Run -> RunFields] /\ \A x \in Run : Alike(x)
<1>1. PICK R : R = [run[r] EXCEPT !.cancelled = TRUE, !.input = "closed"]
  OBVIOUS
<1>2. run' = [run EXCEPT ![r] = R]
  BY <1>1 DEF RunsTyped, RunFields
<1>3. R \in RunFields /\ R.att = run[r].att /\ R.consumer = run[r].consumer /\ SameRun(R, run[r])
  BY <1>1, StreamsClosed DEF RunsTyped
<1>4. /\ run' \in [Run -> RunFields] /\ run'[r] = R
      /\ \A x \in Run : x # r => run'[x] = run[x]
  BY <1>2, <1>3, RunUpdated
<1> QED BY <1>3, <1>4 DEF Alike, SameRun

\* releaseOnce drops the count, or the entry with the last one.
LEMMA ReleaseEffect ==
  ASSUME RunsTyped, RegistryTyped, NEW r \in Run, NEW R \in RunFields,
         R.att = run[r].att, Release(r, R), NEW w, w = run[r].ws
  PROVE  /\ run' \in [Run -> RunFields]
         /\ \A x \in Run : x # r => run'[x] = run[x]
         /\ SameRun(run'[r], R) /\ run'[r].consumer = R.consumer
         /\ \/ run[r].att # "held" /\ run'[r].att = run[r].att /\ entry' = entry
            \/ /\ run[r].att = "held" /\ entry[w].agent = run[r].agent /\ entry[w].refs = 1
               /\ run'[r].att = "dropping" /\ entry' = [entry EXCEPT ![w] = NoEntry]
            \/ /\ run[r].att = "held" /\ entry[w].agent = run[r].agent /\ entry[w].refs # 1
               /\ run'[r].att = "released"
               /\ entry' = [entry EXCEPT ![w] = [agent |-> entry[w].agent, refs |-> entry[w].refs - 1]]
            \/ /\ run[r].att = "held" /\ entry[w].agent # run[r].agent
               /\ run'[r].att = "released" /\ entry' = entry
<1>1. w \in Workspaces /\ entry[w] \in [agent : Run \cup {None}, refs : Int]
  BY FieldsTyped DEF RunsTyped, RegistryTyped
<1>2. CASE run[r].att # "held"
  <2>1. run' = [run EXCEPT ![r] = R] /\ entry' = entry
    BY <1>2 DEF Release
  <2>2. run' \in [Run -> RunFields] /\ run'[r] = R /\ \A x \in Run : x # r => run'[x] = run[x]
    BY <2>1, RunUpdated
  <2> QED BY <1>2, <2>1, <2>2 DEF SameRun
<1>3. CASE run[r].att = "held"
  <2>1. PICK last : last = (entry[w].agent = run[r].agent /\ entry[w].refs = 1)
    OBVIOUS
  <2>2. last \in BOOLEAN
    BY <2>1
  <2>3. PICK a \in {"dropping", "released"} : a = IF last THEN "dropping" ELSE "released"
    BY <2>2
  <2>4. PICK S : S = [R EXCEPT !.att = a]
    OBVIOUS
  <2>5. run' = [run EXCEPT ![r] = S]
    BY <1>3, <2>1, <2>3, <2>4 DEF Release
  <2>6. S \in RunFields /\ S.att = a /\ S.consumer = R.consumer /\ SameRun(S, R)
    BY ZenonT(60), <2>4, AttUpdated
  <2>7. run' \in [Run -> RunFields] /\ run'[r] = S /\ \A x \in Run : x # r => run'[x] = run[x]
    BY <2>5, <2>6, RunUpdated
  <2>8. entry' = [entry EXCEPT ![w] =
           IF entry[w].agent # run[r].agent THEN entry[w]
           ELSE IF entry[w].agent = run[r].agent /\ entry[w].refs = 1 THEN NoEntry
           ELSE [agent |-> entry[w].agent, refs |-> entry[w].refs - 1]]
    BY <1>3 DEF Release
  <2>9. CASE entry[w].agent # run[r].agent
    <3>1. entry' = entry
      BY <1>1, <2>8, <2>9 DEF RegistryTyped
    <3> QED BY <1>3, <2>1, <2>3, <2>6, <2>7, <2>9, <3>1
  <2>10. CASE entry[w].agent = run[r].agent /\ entry[w].refs = 1
    BY <1>3, <2>1, <2>3, <2>6, <2>7, <2>8, <2>10
  <2>11. CASE entry[w].agent = run[r].agent /\ entry[w].refs # 1
    BY <1>3, <2>1, <2>3, <2>6, <2>7, <2>8, <2>11
  <2> QED BY <2>9, <2>10, <2>11
<1> QED BY <1>2, <1>3

-----------------------------------------------------------------------------
(* The registry                                                            *)

\* The run's attachment stays; a run without one may change in other ways.
Kept(x) ==
  /\ run'[x].att = run[x].att
  /\ Attached(x) => run'[x].ws = run[x].ws /\ run'[x].agent = run[x].agent

\* Nothing happens to the attachments.
LEMMA QuietRegistry ==
  ASSUME \A x \in Run : Kept(x), UNCHANGED <<entry, lease>>,
         NEW w \in Workspaces, RegistryInv(w)
  PROVE  RegistryInv(w)'
<1>1. Holders(w)' = Holders(w)
  BY DEF Holders, Kept, Attached
<1>2. \A x \in Run : Dropping(x, w)' <=> Dropping(x, w)
  BY DEF Dropping, Kept, Attached
<1>3. \A x \in Run : Dropping(x, w) => run'[x].agent = run[x].agent
  BY DEF Dropping, Kept, Attached
<1>4. \A x \in Holders(w) : run'[x].agent = run[x].agent
  BY DEF Holders, Kept, Attached
<1> QED BY <1>1, <1>2, <1>3, <1>4 DEF RegistryInv

\* A run joins the agent of a workspace, or opens one and takes the lease.
LEMMA JoinRegistry ==
  ASSUME Typed, NEW r \in Run, NEW v \in Workspaces, NEW a,
         \A x \in Run \ {r} : Kept(x),
         run[r].att = "none", run'[r].att = "held", run'[r].ws = v, run'[r].agent = a,
         entry[v] # NoEntry \/ lease[v] = None,
         a = IF entry[v] # NoEntry THEN entry[v].agent ELSE r,
         entry' = [entry EXCEPT ![v] = [agent |-> a, refs |-> entry[v].refs + 1]],
         lease' = [lease EXCEPT ![v] = a],
         NEW w \in Workspaces, RegistryInv(w), RegistryInv(v),
         \A x \in Run : RunInv(x)
  PROVE  RegistryInv(w)' /\ a # None
<1>0. RegistryTyped /\ r # None
  BY DEF Typed, Run, None
<1>1. \A x \in Run : Dropping(x, w)' <=> Dropping(x, w)
  BY DEF Dropping, Kept, Attached
<1>2. \A x \in Run : Dropping(x, w) => run'[x].agent = run[x].agent
  BY DEF Dropping, Kept, Attached
<1>3. r \notin Holders(w) /\ \A x \in Holders(w) : run'[x].agent = run[x].agent
  BY DEF Holders, Kept, Attached
<1>4. CASE w # v
  <2>1. entry'[w] = entry[w] /\ lease'[w] = lease[w]
    BY <1>0, <1>4 DEF RegistryTyped
  <2>2. Holders(w)' = Holders(w)
    BY <1>4 DEF Holders, Kept, Attached
  <2>3. RegistryInv(w)'
    BY <1>1, <1>2, <1>3, <2>1, <2>2 DEF RegistryInv
  <2>4. a # None
    <3>1. CASE entry[v] # NoEntry
      <4>1. PICK h \in Holders(v) : run[h].agent = entry[v].agent
        BY <3>1 DEF RegistryInv
      <4> QED BY <3>1, <4>1 DEF Holders, RunInv, Attached
    <3>2. CASE entry[v] = NoEntry
      BY <1>0, <3>2
    <3> QED BY <3>1, <3>2
  <2> QED BY <2>3, <2>4
<1>5. CASE w = v
  <2>1. PICK H : H = Holders(w)
    OBVIOUS
  <2>2. Holders(w)' = H \cup {r}
    BY <1>5, <2>1 DEF Holders, Kept, Attached
  <2>3. IsFiniteSet(H) /\ Cardinality(H) \in Nat
    BY <2>1, HoldersBounded
  <2>4. Cardinality(Holders(w)') = Cardinality(H) + 1
    BY <1>3, <2>1, <2>2, <2>3, FS_AddElement
  <2>5. /\ entry'[w] = [agent |-> a, refs |-> entry[w].refs + 1] /\ lease'[w] = a
        /\ entry[w].refs = Cardinality(H)
    BY <1>0, <1>5, <2>1 DEF RegistryTyped, RegistryInv
  <2>6. \A x \in Run : ~Dropping(x, w)
    <3>1. CASE entry[w] # NoEntry
      BY <3>1 DEF RegistryInv
    <3>2. CASE lease[w] = None
      BY <3>2 DEF RegistryInv, RunInv, Attached, Dropping
    <3> QED BY <1>5, <3>1, <3>2
  <2>7. entry'[w] # NoEntry /\ entry'[w].agent = a /\ entry'[w].refs = Cardinality(H) + 1
    BY <2>3, <2>5 DEF NoEntry
  <2>8. \A x \in H : run'[x].agent = a
    <3>1. CASE H = {}
      BY <3>1
    <3>2. CASE H # {}
      BY <1>3, <1>5, <2>1, <3>2 DEF RegistryInv
    <3> QED BY <3>1, <3>2
  <2>9. a # None
    <3>1. CASE entry[v] # NoEntry
      <4>1. PICK h \in Holders(v) : run[h].agent = entry[v].agent
        BY <3>1 DEF RegistryInv
      <4> QED BY <3>1, <4>1 DEF Holders, RunInv, Attached
    <3>2. CASE entry[v] = NoEntry
      BY <1>0, <3>2
    <3> QED BY <3>1, <3>2
  <2>10. RegistryInv(w)'
    <3>1. entry'[w].refs = Cardinality(Holders(w)') /\ Holders(w)' # {}
      BY <2>2, <2>4, <2>7
    <3>2. \A x \in Holders(w)' : run'[x].agent = entry'[w].agent
      BY <2>2, <2>7, <2>8
    <3>3. \A x \in Run : ~Dropping(x, w)'
      BY <1>1, <2>6
    <3> QED BY <2>5, <2>7, <3>1, <3>2, <3>3 DEF RegistryInv
  <2> QED BY <2>9, <2>10
<1> QED BY <1>4, <1>5

\* A run gives its attachment up.  It is one of those that are counted, and the
\* last of them is the only one that is left to give the lease back.
LEMMA ReleaseRegistry ==
  ASSUME Typed, NEW r \in Run, NEW R \in RunFields, R.att = run[r].att, SameRun(R, run[r]),
         Release(r, R), lease' = lease, NEW w \in Workspaces, RegistryInv(w)
  PROVE  RegistryInv(w)'
<1>0. RunsTyped /\ RegistryTyped
  BY DEF Typed
<1>1. PICK v : v = run[r].ws
  OBVIOUS
<1>e. /\ run' \in [Run -> RunFields]
      /\ \A x \in Run : x # r => run'[x] = run[x]
      /\ SameRun(run'[r], R) /\ run'[r].consumer = R.consumer
      /\ \/ run[r].att # "held" /\ run'[r].att = run[r].att /\ entry' = entry
         \/ /\ run[r].att = "held" /\ entry[v].agent = run[r].agent /\ entry[v].refs = 1
            /\ run'[r].att = "dropping" /\ entry' = [entry EXCEPT ![v] = NoEntry]
         \/ /\ run[r].att = "held" /\ entry[v].agent = run[r].agent /\ entry[v].refs # 1
            /\ run'[r].att = "released"
            /\ entry' = [entry EXCEPT ![v] = [agent |-> entry[v].agent, refs |-> entry[v].refs - 1]]
         \/ /\ run[r].att = "held" /\ entry[v].agent # run[r].agent
            /\ run'[r].att = "released" /\ entry' = entry
  BY <1>0, <1>1, ReleaseEffect
<1>2. /\ run'[r].ws = v /\ run'[r].agent = run[r].agent
      /\ \A x \in Run : x # r => Kept(x)
  BY <1>1, <1>e DEF SameRun, Kept
<1>3. CASE run[r].att # "held"
  <2>1. \A x \in Run : Kept(x)
    BY <1>1, <1>2, <1>3, <1>e DEF Kept
  <2> QED BY <1>3, <1>e, <2>1, QuietRegistry
<1>4. CASE run[r].att = "held" /\ w # v
  <2>1. Holders(w)' = Holders(w) /\ \A x \in Holders(w) : run'[x].agent = run[x].agent
    BY <1>1, <1>2, <1>4, <1>e DEF Holders
  <2>2. entry'[w] = entry[w]
    BY <1>0, <1>4, <1>e DEF RegistryTyped
  <2>3. \A x \in Run : /\ Dropping(x, w)' <=> Dropping(x, w)
                       /\ Dropping(x, w) => run'[x].agent = run[x].agent
    BY <1>1, <1>2, <1>4, <1>e DEF Dropping
  <2> QED BY <2>1, <2>2, <2>3 DEF RegistryInv
<1>5. CASE run[r].att = "held" /\ w = v
  <2>1. PICK H : H = Holders(w)
    OBVIOUS
  <2>2. r \in H /\ run[r].agent = entry[w].agent /\ entry[w] # NoEntry
    BY <1>1, <1>5, <2>1 DEF Holders, RegistryInv
  <2>3. Holders(w)' = H \ {r} /\ \A x \in H : run'[x].agent = run[x].agent
    BY <1>2, <1>5, <1>e, <2>1, <2>2 DEF Holders
  <2>4. /\ IsFiniteSet(H) /\ Cardinality(H) \in Nat /\ entry[w].refs = Cardinality(H)
        /\ Cardinality(H \ {r}) = Cardinality(H) - 1 /\ IsFiniteSet(H \ {r})
        /\ entry[w].agent \in Run \cup {None}
    BY <1>0, <2>1, <2>2, HoldersBounded, FS_RemoveElement DEF RegistryInv, RegistryTyped
  <2>5. \A x \in Run : ~Dropping(x, w)
    BY <2>2 DEF RegistryInv
  <2>6. lease'[w] = entry[w].agent
    BY <2>2 DEF RegistryInv
  <2>7. CASE entry[w].refs = 1
    <3>1. Cardinality(H \ {r}) = 0 /\ H \ {r} = {}
      BY <2>4, <2>7, FS_EmptySet
    <3>2. entry'[w] = NoEntry /\ run'[r].att = "dropping"
      BY <1>0, <1>5, <1>e, <2>2, <2>7 DEF RegistryTyped
    <3>3. \A x \in Run : Dropping(x, w)' <=> x = r
      BY <1>2, <1>5, <1>e, <2>5, <3>2 DEF Dropping
    <3>4. Holders(w)' = {} /\ Cardinality(Holders(w)') = 0
      BY <2>3, <3>1
    <3>5. entry'[w].refs = 0
      BY <3>2 DEF NoEntry
    <3>6. run'[r].agent = lease'[w]
      BY <1>2, <2>2, <2>6
    <3> QED BY <3>2, <3>3, <3>4, <3>5, <3>6 DEF RegistryInv
  <2>8. CASE entry[w].refs # 1
    <3>1. /\ entry'[w] = [agent |-> entry[w].agent, refs |-> entry[w].refs - 1]
          /\ run'[r].att = "released"
      BY <1>0, <1>5, <1>e, <2>2, <2>8 DEF RegistryTyped
    <3>2. \A x \in Run : ~Dropping(x, w)'
      BY <1>5, <1>e, <2>5, <3>1 DEF Dropping
    <3>3. Cardinality(H) # 0 /\ Cardinality(H) # 1
      BY <2>2, <2>4, <2>8, FS_EmptySet
    <3>4. H \ {r} # {} /\ Cardinality(H \ {r}) # 0
      BY <2>4, <3>3, FS_EmptySet
    <3>5. /\ entry'[w].refs = Cardinality(Holders(w)') /\ entry'[w].agent = entry[w].agent
          /\ entry'[w] # NoEntry /\ Holders(w)' # {}
      BY <2>3, <2>4, <3>1, <3>4 DEF NoEntry
    <3>6. \A x \in Holders(w)' : run'[x].agent = entry'[w].agent
      BY <2>1, <2>3, <3>5 DEF RegistryInv
    <3> QED BY <2>6, <3>2, <3>5, <3>6 DEF RegistryInv
  <2> QED BY <2>7, <2>8
<1> QED BY <1>3, <1>4, <1>5

\* The lease goes back to the coordinator: nobody else has it meanwhile.
LEMMA LeaseBackRegistry ==
  ASSUME Typed, NEW r \in Run, ReleaseLease(r), NEW w \in Workspaces, RegistryInv(w)
  PROVE  RegistryInv(w)'
<1>0. RunsTyped /\ RegistryTyped /\ run[r].att = "dropping" /\ entry' = entry
  BY DEF Typed, ReleaseLease
<1>1. PICK R : R = [run[r] EXCEPT !.att = "released"]
  OBVIOUS
<1>2. run' = [run EXCEPT ![r] = R]
  BY <1>1 DEF ReleaseLease
<1>3. R \in RunFields /\ R.att = "released" /\ SameRun(R, run[r])
  BY <1>0, <1>1, AttUpdated DEF RunsTyped
<1>4. run'[r] = R /\ \A x \in Run : x # r => run'[x] = run[x]
  BY <1>0, <1>2, <1>3, RunUpdated
<1>5. lease' = [lease EXCEPT ![run[r].ws] = IF lease[run[r].ws] = run[r].agent THEN None
                                            ELSE lease[run[r].ws]]
  BY DEF ReleaseLease
<1>6. Holders(w)' = Holders(w) /\ \A x \in Holders(w) : run'[x] = run[x]
  BY <1>0, <1>3, <1>4 DEF Holders
<1>7. CASE run[r].ws # w
  <2>1. \A x \in Run : /\ Dropping(x, w)' <=> Dropping(x, w)
                       /\ Dropping(x, w) => run'[x] = run[x]
    BY <1>3, <1>4, <1>7 DEF Dropping, SameRun
  <2>2. lease'[w] = lease[w]
    BY <1>0, <1>5, <1>7 DEF RegistryTyped
  <2> QED BY <1>0, <1>6, <2>1, <2>2 DEF RegistryInv
<1>8. CASE run[r].ws = w
  <2>1. Dropping(r, w)
    BY <1>0, <1>8 DEF Dropping
  <2>2. entry[w] = NoEntry /\ lease[w] = run[r].agent
    BY <2>1 DEF RegistryInv
  <2>3. lease'[w] = None
    BY <1>0, <1>5, <1>8, <2>2 DEF RegistryTyped
  <2>4. \A x \in Run : ~Dropping(x, w)'
    BY <1>3, <1>4, <2>1 DEF Dropping, RegistryInv
  <2> QED BY <1>0, <1>6, <2>2, <2>3, <2>4 DEF RegistryInv
<1> QED BY <1>7, <1>8

-----------------------------------------------------------------------------
(* The types are kept                                                      *)

LEMMA RecordsTyped ==
  /\ NoRecord \in RunAgent
  /\ \A a \in Selection, b \in Selection : [active |-> a, pending |-> b] \in RunAgent
  /\ \A R \in RunAgent : /\ R.active \in Selection /\ R.pending \in Selection
                         /\ ResolveRunAgent(R) \in Selection
  /\ \A R \in RunAgent, w \in Workspaces : [R EXCEPT !.pending = w] \in RunAgent
BY DEF NoRecord, RunAgent, Selection, ResolveRunAgent

LEMMA NoRunTyped == NoRun \in RunFields
<1>1. (CHOOSE p \in Peers : TRUE) \in Peers /\ (CHOOSE w \in Workspaces : TRUE) \in Workspaces
  BY AgentHostAssumption
<1> QED BY <1>1 DEF NoRun, RunFields

\* What one run's consumer does next.
LEMMA ConsumerEffect ==
  ASSUME RunsTyped, NEW r \in Run, NEW l \in {"none", "running", "error", "closing", "releasing", "done"},
         run' = [run EXCEPT ![r].consumer = l]
  PROVE  /\ run' \in [Run -> RunFields]
         /\ \A x \in Run : x # r => run'[x] = run[x]
         /\ SameRun(run'[r], run[r]) /\ run'[r].att = run[r].att /\ run'[r].consumer = l
<1>1. PICK R : R = [run[r] EXCEPT !.consumer = l]
  OBVIOUS
<1>2. run' = [run EXCEPT ![r] = R]
  BY <1>1
<1>3. R \in RunFields /\ R.att = run[r].att /\ R.consumer = l /\ SameRun(R, run[r])
  BY <1>1, ConsumerUpdated DEF RunsTyped
<1> QED BY <1>2, <1>3, RunUpdated

\* The input that Reload opens, and the one that it closes.
LEMMA OpenInputEffect ==
  ASSUME Typed, NEW c \in Caller, cur[c] \in Run, sel[c] \in Workspaces, OpenAgentInput(c)
  PROVE  /\ run' \in [Run -> RunFields]
         /\ \A x \in Run : x # cur[c] => Alike(x)
         /\ run'[cur[c]].peer = Of(c) /\ run'[cur[c]].ws = sel[c]
         /\ run'[cur[c]].att = "none" /\ run'[cur[c]].consumer = "none"
<1> DEFINE new == [peer |-> Of(c), ws |-> sel[c], input |-> "open", cancelled |-> FALSE,
                   att |-> "none", agent |-> None, consumer |-> "none"]
           old(x) == IF x = source[Of(c)] THEN [run[x] EXCEPT !.input = "closed"] ELSE run[x]
<1>1. run' = [x \in Run |-> IF x = cur[c] THEN new ELSE old(x)]
  BY DEF OpenAgentInput
<1>2. new \in RunFields
  BY OfTyped DEF RunFields
<1>3. ASSUME NEW x \in Run
      PROVE  old(x) \in RunFields /\ SameRun(old(x), run[x]) /\ old(x).att = run[x].att
             /\ old(x).consumer = run[x].consumer
  <2>1. run[x] \in RunFields
    BY DEF Typed, RunsTyped
  <2>2. CASE x = source[Of(c)]
    BY <2>1, <2>2, InputUpdated
  <2>3. CASE x # source[Of(c)]
    BY <2>1, <2>3 DEF SameRun
  <2> QED BY <2>2, <2>3
<1>4. run' \in [Run -> RunFields]
  <2> HIDE DEF new, old
  <2> QED BY <1>1, <1>2, <1>3
<1>5. ASSUME NEW x \in Run, x # cur[c] PROVE Alike(x)
  <2>1. run'[x] = old(x)
    <3> HIDE DEF new, old
    <3> QED BY <1>1, <1>5
  <2> HIDE DEF old
  <2> QED BY <1>3, <2>1 DEF Alike, SameRun
<1>6. run'[cur[c]] = new
  <2> HIDE DEF new, old
  <2> QED BY <1>1
<1> QED BY <1>4, <1>5, <1>6

\* The attachment of a run to the agent of its workspace.
LEMMA OpenAgentEffect ==
  ASSUME Typed, NEW c \in Caller, cur[c] \in Run, sel[c] \in Workspaces, OpenAgent(c)
  PROVE  \E a \in Run \cup {None} :
           /\ a = IF entry[sel[c]] # NoEntry THEN entry[sel[c]].agent ELSE cur[c]
           /\ entry[sel[c]] # NoEntry \/ lease[sel[c]] = None
           /\ entry' = [entry EXCEPT ![sel[c]] = [agent |-> a, refs |-> entry[sel[c]].refs + 1]]
           /\ lease' = [lease EXCEPT ![sel[c]] = a]
           /\ run' \in [Run -> RunFields]
           /\ \A x \in Run : x # cur[c] => run'[x] = run[x]
           /\ run'[cur[c]].att = "held" /\ run'[cur[c]].agent = a
           /\ run'[cur[c]].ws = run[cur[c]].ws /\ run'[cur[c]].peer = run[cur[c]].peer
           /\ run'[cur[c]].consumer = run[cur[c]].consumer
<1>1. PICK a : a = IF entry[sel[c]] # NoEntry THEN entry[sel[c]].agent ELSE cur[c]
  OBVIOUS
<1>2. entry[sel[c]].agent \in Run \cup {None} /\ a \in Run \cup {None} /\ RunsTyped
  BY <1>1 DEF Typed, RegistryTyped
<1>3. /\ entry[sel[c]] # NoEntry \/ lease[sel[c]] = None
      /\ entry' = [entry EXCEPT ![sel[c]] = [agent |-> a, refs |-> entry[sel[c]].refs + 1]]
      /\ lease' = [lease EXCEPT ![sel[c]] = a]
      /\ run' = [run EXCEPT ![cur[c]].att = "held", ![cur[c]].agent = a]
  BY <1>1 DEF OpenAgent
<1>4. PICK R : R = [run[cur[c]] EXCEPT !.att = "held", !.agent = a]
  OBVIOUS
<1>5. run' = [run EXCEPT ![cur[c]] = R]
  BY <1>2, <1>3, <1>4 DEF RunsTyped, RunFields
<1>6. run[cur[c]] \in RunFields
  BY <1>2 DEF RunsTyped
<1>7. /\ R \in RunFields /\ R.att = "held" /\ R.agent = a /\ R.ws = run[cur[c]].ws
      /\ R.peer = run[cur[c]].peer /\ R.consumer = run[cur[c]].consumer
  BY <1>2, <1>4, <1>6 DEF RunFields
<1>8. /\ run' \in [Run -> RunFields] /\ run'[cur[c]] = R
      /\ \A x \in Run : x # cur[c] => run'[x] = run[x]
  BY <1>2, <1>5, <1>7, RunUpdated
<1> QED BY <1>1, <1>2, <1>3, <1>7, <1>8

-----------------------------------------------------------------------------
(* What a step leaves of the other callers                                 *)

Others ==
  /\ OwnRuns /\ CurrentIsAttached
  /\ \A w \in Workspaces : RegistryInv(w)
  /\ \A r \in Run : RunInv(r)
  /\ \A c \in Caller : CallerInv(c)
Inv == Typed /\ Others

\* What a caller knows of the run it opens.
AsKnown(x) ==
  /\ run'[x].peer = run[x].peer /\ run'[x].ws = run[x].ws
  /\ run'[x].att = run[x].att /\ run'[x].consumer = run[x].consumer

\* Its run is still without a consumer and, while nobody else knows it, as it was.
Knows(d) ==
  /\ Reloading(d) => run'[cur[d]].consumer = run[cur[d]].consumer
  /\ Private(d) => AsKnown(cur[d])

\* The caller is where it was in its code.
Stays(d) == pc'[d] = pc[d] /\ cur'[d] = cur[d] /\ prev'[d] = prev[d] /\ sel'[d] = sel[d]

LEMMA CallerKept ==
  ASSUME Typed, Typed', NEW d \in Caller, CallerInv(d), Stays(d), runs <= runs',
         Knows(d),
         \A p \in Peers : \/ runtime'[p] \in {runtime[p], None}
                          \/ /\ prev[d] # None => runtime'[p] # prev[d]
                             /\ Private(d) => runtime'[p] # cur[d],
         Private(d) => \A e \in Caller : prev'[e] # cur[d]
  PROVE  CallerInv(d)'
<1>0. /\ runs \in Nat /\ runs' \in Nat /\ cur[d] \in Nat /\ prev[d] \in Nat
      /\ pc[d] \in ReloadLabels \cup CloseLabels
  BY AgentHostAssumption DEF Typed, RunsTyped, CallsTyped, Run, None
<1>1. (Reloading(d)' <=> Reloading(d)) /\ (Private(d)' <=> Private(d))
  BY DEF Stays, Reloading, Private
<1>2. pc'[d] \in IF d \in Closing THEN CloseLabels ELSE ReloadLabels
  BY DEF CallerInv, Stays
<1>3. cur'[d] <= runs' /\ prev'[d] <= runs'
  BY <1>0 DEF CallerInv, Stays
<1>4. Reloading(d)' => cur'[d] # None /\ sel'[d] \in Workspaces /\ run'[cur'[d]].consumer = "none"
  BY <1>1 DEF CallerInv, Stays, Knows
<1>5. pc'[d] \in {"stopping", "stop", "stopWait"} => prev'[d] # None
  BY DEF CallerInv, Stays
<1>6. prev'[d] # None => \A p \in Peers : runtime'[p] # prev'[d]
  BY DEF CallerInv, Stays
<1>7. Private(d)' => \A p \in Peers : runtime'[p] # cur'[d]
  BY <1>1 DEF CallerInv, Stays, Private
<1>8. Private(d)' => \A e \in Caller : prev'[e] # cur'[d]
  BY <1>1 DEF Stays
<1>9. Private(d)' /\ pc'[d] \in {"starting", "swap", "stop", "stopWait", "open", "agent"} =>
        run'[cur'[d]].att = "none"
  BY <1>1 DEF CallerInv, Stays, Knows, AsKnown
<1>10. pc[d] \in {"agent", "activate", "write", "install"} => Private(d)
  BY DEF CallerInv, Private, Reloading, CloseLabels, ReloadLabels, Caller
<1>11. pc'[d] \in {"agent", "activate", "write", "install"} =>
         run'[cur'[d]].ws = sel'[d] /\ run'[cur'[d]].peer = Of(d)
  BY <1>10 DEF CallerInv, Stays, Knows, AsKnown
<1>12. pc'[d] \in {"activate", "write", "install"} => run'[cur'[d]].att = "held"
  BY <1>10 DEF CallerInv, Stays, Knows, AsKnown
<1> QED BY <1>2, <1>3, <1>4, <1>5, <1>6, <1>7, <1>8, <1>9, <1>11, <1>12 DEF CallerInv

\* A step of caller c, as far as the others are concerned.
CallerMoves(c) ==
  /\ \A d \in Caller \ {c} : Stays(d)
  /\ runs <= runs'
  /\ cur'[c] \in {cur[c], None} \/ cur'[c] > runs
  /\ \A p \in Peers : \/ runtime'[p] \in {runtime[p], None}
                      \/ Private(c) /\ runtime'[p] = cur[c]
  /\ prev'[c] \in {prev[c], None} \/ \E p \in Peers : prev'[c] = runtime[p]
  /\ \A d \in Caller \ {c} : Knows(d)

LEMMA CallersKept ==
  ASSUME Inv, Typed', NEW c \in Caller, CallerMoves(c), CallerInv(c)'
  PROVE  OwnRuns' /\ \A d \in Caller : CallerInv(d)'
<1>0. Typed /\ OwnRuns /\ \A d \in Caller : CallerInv(d)
  BY DEF Inv, Others
<1>1. ASSUME NEW d \in Caller, d # c PROVE CallerInv(d)'
  <2>1. Stays(d) /\ runs <= runs' /\ Knows(d)
    BY <1>1 DEF CallerMoves
  <2>2. ASSUME NEW p \in Peers, runtime'[p] \notin {runtime[p], None}
        PROVE  /\ prev[d] # None => runtime'[p] # prev[d]
               /\ Private(d) => runtime'[p] # cur[d]
    <3>1. Private(c) /\ runtime'[p] = cur[c]
      BY <2>2 DEF CallerMoves
    <3>2. cur[c] # None /\ \A e \in Caller : prev[e] # cur[c]
      BY <1>0, <3>1 DEF CallerInv, Private
    <3>3. cur[d] # cur[c]
      BY <1>0, <1>1, <3>2 DEF OwnRuns
    <3> QED BY <3>1, <3>2, <3>3
  <2>3. ASSUME Private(d), NEW e \in Caller PROVE prev'[e] # cur[d]
    <3>1. /\ cur[d] # None /\ prev[e] # cur[d]
          /\ \A p \in Peers : runtime[p] # cur[d]
      BY <1>0, <2>3 DEF CallerInv, Private
    <3>2. CASE e = c
      BY <3>1, <3>2 DEF CallerMoves
    <3>3. CASE e # c
      BY <3>1, <3>3 DEF CallerMoves, Stays
    <3> QED BY <3>2, <3>3
  <2> QED BY <1>0, <2>1, <2>2, <2>3, CallerKept
<1>2. OwnRuns'
  <2>0. runs \in Nat /\ \A d \in Caller : cur[d] \in Nat /\ cur[d] <= runs
    BY <1>0, AgentHostAssumption DEF CallerInv, Typed, RunsTyped, CallsTyped, Run, None
  <2>1. \A d \in Caller \ {c} : cur'[d] = cur[d]
    BY DEF CallerMoves, Stays
  <2>2. CASE cur'[c] \in {cur[c], None}
    BY <1>0, <2>1, <2>2 DEF OwnRuns
  <2>3. CASE cur'[c] > runs
    <3>1. \A d \in Caller \ {c} : cur'[d] # cur'[c]
      BY <2>0, <2>1, <2>3
    <3> QED BY <1>0, <2>1, <3>1 DEF OwnRuns
  <2> QED BY <2>2, <2>3 DEF CallerMoves
<1> QED BY <1>1, <1>2

\* A runtime that stays current is still attached.
LEMMA CurrentKept ==
  ASSUME Inv, \A p \in Peers : \/ runtime'[p] = None
                               \/ runtime'[p] = runtime[p] /\ AsKnown(runtime[p])
  PROVE  CurrentIsAttached'
BY DEF Inv, Others, CurrentIsAttached, AsKnown

\* A step that changes no attachment, no consumer and no current runtime.
LEMMA QuietStep ==
  ASSUME Inv, Typed', \A x \in Run : Alike(x), UNCHANGED <<entry, lease, runtime, runs>>,
         NEW c \in Caller, \A d \in Caller \ {c} : Stays(d),
         cur'[c] \in {cur[c], None}, prev'[c] \in {prev[c], None}, CallerInv(c)'
  PROVE  Inv'
<1>0. Typed /\ \A d \in Caller : cur[d] \in Run \cup {None}
  BY DEF Inv, Typed, CallsTyped
<1>1. \A w \in Workspaces : RegistryInv(w)'
  <2>1. \A x \in Run : Kept(x)
    BY DEF Alike, Kept
  <2> QED BY <2>1, QuietRegistry DEF Inv, Others
<1>2. \A r \in Run : RunInv(r)'
  BY DEF Inv, Others, RunInv, Alike, Attached
<1>3. CallerMoves(c)
  <2>1. runs <= runs'
    BY <1>0, AgentHostAssumption DEF Typed, RunsTyped
  <2>2. \A d \in Caller : Reloading(d) => cur[d] \in Run
    BY <1>0 DEF Inv, Others, CallerInv
  <2>3. \A d \in Caller \ {c} : Knows(d)
    BY <2>2 DEF Alike, AsKnown, Knows, Private
  <2> QED BY <2>1, <2>3 DEF CallerMoves
<1>4. OwnRuns' /\ \A d \in Caller : CallerInv(d)'
  BY <1>3, CallersKept
<1>5. CurrentIsAttached'
  <2>1. \A p \in Peers : runtime[p] \in Run \cup {None}
    BY <1>0 DEF Typed, ServiceTyped
  <2>2. \A p \in Peers : runtime[p] # None => AsKnown(runtime[p])
    BY <2>1 DEF Alike, AsKnown
  <2> QED BY <2>2, CurrentKept
<1> QED BY <1>1, <1>2, <1>4, <1>5 DEF Inv, Others

-----------------------------------------------------------------------------
(* Steps that change neither attachments nor current runtimes              *)

LEMMA QuietCaller ==
  ASSUME Inv, NEW c \in Caller, NEW l, pc'[c] = l,
         cur'[c] = cur[c], sel'[c] = sel[c], prev'[c] \in {prev[c], None},
         \A d \in Caller \ {c} : prev'[d] = prev[d],
         UNCHANGED <<runtime, runs>>, \A x \in Run : Alike(x),
         l \in IF c \in Closing THEN CloseLabels ELSE ReloadLabels,
         l \notin {"agent", "running"},
         l \in ReloadLabels \ {"idle", "fail"} /\ c \in Reloaders => Private(c),
         l \in {"stopping", "stop", "stopWait"} => prev'[c] # None,
         l \in {"starting", "swap", "stop", "stopWait", "open"} /\ c \in Reloaders =>
           pc[c] \in {"starting", "swap", "stop", "stopWait", "open"},
         l \in {"activate", "write", "install"} => pc[c] \in {"activate", "write", "install"}
  PROVE  CallerInv(c)'
<1>0. CallerInv(c) /\ Typed /\ runs \in Nat /\ cur[c] \in Run \cup {None} /\ prev[c] \in Run \cup {None}
  BY AgentHostAssumption DEF Inv, Others, Typed, CallsTyped, RunsTyped
<1>1. Private(c)' => Private(c)
  BY DEF Private, Reloading, ReloadLabels
<1>2. Reloading(c)' => Private(c) /\ Private(c)' /\ Reloading(c)
  BY DEF Private, Reloading, ReloadLabels
<1>3. Private(c) => cur[c] \in Run
  BY <1>0 DEF CallerInv, Private
<1>4. Private(c) => run'[cur[c]].att = run[cur[c]].att /\ run'[cur[c]].consumer = run[cur[c]].consumer
                    /\ run'[cur[c]].ws = run[cur[c]].ws /\ run'[cur[c]].peer = run[cur[c]].peer
  BY <1>3 DEF Alike
<1>5. cur'[c] <= runs' /\ prev'[c] <= runs'
  BY <1>0 DEF CallerInv, None
<1>6. Reloading(c)' => cur'[c] # None /\ sel'[c] \in Workspaces /\ run'[cur'[c]].consumer = "none"
  BY <1>0, <1>2, <1>4 DEF CallerInv
<1>7. prev'[c] # None => \A p \in Peers : runtime'[p] # prev'[c]
  BY <1>0 DEF CallerInv
<1>8. Private(c)' => /\ \A p \in Peers : runtime'[p] # cur'[c]
                     /\ \A d \in Caller : prev'[d] # cur'[c]
  BY <1>0, <1>1, <1>3 DEF CallerInv, None, Run
<1>9. Private(c)' /\ pc'[c] \in {"starting", "swap", "stop", "stopWait", "open", "agent"} =>
        run'[cur'[c]].att = "none"
  <2>1. Private(c)' => c \in Reloaders
    BY DEF Private, Reloading
  <2> QED BY <1>0, <1>1, <1>4, <2>1 DEF CallerInv
<1>10. pc'[c] \in {"agent", "activate", "write", "install"} => Private(c)'
  <2>1. pc'[c] \in {"agent", "activate", "write", "install"} => c \in Reloaders
    BY DEF CloseLabels, Caller
  <2> QED BY <2>1 DEF Private, Reloading, ReloadLabels
<1>11. pc'[c] \in {"agent", "activate", "write", "install"} =>
         run'[cur'[c]].ws = sel'[c] /\ run'[cur'[c]].peer = Of(c)
  BY <1>0, <1>1, <1>4, <1>10 DEF CallerInv
<1>12. pc'[c] \in {"activate", "write", "install"} => run'[cur'[c]].att = "held"
  BY <1>0, <1>1, <1>4, <1>10 DEF CallerInv
<1> QED BY <1>5, <1>6, <1>7, <1>8, <1>9, <1>11, <1>12 DEF CallerInv

\* A call that returns knows nothing any more.
LEMMA ReturnCaller ==
  ASSUME Inv, NEW c \in Reloaders, Return(c), runs' = runs
  PROVE  CallsTyped' /\ CallerInv(c)' /\ (\A d \in Caller \ {c} : Stays(d))
         /\ cur'[c] = None /\ prev'[c] = None
<1>0. CallsTyped /\ c \in Caller /\ c \notin Closing /\ runs \in Nat
  BY AgentHostAssumption DEF Inv, Typed, RunsTyped, Caller
<1>1. /\ pc'[c] = "idle" /\ cur'[c] = None /\ prev'[c] = None
      /\ \A d \in Caller \ {c} : Stays(d)
  BY <1>0 DEF Return, CallsTyped, Stays
<1>2. CallsTyped'
  BY <1>0, RecordsTyped DEF Return, CallsTyped, ReloadLabels, Selection, NoWorkspace
<1>3. CallerInv(c)'
  BY <1>0, <1>1 DEF CallerInv, Reloading, Private, ReloadLabels, None
<1> QED BY <1>1, <1>2, <1>3

\* What a Goto leaves.
LEMMA GotoCaller ==
  ASSUME Inv, NEW c \in Caller, NEW l \in ReloadLabels \cup CloseLabels, Goto(c, l),
         NEW e \in Run \cup {None}, prev' = [prev EXCEPT ![c] = e], UNCHANGED <<sel, cur, record>>
  PROVE  /\ CallsTyped' /\ pc'[c] = l /\ cur'[c] = cur[c] /\ sel'[c] = sel[c] /\ prev'[c] = e
         /\ \A d \in Caller \ {c} : Stays(d)
BY DEF Inv, Typed, CallsTyped, Goto, Stays

LEMMA GotoOnly ==
  ASSUME Inv, NEW c \in Caller, NEW l \in ReloadLabels \cup CloseLabels, Goto(c, l),
         UNCHANGED <<sel, cur, prev, record>>
  PROVE  /\ CallsTyped' /\ pc'[c] = l /\ cur'[c] = cur[c] /\ sel'[c] = sel[c] /\ prev'[c] = prev[c]
         /\ \A d \in Caller \ {c} : Stays(d)
BY DEF Inv, Typed, CallsTyped, Goto, Stays

LEMMA NothingRuns ==
  ASSUME Inv, run' = run
  PROVE  run' \in [Run -> RunFields] /\ \A x \in Run : Alike(x)
BY DEF Inv, Typed, RunsTyped, Alike

\* The types and the labels a step may rely on.
LEMMA CallerFacts ==
  ASSUME Inv, NEW c \in Caller
  PROVE  /\ StoreTyped /\ ServiceTyped /\ RunsTyped /\ RegistryTyped /\ CallsTyped /\ CallerInv(c)
         /\ Of(c) \in Peers
         /\ c \in Reloaders => c \notin Closing
         /\ pc[c] \in ReloadLabels \ CloseLabels => c \in Reloaders
BY AgentHostAssumption, OfTyped DEF Inv, Typed, Others, CallerInv, Caller

-----------------------------------------------------------------------------
(* The steps                                                               *)

\* A caller that goes on without touching attachments or current runtimes.
LEMMA QuietGoto ==
  ASSUME Inv, NEW c \in Caller, NEW l, Goto(c, l), UNCHANGED <<sel, cur>>,
         prev' = prev \/ prev' = [prev EXCEPT ![c] = None],
         record' \in [Caller -> RunAgent], StoreTyped', ServiceTyped',
         UNCHANGED <<entry, lease, runtime, runs>>,
         run' \in [Run -> RunFields], \A x \in Run : Alike(x),
         l \in IF c \in Closing THEN CloseLabels ELSE ReloadLabels,
         l \notin {"agent", "running"},
         l \in ReloadLabels \ {"idle", "fail"} /\ c \in Reloaders => Private(c),
         l \in {"stopping", "stop", "stopWait"} => prev[c] # None /\ prev' = prev,
         l \in {"starting", "swap", "stop", "stopWait", "open"} /\ c \in Reloaders =>
           pc[c] \in {"starting", "swap", "stop", "stopWait", "open"},
         l \in {"activate", "write", "install"} => pc[c] \in {"activate", "write", "install"}
  PROVE  Inv'
<1>0. StoreTyped /\ ServiceTyped /\ RunsTyped /\ RegistryTyped /\ CallsTyped
  BY CallerFacts
<1>1. /\ pc' \in [Caller -> ReloadLabels \cup CloseLabels] /\ pc'[c] = l
      /\ \A d \in Caller \ {c} : pc'[d] = pc[d]
  BY <1>0 DEF CallsTyped, Goto
<1>2. /\ prev' \in [Caller -> Run \cup {None}] /\ prev'[c] \in {prev[c], None}
      /\ \A d \in Caller \ {c} : prev'[d] = prev[d]
  BY <1>0 DEF CallsTyped
<1>3. Typed'
  BY <1>0, <1>1, <1>2 DEF Typed, RunsTyped, RegistryTyped, CallsTyped
<1>4. \A d \in Caller \ {c} : Stays(d)
  BY <1>1, <1>2 DEF Stays
<1>5. l \in {"stopping", "stop", "stopWait"} => prev'[c] # None
  OBVIOUS
<1>6. CallerInv(c)'
  BY <1>1, <1>2, <1>5, QuietCaller
<1> QED BY <1>2, <1>3, <1>4, <1>6, QuietStep

LEMMA StatusSet ==
  ASSUME ServiceTyped, NEW p \in Peers, NEW st \in Status, SetStatus(p, st), UNCHANGED <<runtime, source>>
  PROVE  ServiceTyped'
BY DEF ServiceTyped, SetStatus

LEMMA ReloadFailKeeps ==
  ASSUME Inv, NEW c \in Reloaders, ReloadFail(c)
  PROVE  Inv'
<1>0. c \in Caller /\ Return(c) /\ UNCHANGED <<entry, lease, runtime, runs, run>>
  BY DEF ReloadFail, Caller, registryVars
<1>1. /\ CallsTyped' /\ CallerInv(c)' /\ (\A d \in Caller \ {c} : Stays(d))
      /\ cur'[c] = None /\ prev'[c] = None
  BY <1>0, ReturnCaller
<1>2. run' \in [Run -> RunFields] /\ \A x \in Run : Alike(x)
  BY <1>0, NothingRuns
<1>3. ServiceTyped'
  BY <1>0, CallerFacts, StatusSet DEF ReloadFail, Status
<1>4. Typed'
  BY <1>0, <1>1, <1>2, <1>3 DEF Inv, Typed, ReloadFail, StoreTyped, storeVars, RunsTyped, RegistryTyped
<1> QED BY <1>0, <1>1, <1>2, <1>4, QuietStep

LEMMA ReloadStartingKeeps ==
  ASSUME Inv, NEW c \in Caller, ReloadStarting(c)
  PROVE  Inv'
<1>1. pc[c] = "starting" /\ c \in Reloaders /\ c \notin Closing /\ Private(c)
  BY CallerFacts DEF ReloadStarting, ReloadLabels, CloseLabels, Private, Reloading
<1>2. run' \in [Run -> RunFields] /\ \A x \in Run : Alike(x)
  BY NothingRuns DEF ReloadStarting
<1>3. ServiceTyped'
  BY CallerFacts, StatusSet DEF ReloadStarting, Status
<1>4. StoreTyped' /\ record' \in [Caller -> RunAgent]
  BY CallerFacts DEF ReloadStarting, StoreTyped, storeVars, CallsTyped
<1>5. /\ Goto(c, "swap") /\ UNCHANGED <<sel, cur>> /\ prev' = prev
      /\ UNCHANGED <<entry, lease, runtime, runs>>
  BY DEF ReloadStarting, registryVars
<1> QED BY <1>1, <1>2, <1>3, <1>4, <1>5, QuietGoto DEF ReloadLabels

LEMMA StopSignalKeeps ==
  ASSUME Inv, NEW c \in Caller, StopSignal(c)
  PROVE  Inv'
<1>2. pc[c] = "stop" /\ CallerInv(c) /\ RunsTyped /\ CallsTyped
  BY CallerFacts DEF StopSignal
<1>3. prev[c] # None /\ prev[c] \in Run
  BY <1>2 DEF CallerInv, CallsTyped
<1>4. run' \in [Run -> RunFields] /\ \A x \in Run : Alike(x)
  BY <1>2, <1>3, SignalEffect DEF StopSignal
<1>5. StoreTyped' /\ ServiceTyped' /\ record' \in [Caller -> RunAgent]
  BY CallerFacts DEF StopSignal, StoreTyped, ServiceTyped, storeVars, serviceVars, CallsTyped
<1>6. /\ Goto(c, "stopWait") /\ UNCHANGED <<sel, cur>> /\ prev' = prev
      /\ UNCHANGED <<entry, lease, runtime, runs>>
  BY DEF StopSignal, registryVars, serviceVars
<1>7. c \in Reloaders => Private(c)
  BY <1>2 DEF Private, Reloading, ReloadLabels
<1>8. "stopWait" \in IF c \in Closing THEN CloseLabels ELSE ReloadLabels
  BY DEF CloseLabels, ReloadLabels
<1> QED BY <1>2, <1>3, <1>4, <1>5, <1>6, <1>7, <1>8, QuietGoto DEF ReloadLabels

LEMMA StopWaitKeeps ==
  ASSUME Inv, NEW c \in Caller, StopWait(c)
  PROVE  Inv'
<1>1. pc[c] = "stopWait"
  BY DEF StopWait
<1>2. run' \in [Run -> RunFields] /\ \A x \in Run : Alike(x)
  BY NothingRuns DEF StopWait
<1>3. StoreTyped' /\ ServiceTyped' /\ record' \in [Caller -> RunAgent]
  BY CallerFacts DEF StopWait, StoreTyped, ServiceTyped, storeVars, serviceVars, CallsTyped
<1>4. /\ Goto(c, IF c \in Closing THEN "stopped" ELSE "open") /\ UNCHANGED <<sel, cur>>
      /\ prev' = [prev EXCEPT ![c] = None] /\ UNCHANGED <<entry, lease, runtime, runs>>
  BY DEF StopWait, registryVars, serviceVars
<1>5. CASE c \in Closing
  <2>1. c \notin Reloaders /\ Goto(c, "stopped")
    BY <1>4, <1>5, CallerFacts
  <2> QED BY <1>2, <1>3, <1>4, <1>5, <2>1, QuietGoto DEF CloseLabels, ReloadLabels
<1>6. CASE c \notin Closing
  <2>1. Private(c) /\ Goto(c, "open")
    BY <1>1, <1>4, <1>6 DEF Private, Reloading, ReloadLabels, Caller
  <2> QED BY <1>1, <1>2, <1>3, <1>4, <1>6, <2>1, QuietGoto DEF ReloadLabels
<1> QED BY <1>5, <1>6

LEMMA OpenAgentFailKeeps ==
  ASSUME Inv, NEW c \in Caller, OpenAgentFail(c)
  PROVE  Inv'
<1>1. pc[c] = "agent" /\ c \in Reloaders /\ c \notin Closing
  BY CallerFacts DEF OpenAgentFail, ReloadLabels, CloseLabels
<1>2. RunsTyped /\ cur[c] \in Run
  BY <1>1, CallerFacts DEF CallerInv, Reloading, ReloadLabels, CallsTyped
<1>3. run' \in [Run -> RunFields] /\ \A x \in Run : Alike(x)
  BY <1>2, SignalEffect DEF OpenAgentFail
<1>4. StoreTyped' /\ ServiceTyped' /\ record' \in [Caller -> RunAgent]
  BY CallerFacts DEF OpenAgentFail, StoreTyped, ServiceTyped, storeVars, serviceVars, CallsTyped
<1>5. /\ Goto(c, "fail") /\ UNCHANGED <<sel, cur>> /\ prev' = prev
      /\ UNCHANGED <<entry, lease, runtime, runs>>
  BY DEF OpenAgentFail, registryVars, serviceVars
<1> QED BY <1>1, <1>3, <1>4, <1>5, QuietGoto DEF ReloadLabels

LEMMA ActivateReadKeeps ==
  ASSUME Inv, NEW c \in Caller, ActivateRead(c)
  PROVE  Inv'
<1>1. pc[c] = "activate" /\ c \in Reloaders /\ c \notin Closing /\ Private(c)
  BY CallerFacts DEF ActivateRead, ReloadLabels, CloseLabels, Private, Reloading
<1>2. run' \in [Run -> RunFields] /\ \A x \in Run : Alike(x)
  BY NothingRuns DEF ActivateRead
<1>3. StoreTyped' /\ ServiceTyped'
  BY CallerFacts DEF ActivateRead, StoreTyped, ServiceTyped, storeVars, serviceVars
<1>4. record' \in [Caller -> RunAgent]
  <2>1. NoWorkspace \in Selection /\ sel[c] \in Selection
    BY CallerFacts DEF Selection, CallsTyped
  <2>2. PICK R \in RunAgent : R = [active |-> sel[c], pending |-> NoWorkspace]
    BY <2>1, RecordsTyped
  <2>3. record' = [record EXCEPT ![c] = R]
    BY <2>2 DEF ActivateRead
  <2> QED BY <2>3, CallerFacts DEF CallsTyped
<1>5. /\ Goto(c, "write") /\ UNCHANGED <<sel, cur>> /\ prev' = prev
      /\ UNCHANGED <<entry, lease, runtime, runs>>
  BY DEF ActivateRead, registryVars, serviceVars
<1> QED BY <1>1, <1>2, <1>3, <1>4, <1>5, QuietGoto DEF ReloadLabels

LEMMA ActivateWriteKeeps ==
  ASSUME Inv, NEW c \in Caller, ActivateWrite(c)
  PROVE  Inv'
<1>1. pc[c] = "write" /\ c \in Reloaders /\ c \notin Closing /\ Private(c)
  BY CallerFacts DEF ActivateWrite, ReloadLabels, CloseLabels, Private, Reloading
<1>2. run' \in [Run -> RunFields] /\ \A x \in Run : Alike(x)
  BY NothingRuns DEF ActivateWrite
<1>3. ServiceTyped' /\ record' \in [Caller -> RunAgent]
  BY CallerFacts DEF ActivateWrite, ServiceTyped, serviceVars, CallsTyped
<1>4. StoreTyped'
  BY CallerFacts DEF ActivateWrite, StoreTyped, CallsTyped
<1>5. /\ Goto(c, "install") /\ UNCHANGED <<sel, cur>> /\ prev' = prev
      /\ UNCHANGED <<entry, lease, runtime, runs>>
  BY DEF ActivateWrite, registryVars, serviceVars
<1> QED BY <1>1, <1>2, <1>3, <1>4, <1>5, QuietGoto DEF ReloadLabels

LEMMA CloseStoppingKeeps ==
  ASSUME Inv, NEW p \in Closing, CloseStopping(p)
  PROVE  Inv'
<1>0. p \in Caller /\ Of(p) = p /\ p \in Peers /\ p \notin Reloaders
  BY AgentHostAssumption DEF Caller, Of
<1>1. pc[p] = "stopping" /\ prev[p] # None
  BY <1>0, CallerFacts DEF CloseStopping, CallerInv
<1>2. run' \in [Run -> RunFields] /\ \A x \in Run : Alike(x)
  BY NothingRuns DEF CloseStopping
<1>3. ServiceTyped'
  BY <1>0, CallerFacts, StatusSet DEF CloseStopping, Status
<1>4. StoreTyped' /\ record' \in [Caller -> RunAgent]
  BY <1>0, CallerFacts DEF CloseStopping, StoreTyped, storeVars, CallsTyped
<1>5. /\ Goto(p, "stop") /\ UNCHANGED <<sel, cur>> /\ prev' = prev
      /\ UNCHANGED <<entry, lease, runtime, runs>>
  BY DEF CloseStopping, registryVars
<1> QED BY <1>0, <1>1, <1>2, <1>3, <1>4, <1>5, QuietGoto DEF ReloadLabels, CloseLabels

LEMMA CloseStoppedKeeps ==
  ASSUME Inv, NEW p \in Closing, CloseStopped(p)
  PROVE  Inv'
<1>0. p \in Caller /\ Of(p) = p /\ p \in Peers /\ p \notin Reloaders
  BY AgentHostAssumption DEF Caller, Of
<1>2. run' \in [Run -> RunFields] /\ \A x \in Run : Alike(x)
  BY NothingRuns DEF CloseStopped
<1>3. ServiceTyped'
  BY <1>0, CallerFacts, StatusSet DEF CloseStopped, Status
<1>4. StoreTyped' /\ record' \in [Caller -> RunAgent]
  BY <1>0, CallerFacts DEF CloseStopped, StoreTyped, storeVars, CallsTyped
<1>5. /\ Goto(p, "source") /\ UNCHANGED <<sel, cur>> /\ prev' = prev
      /\ UNCHANGED <<entry, lease, runtime, runs>>
  BY DEF CloseStopped, registryVars
<1> QED BY <1>0, <1>2, <1>3, <1>4, <1>5, QuietGoto DEF ReloadLabels, CloseLabels

LEMMA CloseSourceKeeps ==
  ASSUME Inv, NEW p \in Closing, CloseSource(p)
  PROVE  Inv'
<1>0. p \in Caller /\ Of(p) = p /\ p \in Peers /\ p \notin Reloaders
  BY AgentHostAssumption DEF Caller, Of
<1>1. RunsTyped /\ ServiceTyped /\ source[p] \in Run \cup {None}
  BY <1>0, CallerFacts DEF ServiceTyped
<1>2. run' \in [Run -> RunFields] /\ \A x \in Run : Alike(x)
  <2>1. CASE source[p] = None
    BY <2>1, NothingRuns DEF CloseSource
  <2>2. CASE source[p] # None
    <3>1. PICK S : S = [run[source[p]] EXCEPT !.input = "closed"]
      OBVIOUS
    <3>2. run' = [run EXCEPT ![source[p]] = S]
      BY <2>2, <3>1 DEF CloseSource
    <3>3. source[p] \in Run /\ run[source[p]] \in RunFields
      BY <1>1, <2>2 DEF RunsTyped
    <3>4. S \in RunFields /\ S.att = run[source[p]].att /\ S.consumer = run[source[p]].consumer
          /\ SameRun(S, run[source[p]])
      BY <3>1, <3>3, InputUpdated
    <3>5. /\ run' \in [Run -> RunFields] /\ run'[source[p]] = S
          /\ \A x \in Run : x # source[p] => run'[x] = run[x]
      BY <1>1, <3>2, <3>3, <3>4, RunUpdated
    <3> QED BY <3>4, <3>5 DEF Alike, SameRun
  <2> QED BY <2>1, <2>2
<1>3. ServiceTyped'
  BY <1>1 DEF CloseSource, ServiceTyped
<1>4. StoreTyped' /\ record' \in [Caller -> RunAgent]
  BY <1>0, CallerFacts DEF CloseSource, StoreTyped, storeVars, CallsTyped
<1>5. /\ Goto(p, "closed") /\ UNCHANGED <<sel, cur>> /\ prev' = prev
      /\ UNCHANGED <<entry, lease, runtime, runs>>
  BY DEF CloseSource, registryVars
<1> QED BY <1>0, <1>2, <1>3, <1>4, <1>5, QuietGoto DEF ReloadLabels, CloseLabels

\* The selection that SetRunAgent stores, and nothing at all.
LEMMA NothingMoves ==
  ASSUME Inv, Typed', UNCHANGED <<runtime, run, runs, entry, lease, pc, sel, cur, prev>>
  PROVE  Inv'
<1>1. OwnRuns' /\ CurrentIsAttached'
  BY DEF Inv, Others, OwnRuns, CurrentIsAttached
<1>2. \A w \in Workspaces : RegistryInv(w)'
  <2>1. \A x \in Run : Kept(x)
    BY DEF Kept
  <2> QED BY <2>1, QuietRegistry DEF Inv, Others
<1>3. \A r \in Run : RunInv(r)'
  BY DEF Inv, Others, RunInv, Attached
<1>4. \A c \in Caller : CallerInv(c)'
  <2>1. ASSUME NEW c \in Caller PROVE CallerInv(c)' <=> CallerInv(c)
    BY DEF CallerInv, Private, Reloading
  <2> QED BY <2>1 DEF Inv, Others
<1> QED BY <1>1, <1>2, <1>3, <1>4 DEF Inv, Others

LEMMA SetRunAgentReadKeeps ==
  ASSUME Inv, NEW p \in Peers, NEW w \in Workspaces, SetRunAgentRead(p, w)
  PROVE  Inv'
<1>0. StoreTyped /\ MaxSelects \in Nat
  BY AgentHostAssumption DEF Inv, Typed
<1>1. PICK R : R = [runAgent[p] EXCEPT !.pending = w]
  OBVIOUS
<1>2. R \in RunAgent
  BY <1>0, <1>1, RecordsTyped DEF StoreTyped
<1>3. /\ selects < MaxSelects /\ selects' = selects + 1 /\ runAgent' = runAgent
      /\ selecting' = [selecting EXCEPT ![p] = R]
      /\ UNCHANGED <<serviceVars, run, runs, registryVars, callVars>>
  BY <1>1 DEF SetRunAgentRead
<1>4. StoreTyped'
  BY <1>0, <1>2, <1>3 DEF StoreTyped
<1>5. Typed'
  BY <1>3, <1>4 DEF Inv, Typed, ServiceTyped, RunsTyped, RegistryTyped, CallsTyped, serviceVars,
     registryVars, callVars
<1> QED BY <1>3, <1>5, NothingMoves DEF serviceVars, registryVars, callVars

LEMMA SetRunAgentWriteKeeps ==
  ASSUME Inv, NEW p \in Peers, SetRunAgentWrite(p)
  PROVE  Inv'
<1>1. StoreTyped'
  BY RecordsTyped DEF Inv, Typed, StoreTyped, SetRunAgentWrite
<1>2. UNCHANGED <<serviceVars, run, runs, registryVars, callVars>>
  BY DEF SetRunAgentWrite
<1>3. Typed'
  BY <1>1, <1>2 DEF Inv, Typed, ServiceTyped, RunsTyped, RegistryTyped, CallsTyped, serviceVars,
     registryVars, callVars
<1> QED BY <1>2, <1>3, NothingMoves DEF serviceVars, registryVars, callVars

\* A current runtime is the number of an attempt that has begun.
LEMMA CurrentBegan ==
  ASSUME Inv, NEW p \in Peers, runtime[p] # None
  PROVE  /\ runtime[p] \in Run /\ runtime[p] <= runs /\ run[runtime[p]].att = "held"
         /\ \A q \in Peers : runtime[q] = runtime[p] => q = p
<1>1. runtime[p] \in Run /\ runs \in Nat
  BY AgentHostAssumption DEF Inv, Typed, ServiceTyped, RunsTyped
<1>2. run[runtime[p]].att = "held" /\ run[runtime[p]].peer = p
  BY DEF Inv, Others, CurrentIsAttached
<1>3. runtime[p] <= runs
  BY <1>1, <1>2 DEF Inv, Others, RunInv, Run
<1>4. \A q \in Peers : runtime[q] = runtime[p] => q = p
  BY <1>1, <1>2 DEF Inv, Others, CurrentIsAttached, Run, None
<1> QED BY <1>1, <1>2, <1>3, <1>4

\* Reload has resolved what it is to open: an attempt of its own begins.
LEMMA ReloadResolveKeeps ==
  ASSUME Inv, NEW c \in Reloaders, ReloadResolve(c)
  PROVE  Inv'
<1>0. /\ c \in Caller /\ c \notin Closing /\ MaxRuns \in Nat /\ runs \in Nat
      /\ StoreTyped /\ ServiceTyped /\ RunsTyped /\ RegistryTyped /\ CallsTyped /\ CallerInv(c)
      /\ Of(c) \in Peers
  BY CallerFacts, AgentHostAssumption DEF Caller, RunsTyped
<1>1. PICK w \in Selection : w = ResolveRunAgent(runAgent[Of(c)])
  BY <1>0, RecordsTyped DEF StoreTyped
<1>2. PICK l \in {"fail", "starting"} :
        Goto(c, l) /\ (l = "starting" => w # NoWorkspace)
  BY <1>1 DEF ReloadResolve
<1>3. /\ pc[c] = "idle" /\ runs < MaxRuns /\ runs' = runs + 1
      /\ sel' = [sel EXCEPT ![c] = w] /\ cur' = [cur EXCEPT ![c] = runs + 1]
      /\ UNCHANGED <<runAgent, selecting, selects, runtime, status, source, run, entry, lease, prev, record>>
  BY <1>1 DEF ReloadResolve, storeVars, serviceVars, registryVars
<1>4. runs + 1 \in Run /\ runs + 1 > runs /\ runs' \in 0 .. MaxRuns /\ runs + 1 # None
  BY <1>0, <1>3 DEF Run, None
<1>5. /\ CallsTyped' /\ pc'[c] = l /\ cur'[c] = runs + 1 /\ sel'[c] = w /\ prev'[c] = prev[c]
      /\ \A d \in Caller \ {c} : Stays(d)
  <2>1. pc' = [pc EXCEPT ![c] = l] /\ l \in ReloadLabels
    BY <1>2 DEF Goto, ReloadLabels
  <2> QED BY <1>0, <1>1, <1>3, <1>4, <2>1 DEF CallsTyped, Stays
<1>6. Typed'
  BY <1>0, <1>3, <1>4, <1>5 DEF Typed, StoreTyped, ServiceTyped, RunsTyped, RegistryTyped
<1>7. run[runs + 1].att = "none" /\ run[runs + 1].consumer = "none"
  BY <1>4 DEF Inv, Others, RunInv
<1>8. \A p \in Peers : runtime[p] # runs + 1
  BY <1>4, <1>7, CurrentBegan
<1>9. \A d \in Caller : prev[d] <= runs /\ prev[d] \in Nat
  BY <1>0 DEF Inv, Others, CallerInv, CallsTyped, Run, None
<1>10. \A d \in Caller : prev'[d] # runs + 1
  BY <1>3, <1>4, <1>9, <1>0
<1>11. CallerInv(c)'
  <2>1. pc'[c] \in {"fail", "starting"} /\ pc'[c] \in ReloadLabels
    BY <1>5 DEF ReloadLabels
  <2>2. cur'[c] <= runs' /\ prev'[c] <= runs'
    BY <1>0, <1>3, <1>5, <1>9
  <2>3. Reloading(c)' => sel'[c] \in Workspaces
    BY <1>2, <1>5 DEF Reloading, Selection
  <2>4. prev'[c] # None => \A p \in Peers : runtime'[p] # prev'[c]
    BY <1>0, <1>3, <1>5 DEF CallerInv
  <2>5. /\ \A p \in Peers : runtime'[p] # cur'[c]
        /\ \A d \in Caller : prev'[d] # cur'[c]
    BY <1>3, <1>5, <1>8, <1>10
  <2>6. run'[cur'[c]].consumer = "none" /\ run'[cur'[c]].att = "none" /\ cur'[c] # None
    BY <1>3, <1>4, <1>5, <1>7
  <2> QED BY <1>0, <2>1, <2>2, <2>3, <2>4, <2>5, <2>6 DEF CallerInv
<1>12. CallerMoves(c)
  <2>1. \A d \in Caller \ {c} : Knows(d)
    BY <1>3 DEF Knows, AsKnown
  <2>2. runs <= runs' /\ cur'[c] > runs /\ prev'[c] = prev[c] /\ runtime' = runtime
    BY <1>0, <1>3, <1>4, <1>5
  <2> QED BY <1>5, <2>1, <2>2 DEF CallerMoves
<1>13. OwnRuns' /\ \A d \in Caller : CallerInv(d)'
  BY <1>0, <1>6, <1>11, <1>12, CallersKept
<1>14. \A r \in Run : RunInv(r)'
  <2>1. \A r \in Run : r > runs' => r > runs
    BY <1>0, <1>3 DEF Run
  <2> QED BY <1>3, <2>1 DEF Inv, Others, RunInv, Attached
<1>15. \A v \in Workspaces : RegistryInv(v)'
  <2>1. \A x \in Run : Kept(x)
    BY <1>3 DEF Kept
  <2> QED BY <1>3, <2>1, QuietRegistry DEF Inv, Others
<1>16. CurrentIsAttached'
  BY <1>3 DEF Inv, Others, CurrentIsAttached
<1> QED BY <1>6, <1>13, <1>14, <1>15, <1>16 DEF Inv, Others

\* Reload or Stop takes the current runtime out of the service.
LEMMA SwapKeeps ==
  ASSUME Inv, NEW c \in Caller, NEW l, Goto(c, l),
         prev' = [prev EXCEPT ![c] = runtime[Of(c)]], runtime' = [runtime EXCEPT ![Of(c)] = None],
         UNCHANGED <<runAgent, selecting, selects, status, source, run, runs, entry, lease, sel, cur, record>>,
         \/ c \in Reloaders /\ pc[c] = "swap" /\ l \in {"open", "stop"}
         \/ c \in Closing /\ l \in {"stopped", "stopping"},
         l \in {"stop", "stopping"} => runtime[Of(c)] # None
  PROVE  Inv'
<1>0. /\ StoreTyped /\ ServiceTyped /\ RunsTyped /\ RegistryTyped /\ CallsTyped /\ CallerInv(c)
      /\ Of(c) \in Peers /\ MaxRuns \in Nat /\ runs \in Nat
      /\ c \in Reloaders => c \notin Closing
  BY CallerFacts, AgentHostAssumption DEF RunsTyped
<1>1. PICK e \in Run \cup {None} : e = runtime[Of(c)]
  BY <1>0 DEF ServiceTyped
<1>2. l \in ReloadLabels \cup CloseLabels /\ l \in IF c \in Closing THEN CloseLabels ELSE ReloadLabels
  BY <1>0 DEF ReloadLabels, CloseLabels
<1>3. /\ CallsTyped' /\ pc'[c] = l /\ cur'[c] = cur[c] /\ sel'[c] = sel[c] /\ prev'[c] = e
      /\ \A d \in Caller \ {c} : Stays(d)
  BY <1>1, <1>2, GotoCaller
<1>4. ServiceTyped' /\ runtime'[Of(c)] = None /\ \A p \in Peers \ {Of(c)} : runtime'[p] = runtime[p]
  BY <1>0 DEF ServiceTyped
<1>5. Typed'
  BY <1>0, <1>3, <1>4 DEF Typed, StoreTyped, RunsTyped, RegistryTyped
<1>6. e # None => e <= runs /\ \A p \in Peers : runtime'[p] # e
  BY <1>0, <1>1, <1>4, CurrentBegan
<1>7. \A p \in Peers : runtime'[p] \in {runtime[p], None}
  BY <1>4
<1>8. CallerInv(c)'
  <2>1. cur'[c] <= runs' /\ prev'[c] <= runs'
    BY <1>0, <1>3, <1>6 DEF CallerInv, None
  <2>2. Private(c)' => Private(c) /\ Reloading(c) /\ pc[c] = "swap"
    BY <1>0, <1>3 DEF Private, Reloading, ReloadLabels
  <2>3. Reloading(c)' => Private(c)'
    BY <1>3 DEF Private, Reloading
  <2>4. Reloading(c)' => cur'[c] # None /\ sel'[c] \in Workspaces /\ run'[cur'[c]].consumer = "none"
    BY <1>0, <1>3, <2>2, <2>3 DEF CallerInv
  <2>5. pc'[c] \in {"stopping", "stop", "stopWait"} => prev'[c] # None
    BY <1>1, <1>3
  <2>6. prev'[c] # None => \A p \in Peers : runtime'[p] # prev'[c]
    BY <1>3, <1>6
  <2>7. ASSUME Private(c)'
        PROVE  /\ \A p \in Peers : runtime'[p] # cur'[c]
               /\ \A d \in Caller : prev'[d] # cur'[c]
    <3>1. /\ Private(c) /\ cur[c] # None
          /\ \A p \in Peers : runtime[p] # cur[c]
          /\ \A d \in Caller : prev[d] # cur[c]
      BY <1>0, <2>2, <2>7 DEF CallerInv
    <3>2. \A d \in Caller : prev'[d] # cur[c]
      BY <1>0, <1>1, <1>3, <3>1 DEF Stays
    <3> QED BY <1>3, <1>7, <3>1, <3>2
  <2>8. Private(c)' => run'[cur'[c]].att = "none"
    BY <1>0, <1>3, <2>2 DEF CallerInv
  <2>9. pc'[c] \notin {"agent", "activate", "write", "install"}
    BY <1>3
  <2> QED BY <1>2, <1>3, <2>1, <2>4, <2>5, <2>6, <2>7, <2>8, <2>9 DEF CallerInv
<1>9. CallerMoves(c)
  <2>1. \A d \in Caller \ {c} : Knows(d)
    BY DEF Knows, AsKnown
  <2>2. runs <= runs' /\ \E p \in Peers : prev'[c] = runtime[p]
    BY <1>0, <1>1, <1>3
  <2> QED BY <1>3, <1>7, <2>1, <2>2 DEF CallerMoves
<1>10. OwnRuns' /\ \A d \in Caller : CallerInv(d)'
  BY <1>5, <1>8, <1>9, CallersKept
<1>11. \A r \in Run : RunInv(r)'
  BY <1>7 DEF Inv, Others, RunInv, Attached, Run, None
<1>12. \A v \in Workspaces : RegistryInv(v)'
  <2>1. \A x \in Run : Kept(x)
    BY DEF Kept
  <2> QED BY <2>1, QuietRegistry DEF Inv, Others
<1>13. CurrentIsAttached'
  BY <1>7, CurrentKept DEF AsKnown
<1> QED BY <1>5, <1>10, <1>11, <1>12, <1>13 DEF Inv, Others

LEMMA ReloadSwapKeeps ==
  ASSUME Inv, NEW c \in Caller, ReloadSwap(c)
  PROVE  Inv'
<1>1. pc[c] = "swap" /\ c \in Reloaders
  BY CallerFacts DEF ReloadSwap, ReloadLabels, CloseLabels
<1>2. /\ Goto(c, IF runtime[Of(c)] = None THEN "open" ELSE "stop")
      /\ prev' = [prev EXCEPT ![c] = runtime[Of(c)]] /\ runtime' = [runtime EXCEPT ![Of(c)] = None]
      /\ UNCHANGED <<runAgent, selecting, selects, status, source, run, runs, entry, lease, sel, cur, record>>
  BY DEF ReloadSwap, storeVars, registryVars
<1> QED BY <1>1, <1>2, SwapKeeps

LEMMA CloseSwapKeeps ==
  ASSUME Inv, NEW p \in Closing, CloseSwap(p)
  PROVE  Inv'
<1>1. p \in Caller /\ Of(p) = p
  BY DEF Caller, Of
<1>2. /\ Goto(p, IF runtime[p] = None THEN "stopped" ELSE "stopping")
      /\ prev' = [prev EXCEPT ![p] = runtime[p]] /\ runtime' = [runtime EXCEPT ![p] = None]
      /\ UNCHANGED <<runAgent, selecting, selects, status, source, run, runs, entry, lease, sel, cur, record>>
  BY DEF CloseSwap, storeVars, registryVars
<1> QED BY <1>1, <1>2, SwapKeeps

\* OpenAgentInput starts the caller's own run.
LEMMA OpenAgentInputKeeps ==
  ASSUME Inv, NEW c \in Caller, OpenAgentInput(c)
  PROVE  Inv'
<1>0. /\ StoreTyped /\ ServiceTyped /\ RunsTyped /\ RegistryTyped /\ CallsTyped /\ CallerInv(c)
      /\ Of(c) \in Peers /\ MaxRuns \in Nat /\ runs \in Nat
      /\ pc[c] = "open" /\ c \in Reloaders /\ c \notin Closing
  BY CallerFacts, AgentHostAssumption DEF RunsTyped, OpenAgentInput, ReloadLabels, CloseLabels
<1>1. Reloading(c) /\ Private(c)
  BY <1>0 DEF Private, Reloading, ReloadLabels
<1>2. /\ cur[c] \in Run /\ sel[c] \in Workspaces
      /\ run[cur[c]].att = "none" /\ run[cur[c]].consumer = "none"
      /\ \A p \in Peers : runtime[p] # cur[c]
      /\ \A d \in Caller : prev[d] # cur[c]
  BY <1>0, <1>1 DEF CallerInv, CallsTyped
<1>3. /\ run' \in [Run -> RunFields]
      /\ \A x \in Run : x # cur[c] => Alike(x)
      /\ run'[cur[c]].peer = Of(c) /\ run'[cur[c]].ws = sel[c]
      /\ run'[cur[c]].att = "none" /\ run'[cur[c]].consumer = "none"
  BY <1>0, <1>2, OpenInputEffect DEF Inv
<1>4. /\ Goto(c, "agent") /\ source' = [source EXCEPT ![Of(c)] = cur[c]]
      /\ UNCHANGED <<runAgent, selecting, selects, runtime, status, runs, entry, lease, sel, cur, prev, record>>
  BY DEF OpenAgentInput, storeVars, registryVars
<1>5. /\ CallsTyped' /\ pc'[c] = "agent" /\ cur'[c] = cur[c] /\ sel'[c] = sel[c] /\ prev'[c] = prev[c]
      /\ \A d \in Caller \ {c} : Stays(d)
  BY <1>4, GotoOnly DEF ReloadLabels
<1>6. ServiceTyped'
  BY <1>0, <1>2, <1>4 DEF ServiceTyped
<1>7. Typed'
  BY <1>0, <1>3, <1>4, <1>5, <1>6 DEF Typed, StoreTyped, RunsTyped, RegistryTyped
<1>8. CallerInv(c)'
  <2>1. pc'[c] \in ReloadLabels /\ pc'[c] = "agent"
    BY <1>5 DEF ReloadLabels
  <2>2. cur'[c] <= runs' /\ prev'[c] <= runs'
    BY <1>0, <1>4, <1>5 DEF CallerInv
  <2>3. cur'[c] # None /\ sel'[c] \in Workspaces /\ run'[cur'[c]].consumer = "none"
    BY <1>2, <1>3, <1>5 DEF Run, None
  <2>4. prev'[c] # None => \A p \in Peers : runtime'[p] # prev'[c]
    BY <1>0, <1>4, <1>5 DEF CallerInv
  <2>5. /\ \A p \in Peers : runtime'[p] # cur'[c]
        /\ \A d \in Caller : prev'[d] # cur'[c]
    BY <1>2, <1>4, <1>5
  <2>6. run'[cur'[c]].att = "none" /\ run'[cur'[c]].ws = sel'[c] /\ run'[cur'[c]].peer = Of(c)
    BY <1>2, <1>3, <1>5
  <2> QED BY <1>0, <2>1, <2>2, <2>3, <2>4, <2>5, <2>6 DEF CallerInv
<1>9. CallerMoves(c)
  <2>1. ASSUME NEW d \in Caller \ {c}, Reloading(d) PROVE cur[d] \in Run /\ cur[d] # cur[c]
    <3>1. cur[d] # None /\ cur[d] \in Run
      BY <1>0, <2>1 DEF Inv, Others, CallerInv, CallsTyped
    <3> QED BY <1>2, <3>1 DEF Inv, Others, OwnRuns
  <2>2. \A d \in Caller \ {c} : Knows(d)
    BY <1>3, <2>1 DEF Knows, AsKnown, Alike, Private
  <2>3. runs <= runs' /\ runtime' = runtime
    BY <1>0, <1>4
  <2> QED BY <1>5, <2>2, <2>3 DEF CallerMoves
<1>10. OwnRuns' /\ \A d \in Caller : CallerInv(d)'
  BY <1>7, <1>8, <1>9, CallersKept
<1>11. \A r \in Run : RunInv(r)'
  <2>1. ASSUME NEW r \in Run, r # cur[c] PROVE RunInv(r)'
    BY <1>3, <1>4, <2>1 DEF Inv, Others, RunInv, Attached, Alike
  <2>2. RunInv(cur[c])'
    BY <1>2, <1>3, <1>4 DEF RunInv, Attached
  <2> QED BY <2>1, <2>2, <1>5
<1>12. \A v \in Workspaces : RegistryInv(v)'
  <2>1. \A x \in Run : Kept(x)
    BY <1>2, <1>3 DEF Kept, Alike, Attached
  <2> QED BY <1>4, <2>1, QuietRegistry DEF Inv, Others
<1>13. CurrentIsAttached'
  <2>1. \A p \in Peers : runtime[p] # None => runtime[p] \in Run /\ AsKnown(runtime[p])
    BY <1>0, <1>2, <1>3 DEF ServiceTyped, Alike, AsKnown
  <2> QED BY <1>4, <2>1, CurrentKept
<1> QED BY <1>7, <1>10, <1>11, <1>12, <1>13 DEF Inv, Others

\* OpenAgent joins the agent of the workspace, or opens one and takes its lease.
LEMMA OpenAgentKeeps ==
  ASSUME Inv, NEW c \in Caller, OpenAgent(c)
  PROVE  Inv'
<1>0. /\ StoreTyped /\ ServiceTyped /\ RunsTyped /\ RegistryTyped /\ CallsTyped /\ CallerInv(c)
      /\ Of(c) \in Peers /\ MaxRuns \in Nat /\ runs \in Nat
      /\ pc[c] = "agent" /\ c \in Reloaders /\ c \notin Closing
  BY CallerFacts, AgentHostAssumption DEF RunsTyped, OpenAgent, ReloadLabels, CloseLabels
<1>1. Reloading(c) /\ Private(c)
  BY <1>0 DEF Private, Reloading, ReloadLabels
<1>2. /\ cur[c] \in Run /\ sel[c] \in Workspaces /\ cur[c] <= runs
      /\ run[cur[c]].att = "none" /\ run[cur[c]].consumer = "none"
      /\ run[cur[c]].ws = sel[c] /\ run[cur[c]].peer = Of(c)
      /\ \A p \in Peers : runtime[p] # cur[c]
      /\ \A d \in Caller : prev[d] # cur[c]
  BY <1>0, <1>1 DEF CallerInv, CallsTyped
<1>3. PICK a \in Run \cup {None} :
           /\ a = IF entry[sel[c]] # NoEntry THEN entry[sel[c]].agent ELSE cur[c]
           /\ entry[sel[c]] # NoEntry \/ lease[sel[c]] = None
           /\ entry' = [entry EXCEPT ![sel[c]] = [agent |-> a, refs |-> entry[sel[c]].refs + 1]]
           /\ lease' = [lease EXCEPT ![sel[c]] = a]
           /\ run' \in [Run -> RunFields]
           /\ \A x \in Run : x # cur[c] => run'[x] = run[x]
           /\ run'[cur[c]].att = "held" /\ run'[cur[c]].agent = a
           /\ run'[cur[c]].ws = run[cur[c]].ws /\ run'[cur[c]].peer = run[cur[c]].peer
           /\ run'[cur[c]].consumer = run[cur[c]].consumer
  BY <1>2, OpenAgentEffect DEF Inv
<1>4. /\ Goto(c, "activate")
      /\ UNCHANGED <<runAgent, selecting, selects, runtime, status, source, runs, sel, cur, prev, record>>
  BY DEF OpenAgent, storeVars, serviceVars
<1>5. /\ CallsTyped' /\ pc'[c] = "activate" /\ cur'[c] = cur[c] /\ sel'[c] = sel[c] /\ prev'[c] = prev[c]
      /\ \A d \in Caller \ {c} : Stays(d)
  BY <1>4, GotoOnly DEF ReloadLabels
<1>6. RegistryTyped'
  BY <1>0, <1>2, <1>3 DEF RegistryTyped
<1>7. Typed'
  BY <1>0, <1>3, <1>4, <1>5, <1>6 DEF Typed, StoreTyped, RunsTyped, ServiceTyped
<1>8. \A x \in Run \ {cur[c]} : Kept(x)
  BY <1>3 DEF Kept
<1>9. \A w \in Workspaces : RegistryInv(w)' /\ a # None
  BY <1>2, <1>3, <1>8, JoinRegistry DEF Inv, Others
<1>10. a # None
  BY <1>2, <1>9
<1>11. CallerInv(c)'
  <2>1. pc'[c] \in ReloadLabels /\ pc'[c] = "activate"
    BY <1>5 DEF ReloadLabels
  <2>2. cur'[c] <= runs' /\ prev'[c] <= runs'
    BY <1>0, <1>4, <1>5 DEF CallerInv
  <2>3. cur'[c] # None /\ sel'[c] \in Workspaces /\ run'[cur'[c]].consumer = "none"
    BY <1>2, <1>3, <1>5 DEF Run, None
  <2>4. prev'[c] # None => \A p \in Peers : runtime'[p] # prev'[c]
    BY <1>0, <1>4, <1>5 DEF CallerInv
  <2>5. /\ \A p \in Peers : runtime'[p] # cur'[c]
        /\ \A d \in Caller : prev'[d] # cur'[c]
    BY <1>2, <1>4, <1>5
  <2>6. run'[cur'[c]].att = "held" /\ run'[cur'[c]].ws = sel'[c] /\ run'[cur'[c]].peer = Of(c)
    BY <1>2, <1>3, <1>5
  <2> QED BY <1>0, <2>1, <2>2, <2>3, <2>4, <2>5, <2>6 DEF CallerInv
<1>12. CallerMoves(c)
  <2>1. ASSUME NEW d \in Caller \ {c}, Reloading(d) PROVE cur[d] \in Run /\ cur[d] # cur[c]
    <3>1. cur[d] # None /\ cur[d] \in Run
      BY <1>0, <2>1 DEF Inv, Others, CallerInv, CallsTyped
    <3> QED BY <1>2, <3>1 DEF Inv, Others, OwnRuns
  <2>2. \A d \in Caller \ {c} : Knows(d)
    BY <1>3, <2>1 DEF Knows, AsKnown, Private
  <2>3. runs <= runs' /\ runtime' = runtime
    BY <1>0, <1>4
  <2> QED BY <1>5, <2>2, <2>3 DEF CallerMoves
<1>13. OwnRuns' /\ \A d \in Caller : CallerInv(d)'
  BY <1>7, <1>11, <1>12, CallersKept
<1>14. \A r \in Run : RunInv(r)'
  <2>1. ASSUME NEW r \in Run, r # cur[c] PROVE RunInv(r)'
    BY <1>3, <1>4, <2>1 DEF Inv, Others, RunInv, Attached
  <2>2. RunInv(cur[c])'
    BY <1>0, <1>2, <1>3, <1>4, <1>10 DEF RunInv, Attached, Run
  <2> QED BY <2>1, <2>2, <1>5
<1>15. CurrentIsAttached'
  <2>1. \A p \in Peers : runtime[p] # None => runtime[p] \in Run /\ AsKnown(runtime[p])
    BY <1>0, <1>2, <1>3 DEF ServiceTyped, AsKnown
  <2> QED BY <1>4, <2>1, CurrentKept
<1> QED BY <1>7, <1>9, <1>13, <1>14, <1>15 DEF Inv, Others

\* A release of the run of a caller: what it is to the others.
LEMMA ReleaseFacts ==
  ASSUME Inv, NEW r \in Run, NEW R \in RunFields, R.att = run[r].att, SameRun(R, run[r]),
         Release(r, R), lease' = lease, runs' = runs,
         \A p \in Peers : runtime'[p] \in {runtime[p], None},
         \A p \in Peers : runtime'[p] # r,
         r > runs => R.consumer = "none"
  PROVE  /\ RunsTyped' /\ RegistryTyped' /\ CurrentIsAttached'
         /\ \A w \in Workspaces : RegistryInv(w)'
         /\ \A x \in Run : RunInv(x)'
         /\ \A x \in Run : x # r => run'[x] = run[x]
         /\ run'[r].consumer = R.consumer
<1>0. RunsTyped /\ RegistryTyped /\ ServiceTyped
  BY DEF Inv, Typed
<1>1. PICK v : v = run[r].ws
  OBVIOUS
<1>2. /\ run' \in [Run -> RunFields]
      /\ \A x \in Run : x # r => run'[x] = run[x]
      /\ SameRun(run'[r], R) /\ run'[r].consumer = R.consumer
      /\ \/ run[r].att # "held" /\ run'[r].att = run[r].att /\ entry' = entry
         \/ /\ run[r].att = "held" /\ entry[v].agent = run[r].agent /\ entry[v].refs = 1
            /\ run'[r].att = "dropping" /\ entry' = [entry EXCEPT ![v] = NoEntry]
         \/ /\ run[r].att = "held" /\ entry[v].agent = run[r].agent /\ entry[v].refs # 1
            /\ run'[r].att = "released"
            /\ entry' = [entry EXCEPT ![v] = [agent |-> entry[v].agent, refs |-> entry[v].refs - 1]]
         \/ /\ run[r].att = "held" /\ entry[v].agent # run[r].agent
            /\ run'[r].att = "released" /\ entry' = entry
  BY <1>0, <1>1, ReleaseEffect
<1>3. v \in Workspaces
  BY <1>0, <1>1, FieldsTyped DEF RunsTyped
<1>4. RegistryTyped'
  <2>1. NoEntry \in [agent : Run \cup {None}, refs : Int]
    BY DEF NoEntry
  <2>2. [agent |-> entry[v].agent, refs |-> entry[v].refs - 1] \in [agent : Run \cup {None}, refs : Int]
    BY <1>0, <1>3 DEF RegistryTyped
  <2>3. entry' \in [Workspaces -> [agent : Run \cup {None}, refs : Int]]
    BY <1>0, <1>2, <1>3, <2>1, <2>2 DEF RegistryTyped
  <2> QED BY <1>0, <2>3 DEF RegistryTyped
<1>5. \A w \in Workspaces : RegistryInv(w)'
  BY ReleaseRegistry DEF Inv, Others
<1>6. \A x \in Run : RunInv(x)'
  <2>1. ASSUME NEW x \in Run, x # r PROVE RunInv(x)'
    BY <1>2, <2>1 DEF Inv, Others, RunInv, Attached, Run, None
  <2>2. RunInv(r)'
    <3>1. RunInv(r)
      BY DEF Inv, Others
    <3>2. Attached(r)' => Attached(r)
      BY <1>2 DEF Attached
    <3>3. run'[r].agent = run[r].agent /\ run'[r].consumer = R.consumer
      BY <1>2 DEF SameRun
    <3>4. r > runs => run'[r].att = "none"
      BY <1>2, <3>1 DEF RunInv
    <3> QED BY <3>1, <3>2, <3>3, <3>4 DEF RunInv
  <2> QED BY <2>1, <2>2
<1>7. CurrentIsAttached'
  <2>1. ASSUME NEW p \in Peers, runtime'[p] # None
        PROVE  runtime'[p] = runtime[p] /\ AsKnown(runtime[p])
    <3>1. runtime'[p] = runtime[p] /\ runtime[p] \in Run /\ runtime[p] # r
      BY <1>0, <2>1 DEF ServiceTyped
    <3> QED BY <1>2, <3>1 DEF AsKnown
  <2> QED BY <2>1, CurrentKept
<1> QED BY <1>0, <1>2, <1>4, <1>5, <1>6, <1>7 DEF RunsTyped

\* Reload gives up on the run it stops, or on its own: it fails.
LEMMA ReleaseAndFail ==
  ASSUME Inv, NEW c \in Caller, c \in Reloaders, c \notin Closing, NEW r \in Run, NEW R \in RunFields,
         R.att = run[r].att, SameRun(R, run[r]), R.consumer = run[r].consumer, Release(r, R),
         \A p \in Peers : runtime[p] # r,
         \A d \in Caller \ {c} : Private(d) => cur[d] # r,
         Goto(c, "fail"), UNCHANGED <<storeVars, serviceVars, runs, lease, sel, cur, prev, record>>
  PROVE  Inv'
<1>0. /\ StoreTyped /\ ServiceTyped /\ RunsTyped /\ RegistryTyped /\ CallsTyped /\ CallerInv(c)
      /\ runs \in Nat
  BY CallerFacts, AgentHostAssumption DEF RunsTyped
<1>1. UNCHANGED <<runAgent, selecting, selects, runtime, status, source>>
  BY DEF storeVars, serviceVars
<1>2. r > runs => R.consumer = "none"
  BY DEF Inv, Others, RunInv
<1>3. /\ RunsTyped' /\ RegistryTyped' /\ CurrentIsAttached'
      /\ \A w \in Workspaces : RegistryInv(w)'
      /\ \A x \in Run : RunInv(x)'
      /\ \A x \in Run : x # r => run'[x] = run[x]
      /\ run'[r].consumer = R.consumer
  BY <1>1, <1>2, ReleaseFacts
<1>4. /\ CallsTyped' /\ pc'[c] = "fail" /\ cur'[c] = cur[c] /\ sel'[c] = sel[c] /\ prev'[c] = prev[c]
      /\ \A d \in Caller \ {c} : Stays(d)
  BY GotoOnly DEF ReloadLabels
<1>5. Typed'
  BY <1>0, <1>1, <1>3, <1>4 DEF Typed, StoreTyped, ServiceTyped
<1>6. CallerInv(c)'
  <2>1. ~Reloading(c)' /\ ~Private(c)'
    BY <1>4 DEF Reloading, Private
  <2> QED BY <1>0, <1>1, <1>4, <2>1 DEF CallerInv, ReloadLabels
<1>7. CallerMoves(c)
  <2>1. ASSUME NEW d \in Caller \ {c} PROVE Knows(d)
    <3>1. Reloading(d) => cur[d] \in Run
      BY <1>0 DEF Inv, Others, CallerInv, CallsTyped
    <3>2. Private(d) => cur[d] \in Run /\ cur[d] # r
      BY <3>1 DEF Private
    <3> QED BY <1>3, <3>1, <3>2 DEF Knows, AsKnown
  <2>2. runs <= runs'
    BY <1>0
  <2> QED BY <1>1, <1>4, <2>1, <2>2 DEF CallerMoves
<1>8. OwnRuns' /\ \A d \in Caller : CallerInv(d)'
  BY <1>5, <1>6, <1>7, CallersKept
<1> QED BY <1>3, <1>5, <1>8 DEF Inv, Others

LEMMA StopAbandonKeeps ==
  ASSUME Inv, NEW c \in Caller, StopAbandon(c)
  PROVE  Inv'
<1>0. /\ pc[c] = "stopWait" /\ c \in Reloaders /\ c \notin Closing
      /\ RunsTyped /\ CallsTyped /\ CallerInv(c)
  BY CallerFacts, AgentHostAssumption DEF StopAbandon
<1>1. prev[c] \in Run /\ run[prev[c]] \in RunFields /\ \A p \in Peers : runtime[p] # prev[c]
  BY <1>0 DEF CallerInv, CallsTyped, RunsTyped
<1>2. \A d \in Caller \ {c} : Private(d) => cur[d] # prev[c]
  BY DEF Inv, Others, CallerInv
<1>3. /\ Release(prev[c], run[prev[c]]) /\ Goto(c, "fail")
      /\ UNCHANGED <<storeVars, serviceVars, runs, lease, sel, cur, prev, record>>
  BY DEF StopAbandon
<1> QED BY <1>0, <1>1, <1>2, <1>3, ReleaseAndFail DEF SameRun

LEMMA ActivateFailKeeps ==
  ASSUME Inv, NEW c \in Caller, ActivateFail(c)
  PROVE  Inv'
<1>0. /\ pc[c] \in {"activate", "write"} /\ c \in Reloaders /\ c \notin Closing
      /\ RunsTyped /\ CallsTyped /\ CallerInv(c)
  BY CallerFacts DEF ActivateFail, ReloadLabels, CloseLabels
<1>1. Reloading(c) /\ Private(c)
  BY <1>0 DEF Private, Reloading, ReloadLabels
<1>2. cur[c] \in Run /\ run[cur[c]] \in RunFields /\ \A p \in Peers : runtime[p] # cur[c]
  BY <1>0, <1>1 DEF CallerInv, CallsTyped, RunsTyped
<1>3. \A d \in Caller \ {c} : cur[d] # cur[c]
  BY <1>2 DEF Inv, Others, OwnRuns, Run, None
<1>4. PICK R : R = [run[cur[c]] EXCEPT !.cancelled = TRUE, !.input = "closed"]
  OBVIOUS
<1>5. R \in RunFields /\ R.att = run[cur[c]].att /\ R.consumer = run[cur[c]].consumer
      /\ SameRun(R, run[cur[c]])
  BY <1>2, <1>4, StreamsClosed
<1>6. /\ Release(cur[c], R) /\ Goto(c, "fail")
      /\ UNCHANGED <<storeVars, serviceVars, runs, lease, sel, cur, prev, record>>
  BY <1>4 DEF ActivateFail
<1> QED BY <1>0, <1>2, <1>3, <1>5, <1>6, ReleaseAndFail

\* The run becomes the current one: it is attached, and nobody else has it.
LEMMA InstallRuntimeKeeps ==
  ASSUME Inv, NEW c \in Caller, InstallRuntime(c)
  PROVE  Inv'
<1>0. /\ StoreTyped /\ ServiceTyped /\ RunsTyped /\ RegistryTyped /\ CallsTyped /\ CallerInv(c)
      /\ Of(c) \in Peers /\ MaxRuns \in Nat /\ runs \in Nat
      /\ pc[c] = "install" /\ c \in Reloaders /\ c \notin Closing
  BY CallerFacts, AgentHostAssumption DEF RunsTyped, InstallRuntime, ReloadLabels, CloseLabels
<1>1. Reloading(c) /\ Private(c)
  BY <1>0 DEF Private, Reloading, ReloadLabels
<1>2. /\ cur[c] \in Run /\ sel[c] \in Workspaces
      /\ run[cur[c]].att = "held" /\ run[cur[c]].consumer = "none" /\ run[cur[c]].peer = Of(c)
      /\ \A d \in Caller : prev[d] # cur[c]
  BY <1>0, <1>1 DEF CallerInv, CallsTyped
<1>3. /\ Goto(c, "running") /\ runtime' = [runtime EXCEPT ![Of(c)] = cur[c]]
      /\ UNCHANGED <<runAgent, selecting, selects, status, source, run, runs, entry, lease, sel, cur, prev, record>>
  BY DEF InstallRuntime, storeVars, registryVars
<1>4. /\ CallsTyped' /\ pc'[c] = "running" /\ cur'[c] = cur[c] /\ sel'[c] = sel[c] /\ prev'[c] = prev[c]
      /\ \A d \in Caller \ {c} : Stays(d)
  BY <1>3, GotoOnly DEF ReloadLabels
<1>5. ServiceTyped' /\ \A p \in Peers : runtime'[p] = runtime[p] \/ (p = Of(c) /\ runtime'[p] = cur[c])
  BY <1>0, <1>2, <1>3 DEF ServiceTyped
<1>6. Typed'
  BY <1>0, <1>3, <1>4, <1>5 DEF Typed, StoreTyped, RunsTyped, RegistryTyped
<1>7. CallerInv(c)'
  <2>1. pc'[c] \in ReloadLabels /\ pc'[c] = "running" /\ ~Private(c)'
    BY <1>4 DEF ReloadLabels, Private
  <2>2. cur'[c] <= runs' /\ prev'[c] <= runs'
    BY <1>0, <1>3, <1>4 DEF CallerInv
  <2>3. cur'[c] # None /\ sel'[c] \in Workspaces /\ run'[cur'[c]].consumer = "none"
    BY <1>2, <1>3, <1>4 DEF Run, None
  <2>4. prev'[c] # None => \A p \in Peers : runtime'[p] # prev'[c]
    BY <1>0, <1>2, <1>4, <1>5 DEF CallerInv
  <2> QED BY <1>0, <2>1, <2>2, <2>3, <2>4 DEF CallerInv
<1>8. CallerMoves(c)
  <2>1. \A d \in Caller \ {c} : Knows(d)
    BY <1>3 DEF Knows, AsKnown
  <2>2. runs <= runs'
    BY <1>0, <1>3
  <2> QED BY <1>1, <1>4, <1>5, <2>1, <2>2 DEF CallerMoves
<1>9. OwnRuns' /\ \A d \in Caller : CallerInv(d)'
  BY <1>6, <1>7, <1>8, CallersKept
<1>10. \A r \in Run : RunInv(r)'
  BY <1>2, <1>3, <1>5 DEF Inv, Others, RunInv, Attached
<1>11. \A v \in Workspaces : RegistryInv(v)'
  <2>1. \A x \in Run : Kept(x)
    BY <1>3 DEF Kept
  <2> QED BY <1>3, <2>1, QuietRegistry DEF Inv, Others
<1>12. CurrentIsAttached'
  BY <1>2, <1>3, <1>5 DEF Inv, Others, CurrentIsAttached
<1> QED BY <1>6, <1>9, <1>10, <1>11, <1>12 DEF Inv, Others

\* The consumer of the run starts, and Reload returns.
LEMMA ReloadRunningKeeps ==
  ASSUME Inv, NEW c \in Reloaders, ReloadRunning(c)
  PROVE  Inv'
<1>0. /\ StoreTyped /\ ServiceTyped /\ RunsTyped /\ RegistryTyped /\ CallsTyped /\ CallerInv(c)
      /\ Of(c) \in Peers /\ MaxRuns \in Nat /\ runs \in Nat
      /\ pc[c] = "running" /\ c \in Caller
  BY CallerFacts, AgentHostAssumption DEF RunsTyped, ReloadRunning, Caller
<1>1. Reloading(c)
  BY <1>0 DEF Reloading, ReloadLabels
<1>2. cur[c] \in Run /\ cur[c] # None /\ cur[c] <= runs
  BY <1>0, <1>1 DEF CallerInv, CallsTyped
<1>3. /\ Return(c) /\ SetStatus(Of(c), "running") /\ run' = [run EXCEPT ![cur[c]].consumer = "running"]
      /\ UNCHANGED <<runAgent, selecting, selects, runtime, source, runs, entry, lease>>
  BY DEF ReloadRunning, storeVars, registryVars
<1>4. /\ CallsTyped' /\ CallerInv(c)' /\ (\A d \in Caller \ {c} : Stays(d))
      /\ cur'[c] = None /\ prev'[c] = None
  BY <1>3, ReturnCaller
<1>5. /\ run' \in [Run -> RunFields]
      /\ \A x \in Run : x # cur[c] => run'[x] = run[x]
      /\ SameRun(run'[cur[c]], run[cur[c]]) /\ run'[cur[c]].att = run[cur[c]].att
      /\ run'[cur[c]].consumer = "running"
  BY <1>0, <1>2, <1>3, ConsumerEffect
<1>6. ServiceTyped'
  BY <1>0, <1>3, StatusSet DEF Status
<1>7. Typed'
  BY <1>0, <1>3, <1>4, <1>5, <1>6 DEF Typed, StoreTyped, RunsTyped, RegistryTyped
<1>8. CallerMoves(c)
  <2>1. ASSUME NEW d \in Caller \ {c}, Reloading(d) PROVE cur[d] \in Run /\ cur[d] # cur[c]
    <3>1. cur[d] # None /\ cur[d] \in Run
      BY <1>0, <2>1 DEF Inv, Others, CallerInv, CallsTyped
    <3> QED BY <1>0, <1>2, <3>1 DEF Inv, Others, OwnRuns
  <2>2. \A d \in Caller \ {c} : Knows(d)
    BY <1>5, <2>1 DEF Knows, AsKnown, Private
  <2>3. runs <= runs' /\ runtime' = runtime
    BY <1>0, <1>3
  <2> QED BY <1>4, <2>2, <2>3 DEF CallerMoves
<1>9. OwnRuns' /\ \A d \in Caller : CallerInv(d)'
  BY <1>0, <1>4, <1>7, <1>8, CallersKept
<1>10. \A r \in Run : RunInv(r)'
  <2>1. ASSUME NEW r \in Run, r # cur[c] PROVE RunInv(r)'
    BY <1>3, <1>5, <2>1 DEF Inv, Others, RunInv, Attached
  <2>2. PICK r \in Run : r = cur[c]
    BY <1>2
  <2>3. RunInv(r)'
    <3>1. RunInv(r) /\ ~(r > runs)
      BY <1>0, <1>2, <2>2 DEF Inv, Others, Run
    <3>2. run'[r].att = run[r].att /\ run'[r].agent = run[r].agent /\ run'[r].consumer = "running"
      BY <1>5, <2>2 DEF SameRun
    <3> QED BY <1>3, <3>1, <3>2 DEF RunInv, Attached
  <2> QED BY <2>1, <2>2, <2>3
<1>11. \A v \in Workspaces : RegistryInv(v)'
  <2>1. \A x \in Run : Kept(x)
    BY <1>5 DEF Kept, SameRun
  <2> QED BY <1>3, <2>1, QuietRegistry DEF Inv, Others
<1>12. CurrentIsAttached'
  <2>1. \A p \in Peers : runtime[p] # None =>
           /\ run'[runtime[p]].att = run[runtime[p]].att
           /\ run'[runtime[p]].peer = run[runtime[p]].peer
    BY <1>0, <1>5 DEF ServiceTyped, SameRun
  <2> QED BY <1>3, <2>1 DEF Inv, Others, CurrentIsAttached
<1> QED BY <1>7, <1>9, <1>10, <1>11, <1>12 DEF Inv, Others

-----------------------------------------------------------------------------
(* The consumer's steps: the callers stay where they are                   *)

LEMMA CallersStay ==
  ASSUME Inv, Typed', UNCHANGED <<pc, sel, cur, prev, runs>>, \A d \in Caller : Knows(d),
         \A p \in Peers : runtime'[p] \in {runtime[p], None}
  PROVE  OwnRuns' /\ \A d \in Caller : CallerInv(d)'
<1>1. ASSUME NEW d \in Caller PROVE CallerInv(d)'
  <2>1. Stays(d) /\ CallerInv(d) /\ Typed /\ Knows(d)
    BY DEF Stays, Inv, Others
  <2>2. runs <= runs'
    BY AgentHostAssumption DEF Inv, Typed, RunsTyped
  <2>3. Private(d) => \A e \in Caller : prev'[e] # cur[d]
    BY <2>1 DEF CallerInv
  <2> QED BY <2>1, <2>2, <2>3, CallerKept
<1>2. OwnRuns'
  BY DEF Inv, Others, OwnRuns
<1> QED BY <1>1, <1>2

\* The run of a Reload at work has no consumer.
LEMMA ConsumerIsNotReloading ==
  ASSUME Inv, NEW r \in Run, run[r].consumer # "none", NEW d \in Caller, Reloading(d)
  PROVE  cur[d] \in Run /\ cur[d] # r
BY DEF Inv, Others, CallerInv, Typed, CallsTyped

LEMMA ConsumeGotoKeeps ==
  ASSUME Inv, NEW r \in Run, run[r].consumer # "none",
         NEW l \in {"error", "closing", "done"}, ConsumeGoto(r, l), ServiceTyped',
         \A p \in Peers : runtime'[p] \in {runtime[p], None} /\ runtime'[p] # r,
         UNCHANGED <<storeVars, runs, registryVars, callVars>>
  PROVE  Inv'
<1>0. StoreTyped /\ ServiceTyped /\ RunsTyped /\ RegistryTyped /\ CallsTyped
  BY DEF Inv, Typed
<1>1. UNCHANGED <<runAgent, selecting, selects, entry, lease, pc, sel, cur, prev, record>>
  BY DEF storeVars, registryVars, callVars
<1>2. run' = [run EXCEPT ![r].consumer = l]
  BY DEF ConsumeGoto
<1>3. /\ run' \in [Run -> RunFields]
      /\ \A x \in Run : x # r => run'[x] = run[x]
      /\ SameRun(run'[r], run[r]) /\ run'[r].att = run[r].att /\ run'[r].consumer = l
  BY <1>0, <1>2, ConsumerEffect
<1>4. Typed'
  BY <1>0, <1>1, <1>3 DEF Typed, StoreTyped, RunsTyped, RegistryTyped, CallsTyped
<1>5. \A d \in Caller : Knows(d)
  BY <1>3, ConsumerIsNotReloading DEF Knows, AsKnown, Private
<1>6. OwnRuns' /\ \A d \in Caller : CallerInv(d)'
  BY <1>1, <1>4, <1>5, CallersStay
<1>7. \A x \in Run : RunInv(x)'
  <2>1. ASSUME NEW x \in Run, x # r PROVE RunInv(x)'
    BY <1>3, <2>1 DEF Inv, Others, RunInv, Attached, Run, None
  <2>2. RunInv(r)'
    BY <1>3 DEF Inv, Others, RunInv, Attached, SameRun
  <2> QED BY <2>1, <2>2
<1>8. \A v \in Workspaces : RegistryInv(v)'
  <2>1. \A x \in Run : Kept(x)
    BY <1>3 DEF Kept, SameRun
  <2> QED BY <1>1, <2>1, QuietRegistry DEF Inv, Others
<1>9. CurrentIsAttached'
  <2>1. ASSUME NEW p \in Peers, runtime'[p] # None
        PROVE  runtime'[p] = runtime[p] /\ AsKnown(runtime[p])
    <3>1. runtime'[p] = runtime[p] /\ runtime[p] \in Run /\ runtime[p] # r
      BY <1>0, <2>1 DEF ServiceTyped
    <3> QED BY <1>3, <3>1 DEF AsKnown
  <2> QED BY <2>1, CurrentKept
<1> QED BY <1>4, <1>6, <1>7, <1>8, <1>9 DEF Inv, Others

\* A run leaves Service.runtime, when it is the current one.
LEMMA LeavesRuntime ==
  ASSUME Inv, NEW r \in Run, runtime' = [runtime EXCEPT ![run[r].peer] = IfCurrent(r, None, runtime[run[r].peer])]
  PROVE  /\ runtime' \in [Peers -> Run \cup {None}]
         /\ \A p \in Peers : runtime'[p] \in {runtime[p], None} /\ runtime'[p] # r
<1>1. /\ run[r].peer \in Peers /\ runtime \in [Peers -> Run \cup {None}] /\ r # None
  BY FieldsTyped DEF Inv, Typed, RunsTyped, ServiceTyped, Run, None
<1>2. \A p \in Peers : runtime[p] = r => p = run[r].peer
  BY <1>1 DEF Inv, Others, CurrentIsAttached
<1> QED BY <1>1, <1>2 DEF IfCurrent

LEMMA ConsumeEndKeeps ==
  ASSUME Inv, NEW r \in Run, ConsumeEnd(r)
  PROVE  Inv'
<1>1. /\ runtime' \in [Peers -> Run \cup {None}]
      /\ \A p \in Peers : runtime'[p] \in {runtime[p], None} /\ runtime'[p] # r
  BY LeavesRuntime DEF ConsumeEnd
<1>2. ServiceTyped /\ run[r].peer \in Peers
  BY FieldsTyped DEF Inv, Typed, RunsTyped
<1>3. ServiceTyped'
  BY <1>1, <1>2 DEF ConsumeEnd, ServiceTyped, IfCurrent, Status
<1>4. /\ run[r].consumer # "none" /\ ConsumeGoto(r, "closing")
      /\ UNCHANGED <<storeVars, runs, registryVars, callVars>>
  BY DEF ConsumeEnd, Consuming
<1> QED BY <1>1, <1>3, <1>4, ConsumeGotoKeeps

LEMMA ConsumeFailKeeps ==
  ASSUME Inv, NEW r \in Run, ConsumeFail(r)
  PROVE  Inv'
<1>1. /\ runtime' \in [Peers -> Run \cup {None}]
      /\ \A p \in Peers : runtime'[p] \in {runtime[p], None} /\ runtime'[p] # r
  BY LeavesRuntime DEF ConsumeFail
<1>2. ServiceTyped'
  BY <1>1 DEF ConsumeFail, ServiceTyped, Inv, Typed
<1>3. /\ run[r].consumer # "none" /\ ConsumeGoto(r, "error")
      /\ UNCHANGED <<storeVars, runs, registryVars, callVars>>
  BY DEF ConsumeFail, Consuming
<1> QED BY <1>1, <1>2, <1>3, ConsumeGotoKeeps

\* A consumer that has ended is not the current runtime's.
LEMMA EndedIsNotCurrent ==
  ASSUME Inv, NEW r \in Run, run[r].consumer \in {"error", "closing", "releasing", "done"},
         runtime' = runtime
  PROVE  \A p \in Peers : runtime'[p] \in {runtime[p], None} /\ runtime'[p] # r
BY DEF Inv, Others, RunInv

LEMMA ConsumeErrorKeeps ==
  ASSUME Inv, NEW r \in Run, ConsumeError(r)
  PROVE  Inv'
<1>1. /\ run[r].consumer = "error" /\ ConsumeGoto(r, "closing")
      /\ UNCHANGED <<runtime, storeVars, runs, registryVars, callVars>>
  BY DEF ConsumeError, Consuming
<1>2. run[r].peer \in Peers /\ ServiceTyped
  BY FieldsTyped DEF Inv, Typed, RunsTyped
<1>3. ServiceTyped'
  BY <1>2, StatusSet DEF ConsumeError, Status
<1> QED BY <1>1, <1>3, EndedIsNotCurrent, ConsumeGotoKeeps

LEMMA ConsumeDoneKeeps ==
  ASSUME Inv, NEW r \in Run, ConsumeDone(r)
  PROVE  Inv'
<1>1. /\ run[r].consumer = "releasing" /\ ConsumeGoto(r, "done") /\ runtime' = runtime
      /\ UNCHANGED <<storeVars, runs, registryVars, callVars>>
  BY DEF ConsumeDone, Consuming, serviceVars
<1>2. ServiceTyped'
  BY DEF Inv, Typed, ServiceTyped, ConsumeDone, serviceVars
<1> QED BY <1>1, <1>2, EndedIsNotCurrent, ConsumeGotoKeeps

\* The deferred release of a consumer.
LEMMA ConsumeReleaseKeeps ==
  ASSUME Inv, NEW r \in Run, ConsumeRelease(r)
  PROVE  Inv'
<1>0. StoreTyped /\ ServiceTyped /\ RunsTyped /\ RegistryTyped /\ CallsTyped /\ run[r].consumer = "closing"
  BY DEF Inv, Typed, ConsumeRelease, Consuming
<1>1. UNCHANGED <<runAgent, selecting, selects, runtime, status, source, runs, lease, pc, sel, cur, prev, record>>
  BY DEF ConsumeRelease, storeVars, serviceVars, callVars
<1>2. PICK R : R = [run[r] EXCEPT !.input = "closed", !.consumer = "releasing"]
  OBVIOUS
<1>3. R \in RunFields /\ R.att = run[r].att /\ SameRun(R, run[r]) /\ R.consumer = "releasing"
  <2>1. run[r] \in RunFields
    BY <1>0 DEF RunsTyped
  <2> QED BY <1>2, <2>1 DEF RunFields, SameRun
<1>4. Release(r, R)
  BY <1>2 DEF ConsumeRelease
<1>5. \A p \in Peers : runtime'[p] \in {runtime[p], None} /\ runtime'[p] # r
  BY <1>0, <1>1, EndedIsNotCurrent
<1>6. ~(r > runs)
  BY <1>0 DEF Inv, Others, RunInv
<1>7. /\ RunsTyped' /\ RegistryTyped' /\ CurrentIsAttached'
      /\ \A w \in Workspaces : RegistryInv(w)'
      /\ \A x \in Run : RunInv(x)'
      /\ \A x \in Run : x # r => run'[x] = run[x]
  BY <1>1, <1>3, <1>4, <1>5, <1>6, ReleaseFacts
<1>8. Typed'
  BY <1>0, <1>1, <1>7 DEF Typed, StoreTyped, ServiceTyped, CallsTyped
<1>9. \A d \in Caller : Knows(d)
  BY <1>0, <1>7, ConsumerIsNotReloading DEF Knows, AsKnown, Private
<1>10. OwnRuns' /\ \A d \in Caller : CallerInv(d)'
  BY <1>1, <1>5, <1>8, <1>9, CallersStay
<1> QED BY <1>7, <1>8, <1>10 DEF Inv, Others

\* The lease goes back.
LEMMA ReleaseLeaseKeeps ==
  ASSUME Inv, NEW r \in Run, ReleaseLease(r)
  PROVE  Inv'
<1>0. StoreTyped /\ ServiceTyped /\ RunsTyped /\ RegistryTyped /\ CallsTyped /\ run[r].att = "dropping"
  BY DEF Inv, Typed, ReleaseLease
<1>1. UNCHANGED <<runAgent, selecting, selects, runtime, status, source, runs, entry, pc, sel, cur, prev, record>>
  BY DEF ReleaseLease, storeVars, serviceVars, callVars
<1>2. PICK R : R = [run[r] EXCEPT !.att = "released"]
  OBVIOUS
<1>3. run' = [run EXCEPT ![r] = R]
  BY <1>2 DEF ReleaseLease
<1>4. R \in RunFields /\ R.att = "released" /\ R.consumer = run[r].consumer /\ SameRun(R, run[r])
  BY <1>0, <1>2, AttUpdated DEF RunsTyped
<1>5. run' \in [Run -> RunFields] /\ run'[r] = R /\ \A x \in Run : x # r => run'[x] = run[x]
  BY <1>0, <1>3, <1>4, RunUpdated
<1>6. lease' \in [Workspaces -> Run \cup {None}]
  BY <1>0 DEF ReleaseLease, RegistryTyped
<1>7. Typed'
  BY <1>0, <1>1, <1>5, <1>6 DEF Typed, StoreTyped, ServiceTyped, RunsTyped, RegistryTyped, CallsTyped
<1>8. \A d \in Caller : Knows(d)
  <2>1. ASSUME NEW d \in Caller, Reloading(d) PROVE cur[d] \in Run
    BY <1>0, <2>1 DEF Inv, Others, CallerInv, CallsTyped
  <2>2. ASSUME NEW d \in Caller, Private(d) PROVE cur[d] # r
    <3>1. CallerInv(d)
      BY DEF Inv, Others
    <3>2. run[cur[d]].att \in {"none", "held"}
      BY <2>2, <3>1 DEF CallerInv, Private, Reloading, ReloadLabels
    <3> QED BY <1>0, <3>2
  <2> QED BY <1>4, <1>5, <2>1, <2>2 DEF Knows, AsKnown, Private
<1>9. OwnRuns' /\ \A d \in Caller : CallerInv(d)'
  BY <1>1, <1>7, <1>8, CallersStay
<1>10. \A x \in Run : RunInv(x)'
  <2>1. ASSUME NEW x \in Run, x # r PROVE RunInv(x)'
    BY <1>1, <1>5, <2>1 DEF Inv, Others, RunInv, Attached
  <2>2. RunInv(r)'
    BY <1>0, <1>1, <1>4, <1>5 DEF Inv, Others, RunInv, Attached
  <2> QED BY <2>1, <2>2
<1>11. \A v \in Workspaces : RegistryInv(v)'
  BY LeaseBackRegistry DEF Inv, Others
<1>12. CurrentIsAttached'
  <2>1. ASSUME NEW p \in Peers, runtime[p] # None PROVE AsKnown(runtime[p])
    <3>1. runtime[p] \in Run /\ runtime[p] # r
      BY <1>0, <2>1 DEF Inv, Others, CurrentIsAttached, ServiceTyped
    <3> QED BY <1>5, <3>1 DEF AsKnown
  <2> QED BY <1>1, <2>1, CurrentKept
<1> QED BY <1>7, <1>9, <1>10, <1>11, <1>12 DEF Inv, Others

-----------------------------------------------------------------------------
(* The theorems                                                            *)

LEMMA InitHolds == Init => Inv
<1> SUFFICES ASSUME Init PROVE Inv
  OBVIOUS
<1>0. MaxRuns \in Nat /\ MaxSelects \in Nat /\ First \in [Peers -> Workspaces \cup {"none"}]
  BY AgentHostAssumption
<1>1. /\ runs = 0 /\ selects = 0
      /\ \A r \in Run : run[r] = NoRun
      /\ \A p \in Peers : runtime[p] = None
      /\ \A w \in Workspaces : entry[w] = NoEntry /\ lease[w] = None
      /\ \A c \in Caller : pc[c] = "idle" /\ cur[c] = None /\ prev[c] = None
  BY DEF Init
<1>2. Typed
  <2>1. StoreTyped
    <3>1. \A p \in Peers : [active |-> NoWorkspace, pending |-> First[p]] \in RunAgent
      BY <1>0 DEF RunAgent, Selection, NoWorkspace
    <3> QED BY <1>0, <3>1, RecordsTyped DEF Init, StoreTyped
  <2>2. ServiceTyped
    BY DEF Init, ServiceTyped, Status
  <2>3. RunsTyped
    BY <1>0, NoRunTyped DEF Init, RunsTyped
  <2>4. RegistryTyped
    BY DEF Init, RegistryTyped, NoEntry
  <2>5. CallsTyped
    BY RecordsTyped DEF Init, CallsTyped, Selection, ReloadLabels
  <2> QED BY <2>1, <2>2, <2>3, <2>4, <2>5 DEF Typed
<1>3. NoRun.att = "none" /\ NoRun.consumer = "none"
  BY DEF NoRun
<1>4. \A w \in Workspaces : RegistryInv(w)
  <2>1. ASSUME NEW w \in Workspaces PROVE RegistryInv(w)
    <3>1. Holders(w) = {} /\ \A r \in Run : ~Dropping(r, w)
      BY <1>1, <1>3 DEF Holders, Dropping
    <3>2. Cardinality(Holders(w)) = 0 /\ NoEntry.refs = 0
      BY <3>1, FS_EmptySet DEF NoEntry
    <3> QED BY <1>1, <3>1, <3>2 DEF RegistryInv
  <2> QED BY <2>1
<1>5. \A r \in Run : RunInv(r)
  BY <1>1, <1>3 DEF RunInv, Attached
<1>6. \A c \in Caller : CallerInv(c)
  BY <1>1 DEF CallerInv, Reloading, Private, ReloadLabels, CloseLabels, None
<1>7. OwnRuns /\ CurrentIsAttached
  BY <1>1 DEF OwnRuns, CurrentIsAttached
<1> QED BY <1>2, <1>4, <1>5, <1>6, <1>7 DEF Inv, Others

LEMMA NextKeeps == Inv /\ [Next]_vars => Inv'
<1> SUFFICES ASSUME Inv, [Next]_vars PROVE Inv'
  OBVIOUS
<1>1. ASSUME NEW c \in Reloaders, ReloadResolve(c) \/ ReloadStep(c) PROVE Inv'
  <2>0. c \in Caller
    BY DEF Caller
  <2>1. CASE ReloadResolve(c) \/ ReloadFail(c) \/ ReloadRunning(c)
    BY <2>1, ReloadResolveKeeps, ReloadFailKeeps, ReloadRunningKeeps
  <2>2. CASE ReloadStarting(c) \/ ReloadSwap(c) \/ OpenAgentInput(c) \/ OpenAgent(c) \/ OpenAgentFail(c)
    BY <2>0, <2>2, ReloadStartingKeeps, ReloadSwapKeeps, OpenAgentInputKeeps, OpenAgentKeeps,
       OpenAgentFailKeeps
  <2>3. CASE ActivateRead(c) \/ ActivateWrite(c) \/ ActivateFail(c) \/ InstallRuntime(c)
    BY <2>0, <2>3, ActivateReadKeeps, ActivateWriteKeeps, ActivateFailKeeps, InstallRuntimeKeeps
  <2> QED BY <1>1, <2>1, <2>2, <2>3 DEF ReloadStep
<1>2. ASSUME NEW c \in Caller, StopStep(c) PROVE Inv'
  BY <1>2, StopSignalKeeps, StopWaitKeeps, StopAbandonKeeps DEF StopStep
<1>3. ASSUME NEW p \in Closing, CloseSwap(p) \/ CloseStep(p) PROVE Inv'
  BY <1>3, CloseSwapKeeps, CloseStoppingKeeps, CloseStoppedKeeps, CloseSourceKeeps DEF CloseStep
<1>4. ASSUME NEW r \in Run, ConsumeEnd(r) \/ ConsumeFail(r) \/ CleanupStep(r) PROVE Inv'
  BY <1>4, ConsumeEndKeeps, ConsumeFailKeeps, ReleaseLeaseKeeps, ConsumeErrorKeeps,
     ConsumeReleaseKeeps, ConsumeDoneKeeps DEF CleanupStep
<1>5. ASSUME NEW p \in Peers, NEW w \in Workspaces, SetRunAgentRead(p, w) PROVE Inv'
  BY <1>5, SetRunAgentReadKeeps
<1>6. ASSUME NEW p \in Peers, SetRunAgentWrite(p) PROVE Inv'
  BY <1>6, SetRunAgentWriteKeeps
<1>7. CASE UNCHANGED vars
  <2>1. UNCHANGED <<runAgent, selecting, selects, runtime, status, source, run, runs, entry, lease,
                    pc, sel, cur, prev, record>>
    BY <1>7 DEF vars, storeVars, serviceVars, registryVars, callVars
  <2>2. Typed'
    BY <2>1 DEF Inv, Typed, StoreTyped, ServiceTyped, RunsTyped, RegistryTyped, CallsTyped
  <2> QED BY <2>1, <2>2, NothingMoves
<1> QED BY <1>1, <1>2, <1>3, <1>4, <1>5, <1>6, <1>7 DEF Next

\* The count of an entry stays within the number of runs, so that the typed
\* variables have the types the runs check.
LEMMA InvImplies == Inv => IInv
<1> SUFFICES ASSUME Inv PROVE IInv
  OBVIOUS
<1>1. Typed /\ Others
  BY DEF Inv
<1>2. \A w \in Workspaces : entry[w].refs \in 0 .. MaxRuns
  BY <1>1, HoldersBounded DEF Others, RegistryInv
<1>3. TypeOK
  BY <1>1, <1>2, TypeParts
<1> QED BY <1>1, <1>3 DEF Others, IInv

\* In every reachable state the registry counts the attachments, and each run,
\* lease and Reload under way is where its label says.
THEOREM Invariant == Spec => []IInv
<1>1. Init => Inv
  BY InitHolds
<1>2. Inv /\ [Next]_vars => Inv'
  BY NextKeeps
<1> QED BY <1>1, <1>2, InvImplies, PTL DEF Spec

\* Every variable keeps its type in every behaviour of Reload, Stop and the
\* consumers; the counts of the registry never exceed the number of runs.
THEOREM TypeCorrect == Spec => []TypeOK
<1>1. IInv => TypeOK
  BY DEF IInv
<1> QED BY <1>1, Invariant, PTL

\* The registry counts the attachments exactly, the lease of a workspace is its
\* agent's or on its way back, and a peer's current runtime is attached: whatever
\* Reload, ctx.Done, activation failures, consumers and PeerConn.close do to each
\* other, for any number of peers, workspaces and callers.
THEOREM AttachmentsHold == Spec => []AttachmentsSound
<1>1. IInv => AttachmentsCounted
  BY DEF IInv, AttachmentsCounted, RegistryInv
<1>2. IInv => LeaseOwned
  BY DEF IInv, LeaseOwned, RegistryInv, Dropping
<1>3. IInv => AttachmentsSound
  BY <1>1, <1>2 DEF IInv, AttachmentsSound
<1> QED BY <1>3, Invariant, PTL

=============================================================================
