----------------------------- MODULE BatchSweep -----------------------------
(***************************************************************************)
(* The sweeper and one batch: how the server gets its funds back once the  *)
(* batch has expired, while the owners of the vtxos may unroll parts of    *)
(* the tree at any time.                                                   *)
(*                                                                         *)
(* An output of the tree is named after the tree tx that would spend it:   *)
(* it is unspent, spent by that tx, in the mempool or confirmed, or spent  *)
(* by a sweep of the server.  A leaf stands for its vtxo and for the       *)
(* preconfirmed vtxos that descend from it.  Time is the height of the     *)
(* chain, the unit of the block scheduler.                                 *)
(***************************************************************************)
EXTENDS Naturals, FiniteSets

CONSTANTS
    Node,       \* txs of the vtxo tree
    Root,       \* the one that spends the commitment tx
    Commitment, \* the commitment tx
    Parent,     \* the tx each one spends
    Path,       \* the txs from the root down to each one
    First,      \* the first leaf below each one
    Expiry,     \* blocks after which an output can be swept
    MaxHeight,  \* bound on the height of the chain
    MaxCrash,   \* bound on the restarts of the server
    MaxFail,    \* bound on the failures
    Worker,     \* goroutines that run sweep tasks
    Faults      \* what may go wrong

Below(n) == {m \in Node : n \in Path[m]}
Leaf == {n \in Node : Below(n) = {n}}
Leaves(n) == Below(n) \cap Leaf

ASSUME TreeAssumption ==
    /\ Root \in Node /\ Commitment \notin Node
    /\ Parent \in [Node -> Node \cup {Commitment}]
    /\ Path \in [Node -> SUBSET Node]
    /\ \A n \in Node :
          IF n = Root THEN Parent[n] = Commitment /\ Path[n] = {n}
          ELSE Parent[n] \in Node \ {n} /\ Path[n] = Path[Parent[n]] \cup {n} /\ Root \in Path[n]
    /\ IsFiniteSet(Node)
    /\ First \in [Node -> Leaf] /\ \A n \in Node : First[n] \in Leaves(n)

ASSUME BoundsAssumption == Expiry \in Nat /\ MaxHeight \in Nat /\ MaxCrash \in Nat /\ MaxFail \in Nat

\* The status of an output cannot be read; another call of the wallet fails; the height of
\* the chain cannot be read; a read of the vtxos fails; the event store refuses the event;
\* a write of a projection fails; the server starts after the stored expiry of a batch
\* that is unrolled in part, no leaf of it being onchain.
ASSUME FaultsAssumption ==
    Faults \subseteq {"status", "wallet", "tip", "read", "save", "projection", "partial"}

VARIABLES
    \* chain
    height,     \* its height, the commitment tx being in the block of height 0
    out,        \* what happened to each output
    conf,       \* the height at which each tree tx was confirmed
    \* database
    unrolled,   \* leaves marked unrolled
    swept,      \* leaves marked swept
    rowSwept,   \* the round is marked swept
    logged,     \* leaves in the BatchSwept events of the round
    lastFull,   \* the last of these events says that the batch is fully swept
    \* sweeper
    up,         \* the server is running
    crashes,    \* how many times it stopped
    waiting,    \* goroutines that wait for a tx to be confirmed to schedule a task
    jobs,       \* scheduled tasks: the root of the tree to sweep and when
    task,       \* the task each worker runs
    proj,       \* the projection started by the last event each worker saved
    \* history
    failures,   \* how many times something failed
    settled     \* since the server started, nothing failed and nothing was unrolled

chainVars == <<height, out, conf>>
dbVars == <<unrolled, swept, rowSwept>>
logVars == <<logged, lastFull>>
serverVars == <<up, crashes>>
history == <<failures, settled>>
vars == <<chainVars, dbVars, logVars, serverVars, waiting, jobs, task, proj, history>>

-----------------------------------------------------------------------------
Tx == Node \cup {Commitment}
Confirmed(tx) == IF tx = Commitment THEN TRUE ELSE out[tx] = "confirmed"
Seen(tx) == IF tx = Commitment THEN TRUE ELSE out[tx] \in {"mempool", "confirmed"}
HeightOf(tx) == IF tx = Commitment THEN 0 ELSE conf[tx]
ExpiresAt(n) == HeightOf(Parent[n]) + Expiry
Mature(n) == Confirmed(Parent[n]) /\ ExpiresAt(n) <= height

\* A task: the tree it sweeps, the outputs it is about, those whose leaves it could not
\* read, and those spent already.
Task == [step : {"idle", "start", "vtxos", "status", "spent", "broadcast", "save"},
         root : Node, outs : SUBSET Node, bare : SUBSET Node, gone : SUBSET Node]
Idle == [step |-> "idle", root |-> Root, outs |-> {}, bare |-> {}, gone |-> {}]
Starting(n) == [Idle EXCEPT !.step = "start", !.root = n]

NoProjection == [step |-> "none", leaves |-> {}, full |-> FALSE]

Init ==
    /\ height = 0
    /\ out = [n \in Node |-> "unspent"] /\ conf = [n \in Node |-> 0]
    /\ unrolled = {} /\ swept = {} /\ rowSwept = FALSE
    /\ logged = {} /\ lastFull = FALSE
    /\ up = TRUE /\ crashes = 0
    /\ waiting = {<<Root, Commitment>>} /\ jobs = {}
    /\ task = [w \in Worker |-> Idle]
    /\ proj = [w \in Worker |-> NoProjection]
    /\ failures = 0 /\ settled = TRUE

-----------------------------------------------------------------------------
(* The chain and its users.                                                *)

Tick ==
    /\ height < MaxHeight
    /\ height' = height + 1
    /\ UNCHANGED <<out, conf, dbVars, logVars, serverVars, waiting, jobs, task, proj, history>>

\* The owner of a vtxo broadcasts a tx of its branch.
Unroll(n) ==
    /\ out[n] = "unspent" /\ Seen(Parent[n])
    /\ out' = [out EXCEPT ![n] = "mempool"]
    /\ settled' = FALSE
    /\ UNCHANGED <<height, conf, dbVars, logVars, serverVars, waiting, jobs, task, proj, failures>>

Confirm(n) ==
    /\ out[n] = "mempool" /\ Confirmed(Parent[n])
    /\ out' = [out EXCEPT ![n] = "confirmed"]
    /\ conf' = [conf EXCEPT ![n] = height]
    /\ UNCHANGED <<height, dbVars, logVars, serverVars, waiting, jobs, task, proj, history>>

\* The scanner sees a leaf onchain.
UnrollVtxos(n) ==
    /\ up /\ n \in Leaf /\ Seen(n) /\ n \notin unrolled
    /\ unrolled' = unrolled \cup {n}
    /\ UNCHANGED <<chainVars, swept, rowSwept, logVars, serverVars, waiting, jobs, task, proj, history>>

-----------------------------------------------------------------------------
(* Scheduling.                                                             *)

Works == UNCHANGED history
Fails(what) ==
    /\ what \in Faults /\ failures < MaxFail
    /\ failures' = failures + 1 /\ settled' = FALSE

Run(w, n) == task[w].step = "idle" /\ task' = [task EXCEPT ![w] = Starting(n)]

\* scheduleTask runs a task of the past at once and keeps one task for each root.
ScheduleTask(w, n, at) ==
    \/ at <= height /\ Run(w, n) /\ UNCHANGED jobs
    \/ /\ at > height
       /\ jobs' = IF \E j \in jobs : j[1] = n THEN jobs ELSE jobs \cup {<<n, at>>}
       /\ UNCHANGED task

\* scheduleSweepBatchOutput and scheduleForSubTree wait for a tx to be confirmed.  If the
\* wallet fails they go on with a height of zero; if the height of the chain cannot be
\* read, AfterNow answers that the time has come.
ScheduleForSubTree(w, n, tx) ==
    /\ <<n, tx>> \in waiting
    /\ waiting' = waiting \ {<<n, tx>>}
    /\ \/ Confirmed(tx) /\ ScheduleTask(w, n, HeightOf(tx) + Expiry) /\ Works
       \/ Confirmed(tx) /\ Run(w, n) /\ UNCHANGED jobs /\ Fails("tip")
       \/ ScheduleTask(w, n, Expiry) /\ Fails("wallet")
    /\ UNCHANGED <<chainVars, dbVars, logVars, serverVars, proj>>

\* The scheduler runs a task, which is no longer scheduled from then on.
Fire(w, n, at) ==
    /\ <<n, at>> \in jobs /\ at <= height
    /\ jobs' = jobs \ {<<n, at>>}
    /\ Run(w, n)
    /\ UNCHANGED <<chainVars, dbVars, logVars, serverVars, waiting, proj, history>>

-----------------------------------------------------------------------------
(* createBatchSweepTask.  A task that fails is not scheduled again.        *)

End(w) == task' = [task EXCEPT ![w] = Idle]
TaskUnchanged == UNCHANGED <<dbVars, height, conf, serverVars, jobs>>

\* Mutant: the children of a confirmed tx are not looked at.
RootOnly(n) == IF Confirmed(n) THEN {} ELSE {n}

\* findSweepableOutputs: the outputs of a tree that no confirmed tree tx spends.
Frontier(n) ==
    {m \in Below(n) : ~Confirmed(m) /\ \A a \in (Path[m] \cap Below(n)) \ {m} : Confirmed(a)}

\* The outputs that have not expired are scheduled, each with the tree below it, once the
\* input of the analyzed tree is confirmed; the expired ones are handled now.
Analyze(w) ==
    /\ task[w].step = "start"
    /\ LET n == task[w].root
           frontier == Frontier(n)
           mature == {m \in frontier : ExpiresAt(m) <= height}
       IN  \/ Fails("wallet") /\ End(w) /\ UNCHANGED waiting
           \/ (\E m \in frontier : ~Confirmed(Parent[m])) /\ End(w) /\ Works /\ UNCHANGED waiting
           \/ /\ \A m \in frontier : Confirmed(Parent[m])
              /\ \E expired \in SUBSET frontier :
                   /\ \/ expired = mature /\ Works
                      \/ mature \subseteq expired /\ expired # mature /\ Fails("tip")
                   /\ waiting' = waiting \cup {<<m, Parent[n]>> : m \in frontier \ expired}
                   /\ task' = [task EXCEPT ![w] =
                          IF expired = {} THEN Idle
                          ELSE [@ EXCEPT !.step = "vtxos", !.outs = expired]]
    /\ TaskUnchanged /\ UNCHANGED <<out, logVars, proj>>

\* An output is skipped if the first vtxo below it is swept or unrolled; if the vtxo
\* cannot be read, the output is swept without its leaves.
ReadVtxos(w) ==
    /\ task[w].step = "vtxos"
    /\ \E bare \in SUBSET task[w].outs :
          /\ IF bare = {} THEN Works ELSE Fails("read")
          /\ LET kept == {n \in task[w].outs : First[n] \notin swept \cup unrolled} \cup bare
             IN  task' = [task EXCEPT ![w] = IF kept = {} THEN Idle
                                             ELSE [@ EXCEPT !.step = "status", !.outs = kept, !.bare = bare]]
    /\ TaskUnchanged /\ UNCHANGED <<out, logVars, waiting, proj>>

GetOutpointStatus(w) ==
    /\ task[w].step = "status"
    /\ \/ /\ LET spent == {n \in task[w].outs : out[n] # "unspent"}
             IN  task' = [task EXCEPT ![w].step = "spent", ![w].outs = @ \ spent, ![w].gone = spent]
          /\ Works
       \/ End(w) /\ Fails("status")
    /\ TaskUnchanged /\ UNCHANGED <<out, logVars, waiting, proj>>

\* Mutant: every spent output was swept.
GetTransactionsSkipped(w) ==
    /\ task[w].step = "spent"
    /\ task' = [task EXCEPT ![w] =
                    IF @.outs \cup @.gone = {} THEN Idle
                    ELSE [@ EXCEPT !.step = IF task[w].outs = {} THEN "save" ELSE "broadcast"]]
    /\ Works /\ TaskUnchanged /\ UNCHANGED <<out, logVars, waiting, proj>>

\* A spent output was swept, unless the wallet knows the tree tx that spends it: then the
\* tree below is scheduled once that tx is confirmed.
GetTransactions(w) ==
    /\ task[w].step = "spent"
    /\ \/ /\ LET known == {n \in task[w].gone : Seen(n)}
                 t == [task[w] EXCEPT !.gone = @ \ known]
             IN  /\ waiting' = waiting \cup {<<n, n>> : n \in known}
                 /\ task' = [task EXCEPT ![w] =
                        IF t.outs \cup t.gone = {} THEN Idle
                        ELSE [t EXCEPT !.step = IF t.outs = {} THEN "save" ELSE "broadcast"]]
          /\ Works
       \/ End(w) /\ UNCHANGED waiting /\ Fails("wallet")
    /\ TaskUnchanged /\ UNCHANGED <<out, logVars, proj>>

\* One tx sweeps the unspent outputs.  The broadcast is retried until all of them are
\* mature, and fails if one of them was spent in the meantime.
Broadcast(w) ==
    /\ task[w].step = "broadcast"
    /\ \/ /\ \A n \in task[w].outs : out[n] = "unspent" /\ Mature(n)
          /\ out' = [n \in Node |-> IF n \in task[w].outs THEN "swept" ELSE out[n]]
          /\ task' = [task EXCEPT ![w].step = "save"]
          /\ Works
       \/ (\E n \in task[w].outs : out[n] # "unspent") /\ End(w) /\ UNCHANGED out /\ Works
       \/ End(w) /\ UNCHANGED out /\ Fails("wallet")
    /\ TaskUnchanged /\ UNCHANGED <<logVars, waiting, proj>>

\* Round.Sweep appends a BatchSwept event unless the round is marked swept.  The round
\* comes from the database without its past events, so that only a sweep of all the
\* leaves at once makes the batch fully swept.  If the output of the commitment tx was
\* taken, the vtxos of the batch are read again, which may fail as well.
Save(w) ==
    /\ task[w].step = "save" /\ proj[w].step = "none"
    /\ End(w)
    /\ \/ rowSwept /\ UNCHANGED <<logVars, proj>> /\ Works
       \/ /\ ~rowSwept
          /\ LET leaves == UNION {Leaves(n) : n \in (task[w].outs \cup task[w].gone) \ task[w].bare}
             IN  /\ lastFull' = (leaves = Leaf)
                 /\ \/ logged' = logged \cup leaves
                    \/ /\ Root \in task[w].bare
                       /\ logged' = logged \cup (Leaf \ swept)
          /\ proj' = [proj EXCEPT ![w].step = "dispatch"]
          /\ Works
       \/ UNCHANGED <<logVars, proj>> /\ Fails("save")
    /\ TaskUnchanged /\ UNCHANGED <<out, waiting>>

-----------------------------------------------------------------------------
(* The projection of a BatchSwept event: all the events of the round are   *)
(* read again, the round is written, then the vtxos.                       *)

ProjectionUnchanged ==
    UNCHANGED <<chainVars, unrolled, logVars, serverVars, waiting, jobs, task>>

Dispatch(w) ==
    /\ proj[w].step = "dispatch"
    /\ proj' = [proj EXCEPT ![w] = [step |-> "row", leaves |-> logged, full |-> lastFull]]
    /\ Works /\ ProjectionUnchanged /\ UNCHANGED <<swept, rowSwept>>

ProjectRound(w) ==
    /\ proj[w].step = "row"
    /\ rowSwept' = proj[w].full
    /\ proj' = [proj EXCEPT ![w].step = "vtxos"]
    /\ Works /\ ProjectionUnchanged /\ UNCHANGED swept

ProjectVtxos(w) ==
    /\ proj[w].step = "vtxos"
    /\ swept' = swept \cup proj[w].leaves
    /\ proj' = [proj EXCEPT ![w] = NoProjection]
    /\ Works /\ ProjectionUnchanged /\ UNCHANGED rowSwept

ProjectionFails(w) ==
    /\ proj[w].step # "none" /\ Fails("projection")
    /\ proj' = [proj EXCEPT ![w] = NoProjection]
    /\ ProjectionUnchanged /\ UNCHANGED <<swept, rowSwept>>

-----------------------------------------------------------------------------
(* Restarts.                                                               *)

Crash ==
    /\ up /\ crashes < MaxCrash
    /\ up' = FALSE /\ crashes' = crashes + 1
    /\ waiting' = {} /\ jobs' = {}
    /\ task' = [w \in Worker |-> Idle] /\ proj' = [w \in Worker |-> NoProjection]
    /\ settled' = FALSE
    /\ UNCHANGED <<chainVars, dbVars, logVars, failures>>

\* SelectExpiredButNotSweptRounds: by the expiry stored when the round ended, which the
\* block scheduler never updates and the system clock may pass earlier or later than the
\* chain does, and if no vtxo is unrolled.
ExpiredButNotSwept ==
    /\ ~rowSwept /\ swept # Leaf /\ unrolled = {}
    /\ "partial" \in Faults \/ ~Seen(Root)

\* markSweptBatches marks such a batch as swept if the output of its commitment tx is spent.
MarkSweptBatches ==
    \/ rowSwept' = rowSwept
    \/ ExpiredButNotSwept /\ out[Root] # "unspent" /\ rowSwept' = TRUE

\* Mutant: the vtxos of a swept round are not repaired.
EnsureNothing == UNCHANGED <<swept, failures>> /\ settled' = \A n \in Node : out[n] # "mempool"

\* ensureSweptVtxos marks the vtxos of a round that is marked swept, if it can.
EnsureSweptVtxos ==
    \/ /\ swept' = IF rowSwept' THEN Leaf ELSE swept
       /\ settled' = \A n \in Node : out[n] # "mempool"
       /\ UNCHANGED failures
    \/ UNCHANGED swept /\ Fails("projection")

\* The server starts: the projections are repaired, then the sweeper runs a task for
\* every batch that is not marked swept.
Start(w) ==
    /\ ~up /\ up' = TRUE
    /\ MarkSweptBatches
    /\ EnsureSweptVtxos
    /\ IF rowSwept' THEN UNCHANGED task ELSE Run(w, Root)
    /\ UNCHANGED <<chainVars, unrolled, logVars, crashes, waiting, jobs, proj>>

-----------------------------------------------------------------------------
Step(w) ==
    \/ Analyze(w) \/ ReadVtxos(w) \/ GetOutpointStatus(w) \/ GetTransactions(w)
    \/ Broadcast(w) \/ Save(w)
    \/ Dispatch(w) \/ ProjectRound(w) \/ ProjectVtxos(w)

Schedule ==
    \E w \in Worker :
        \/ \E n \in Node, tx \in Tx : ScheduleForSubTree(w, n, tx)
        \/ \E j \in jobs : Fire(w, j[1], j[2])

Next ==
    \/ Tick \/ Schedule
    \/ \E n \in Node : Unroll(n) \/ Confirm(n) \/ UnrollVtxos(n)
    \/ \E w \in Worker : Step(w) \/ ProjectionFails(w) \/ Start(w)
    \/ Crash

Spec == Init /\ [][Next]_vars

\* Something can go on: a goroutine of the server, a server that stopped, or the
\* confirmation of a tx.  Blocks are not required to come.
Progress ==
    \/ \E w \in Worker : Step(w) \/ Start(w)
    \/ \E n \in Node : Confirm(n)
    \/ Schedule

\* Every behaviour is finite, so that fairness of each goroutine follows.
FairSpec == Spec /\ WF_vars(Progress)

-----------------------------------------------------------------------------
(* Properties.                                                             *)

\* Every variable has its type.
TypeOK ==
    /\ height \in 0..MaxHeight /\ crashes \in 0..MaxCrash /\ failures \in 0..MaxFail
    /\ out \in [Node -> {"unspent", "mempool", "confirmed", "swept"}]
    /\ conf \in [Node -> 0..MaxHeight]
    /\ unrolled \subseteq Leaf /\ swept \subseteq Leaf /\ logged \subseteq Leaf
    /\ rowSwept \in BOOLEAN /\ lastFull \in BOOLEAN /\ up \in BOOLEAN /\ settled \in BOOLEAN
    /\ waiting \subseteq Node \X Tx
    /\ jobs \subseteq Node \X (0..(MaxHeight + Expiry))
    /\ task \in [Worker -> Task]
    /\ proj \in [Worker -> [step : {"none", "dispatch", "row", "vtxos"}, leaves : SUBSET Leaf,
                            full : BOOLEAN]]

\* A vtxo is marked swept only if the server really took the output above it, whatever
\* is unrolled while the sweeper looks at the tree and whatever fails: a vtxo its owner
\* has brought onchain is never recorded as the server's.
SweptIsSwept == \A l \in swept \cup logged : \E n \in Path[l] : out[n] = "swept"

\* Nothing failed and the server never stopped, or it runs again, and since it started
\* nothing failed and nothing was unrolled.
Undisturbed == (crashes = 0 /\ failures = 0) \/ settled

\* Every sweep is recorded: the leaves below an output the server took are marked swept,
\* even if it stopped right after the broadcast, after the event was stored or between
\* the two writes of the projection.  Only what is unrolled while the restarted server
\* looks at the tree again can put that off, to the next start.
SweepRecorded ==
    Undisturbed ~> (\A n \in Node : out[n] = "swept" => Leaves(n) \subseteq swept) \/ ~Undisturbed

\* After a start that finds no tree tx in the mempool, and as long as nobody unrolls
\* anything, the server takes every output that expires.
ExpiredTaken ==
    settled ~> (\A n \in Node : Mature(n) => out[n] # "unspent") \/ ~settled
=============================================================================
