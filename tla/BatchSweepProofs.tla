-------------------------- MODULE BatchSweepProofs --------------------------
(***************************************************************************)
(* The theorems of BatchSweep, for every tree of txs, every expiry and any *)
(* number of workers, restarts and failures.                               *)
(*                                                                         *)
(* SweepInv is the inductive invariant.  An output that a sweep took stays *)
(* taken, so that what a task, the event log, a projection or a row of the *)
(* database says was swept remains so, however late it is written.         *)
(***************************************************************************)
EXTENDS BatchSweep, TLAPS

\* The server took an output above the leaf.
Taken(l) == \E n \in Path[l] : out[n] = "swept"

\* The vtxos, the event log and the projections name leaves that were taken; the round
\* is said to be swept once all of them were.
RecordFacts ==
    /\ \A l \in swept \cup logged : Taken(l)
    /\ \A w \in Worker : \A l \in proj[w].leaves : Taken(l)
    /\ rowSwept \/ lastFull \/ (\E w \in Worker : proj[w].full) => \A l \in Leaf : Taken(l)

\* What a task is about to record was taken.  An output of which it could not read the
\* leaves is still among the ones it handles if it is the output of the commitment tx,
\* which is swept alone.
Fact(t, o) ==
    /\ t.step \in {"start", "vtxos"} => t.gone = {} /\ t.bare = {}
    /\ t.step = "vtxos" /\ Root \in t.outs => t.outs = {Root}
    /\ t.step = "status" => t.gone = {}
    /\ t.step \in {"status", "spent", "broadcast", "save"} /\ Root \in t.bare =>
           t.outs \cup t.gone = {Root}
    /\ t.step = "spent" => \A n \in t.gone : o[n] # "unspent"
    /\ t.step \in {"broadcast", "save"} => \A n \in t.gone : o[n] = "swept"
    /\ t.step = "save" => \A n \in t.outs : o[n] = "swept"

TaskFacts == \A w \in Worker : Fact(task[w], out)

SweepInv == TypeOK /\ RecordFacts /\ TaskFacts

-----------------------------------------------------------------------------
(* The steps, by what they change.                                         *)

\* Steps of a worker in its task.
TaskStep(w) ==
    \/ Analyze(w) \/ ReadVtxos(w) \/ GetOutpointStatus(w) \/ GetTransactions(w)
    \/ Broadcast(w) \/ Save(w)

\* Steps that give a worker a task.
RunStep(w) ==
    \/ \E n \in Node, tx \in Tx : ScheduleForSubTree(w, n, tx)
    \/ \E j \in jobs : Fire(w, j[1], j[2])

\* Steps of a projection.
ProjStep(w) == Dispatch(w) \/ ProjectRound(w) \/ ProjectVtxos(w) \/ ProjectionFails(w)

\* Every step is one of these.
LEMMA Steps ==
  ASSUME Next
  PROVE  \/ Tick \/ Crash
         \/ \E n \in Node : Unroll(n) \/ Confirm(n) \/ UnrollVtxos(n)
         \/ \E w \in Worker : TaskStep(w) \/ RunStep(w) \/ ProjStep(w) \/ Start(w)
  BY DEF Next, Schedule, Step, TaskStep, RunStep, ProjStep

\* A failure is counted.
LEMMA FailureCounted ==
  ASSUME TypeOK, Works \/ \E what \in Faults : Fails(what)
  PROVE  failures' \in 0..MaxFail /\ settled' \in BOOLEAN
<1>1. MaxFail \in Nat /\ failures \in 0..MaxFail /\ settled \in BOOLEAN
  BY BoundsAssumption DEF TypeOK
<1>2. CASE Works  BY <1>1, <1>2 DEF Works, history
<1>3. ASSUME NEW what \in Faults, Fails(what)
      PROVE  failures' \in 0..MaxFail /\ settled' \in BOOLEAN
  <2>1. failures' = failures + 1 /\ failures < MaxFail /\ settled' = FALSE  BY <1>3 DEF Fails
  <2>2. failures' \in 0..MaxFail  BY <1>1, <2>1
  <2> QED  BY <2>1, <2>2
<1> QED  BY <1>2, <1>3

\* A task is the idle one, or starts with a tree.
LEMMA TaskTypes ==
         /\ Idle \in Task /\ Idle.step = "idle"
         /\ \A n \in Node : /\ Starting(n) \in Task /\ Starting(n).step = "start"
                            /\ Starting(n).gone = {} /\ Starting(n).bare = {}
  BY TreeAssumption DEF Idle, Starting, Task

\* What a worker that is given a task changes.
LEMMA RunEffect ==
  ASSUME TypeOK, NEW w \in Worker, RunStep(w)
  PROVE  /\ UNCHANGED <<height, out, conf, unrolled, swept, rowSwept, logged, lastFull, up, crashes, proj>>
         /\ waiting' \subseteq waiting
         /\ jobs' \subseteq Node \X (0..(MaxHeight + Expiry))
         /\ failures' \in 0..MaxFail /\ settled' \in BOOLEAN
         /\ \/ task' = task
            \/ \E n \in Node : task' = [task EXCEPT ![w] = Starting(n)]
<1> USE DEF chainVars, dbVars, logVars, serverVars
<1>1. ASSUME NEW n \in Node, NEW tx \in Tx, ScheduleForSubTree(w, n, tx)
      PROVE  /\ UNCHANGED <<height, out, conf, unrolled, swept, rowSwept, logged, lastFull, up, crashes, proj>>
             /\ waiting' \subseteq waiting
             /\ jobs' \subseteq Node \X (0..(MaxHeight + Expiry))
             /\ failures' \in 0..MaxFail /\ settled' \in BOOLEAN
             /\ \/ task' = task
                \/ task' = [task EXCEPT ![w] = Starting(n)]
  <2>1. /\ UNCHANGED <<height, out, conf, unrolled, swept, rowSwept, logged, lastFull, up, crashes, proj>>
        /\ waiting' \subseteq waiting
    BY <1>1 DEF ScheduleForSubTree
  <2>2. Works \/ \E what \in Faults : Fails(what)  BY <1>1 DEF ScheduleForSubTree, Fails
  <2>3. \/ ScheduleTask(w, n, HeightOf(tx) + Expiry)
        \/ Run(w, n) /\ UNCHANGED jobs
        \/ ScheduleTask(w, n, Expiry)
    BY <1>1 DEF ScheduleForSubTree
  <2>4. /\ HeightOf(tx) + Expiry \in 0..(MaxHeight + Expiry)
        /\ Expiry \in 0..(MaxHeight + Expiry)
    <3>1. HeightOf(tx) \in 0..MaxHeight
      BY BoundsAssumption DEF HeightOf, TypeOK, Tx
    <3> QED  BY <3>1, BoundsAssumption
  <2>5. /\ jobs' \subseteq jobs \cup {<<n, HeightOf(tx) + Expiry>>, <<n, Expiry>>}
        /\ \/ task' = task
           \/ task' = [task EXCEPT ![w] = Starting(n)]
    BY <2>3 DEF ScheduleTask, Run
  <2>6. jobs \subseteq Node \X (0..(MaxHeight + Expiry))  BY DEF TypeOK
  <2> QED  BY <2>1, <2>2, <2>4, <2>5, <2>6, FailureCounted
<1>2. ASSUME NEW j \in jobs, Fire(w, j[1], j[2])
      PROVE  /\ UNCHANGED <<height, out, conf, unrolled, swept, rowSwept, logged, lastFull, up, crashes, proj>>
             /\ waiting' \subseteq waiting
             /\ jobs' \subseteq Node \X (0..(MaxHeight + Expiry))
             /\ failures' \in 0..MaxFail /\ settled' \in BOOLEAN
             /\ \E n \in Node : task' = [task EXCEPT ![w] = Starting(n)]
  <2>1. j[1] \in Node  BY DEF TypeOK
  <2> QED  BY <1>2, <2>1 DEF Fire, Run, history, TypeOK
<1> QED  BY <1>1, <1>2 DEF RunStep

\* What a step of a task changes: its own worker only.
LEMMA TaskEffect ==
  ASSUME TypeOK, NEW w \in Worker, TaskStep(w)
  PROVE  /\ UNCHANGED <<height, conf, unrolled, swept, rowSwept, up, crashes, jobs>>
         /\ task' = [task EXCEPT ![w] = task'[w]]
         /\ failures' \in 0..MaxFail /\ settled' \in BOOLEAN
<1>1. Works \/ \E what \in Faults : Fails(what)
  BY DEF TaskStep, Analyze, ReadVtxos, GetOutpointStatus, GetTransactions, Broadcast, Save, Fails
<1>2. UNCHANGED <<height, conf, unrolled, swept, rowSwept, up, crashes, jobs>>
  BY DEF TaskStep, Analyze, ReadVtxos, GetOutpointStatus, GetTransactions, Broadcast, Save,
     TaskUnchanged, dbVars, serverVars
<1>3. task \in [Worker -> Task]  BY DEF TypeOK
<1>4. ASSUME Analyze(w)  PROVE task' = [task EXCEPT ![w] = task'[w]]
  BY <1>3, <1>4 DEF Analyze, End
<1>5. ASSUME ReadVtxos(w)  PROVE task' = [task EXCEPT ![w] = task'[w]]
  BY <1>3, <1>5 DEF ReadVtxos, End
<1>6. ASSUME GetOutpointStatus(w)  PROVE task' = [task EXCEPT ![w] = task'[w]]
  BY <1>3, <1>6 DEF GetOutpointStatus, End
<1>7. ASSUME GetTransactions(w)  PROVE task' = [task EXCEPT ![w] = task'[w]]
  BY <1>3, <1>7 DEF GetTransactions, End
<1>8. ASSUME Broadcast(w)  PROVE task' = [task EXCEPT ![w] = task'[w]]
  BY <1>3, <1>8 DEF Broadcast, End
<1>9. ASSUME Save(w)  PROVE task' = [task EXCEPT ![w] = task'[w]]
  BY <1>3, <1>9 DEF Save, End
<1>10. task' = [task EXCEPT ![w] = task'[w]]
  BY <1>4, <1>5, <1>6, <1>7, <1>8, <1>9 DEF TaskStep
<1> QED  BY <1>1, <1>2, <1>10, FailureCounted

\* The task of a worker that analyzed its tree, and what it waits for.
LEMMA AnalyzeEffect ==
  ASSUME TypeOK, NEW w \in Worker, Analyze(w)
  PROVE  /\ waiting' \subseteq Node \X Tx
         /\ task[w].step = "start"
         /\ \/ task'[w] = Idle
            \/ \E expired \in SUBSET Frontier(task[w].root) :
                  task'[w] = [task[w] EXCEPT !.step = "vtxos", !.outs = expired]
<1>0. /\ task \in [Worker -> Task] /\ task[w].step = "start" /\ task[w].root \in Node
      /\ waiting \subseteq Node \X Tx /\ Parent \in [Node -> Tx]
      /\ Frontier(task[w].root) \subseteq Node
  BY TreeAssumption DEF Analyze, TypeOK, Tx, Task, Frontier, Below
<1>1. CASE End(w) /\ UNCHANGED waiting
  BY <1>0, <1>1 DEF End
<1>2. CASE ~(End(w) /\ UNCHANGED waiting)
  <2>1. PICK expired \in SUBSET Frontier(task[w].root) :
          /\ waiting' = waiting \cup {<<m, Parent[task[w].root]>> :
                                        m \in Frontier(task[w].root) \ expired}
          /\ task' = [task EXCEPT ![w] = IF expired = {} THEN Idle
                          ELSE [task[w] EXCEPT !.step = "vtxos", !.outs = expired]]
    BY <1>0, <1>2 DEF Analyze
  <2>2. waiting' \subseteq Node \X Tx  BY <1>0, <2>1
  <2> QED  BY <1>0, <2>1, <2>2
<1> QED  BY <1>1, <1>2

\* ... that read the vtxos,
LEMMA ReadVtxosEffect ==
  ASSUME TypeOK, NEW w \in Worker, ReadVtxos(w)
  PROVE  /\ task[w].step = "vtxos"
         /\ \/ task'[w] = Idle
            \/ \E bare \in SUBSET task[w].outs, kept \in SUBSET task[w].outs :
                  /\ bare \subseteq kept
                  /\ task'[w] = [task[w] EXCEPT !.step = "status", !.outs = kept, !.bare = bare]
<1>0. task \in [Worker -> Task] /\ task[w].step = "vtxos"
  BY DEF ReadVtxos, TypeOK
<1>1. PICK bare \in SUBSET task[w].outs :
         task' = [task EXCEPT ![w] =
             IF {n \in task[w].outs : First[n] \notin swept \cup unrolled} \cup bare = {} THEN Idle
             ELSE [task[w] EXCEPT !.step = "status",
                     !.outs = {n \in task[w].outs : First[n] \notin swept \cup unrolled} \cup bare,
                     !.bare = bare]]
  BY <1>0 DEF ReadVtxos
<1> DEFINE kept == {n \in task[w].outs : First[n] \notin swept \cup unrolled} \cup bare
<1>2. kept \in SUBSET task[w].outs /\ bare \subseteq kept  OBVIOUS
<1>3. \/ task'[w] = Idle
      \/ task'[w] = [task[w] EXCEPT !.step = "status", !.outs = kept, !.bare = bare]
  BY <1>0, <1>1
<1> HIDE DEF kept
<1> QED  BY <1>0, <1>2, <1>3

\* ... that asked which outputs are spent,
LEMMA StatusEffect ==
  ASSUME TypeOK, NEW w \in Worker, GetOutpointStatus(w)
  PROVE  /\ task[w].step = "status"
         /\ \/ task'[w] = Idle
            \/ \E spent \in SUBSET task[w].outs :
                  /\ \A n \in spent : out[n] # "unspent"
                  /\ task'[w] = [task[w] EXCEPT !.step = "spent", !.outs = task[w].outs \ spent, !.gone = spent]
<1>0. task \in [Worker -> Task] /\ task[w] \in Task /\ task[w].step = "status"
  BY DEF GetOutpointStatus, TypeOK
<1> DEFINE spent == {n \in task[w].outs : out[n] # "unspent"}
<1>1. CASE End(w)  BY <1>0, <1>1 DEF End
<1>2. CASE task' = [task EXCEPT ![w].step = "spent", ![w].outs = @ \ spent, ![w].gone = spent]
  <2>1. spent \in SUBSET task[w].outs /\ \A n \in spent : out[n] # "unspent"  OBVIOUS
  <2> HIDE DEF spent
  <2>2. task'[w] = [task[w] EXCEPT !.step = "spent", !.outs = task[w].outs \ spent, !.gone = spent]
    BY <1>0, <1>2 DEF Task
  <2> QED  BY <1>0, <2>1, <2>2
<1> QED  BY <1>1, <1>2 DEF GetOutpointStatus

\* ... and that asked which of them tree txs spend.
LEMMA TransactionsEffect ==
  ASSUME TypeOK, NEW w \in Worker, GetTransactions(w)
  PROVE  /\ task[w].step = "spent" /\ waiting' \subseteq Node \X Tx
         /\ \/ task'[w] = Idle
            \/ \E rest \in SUBSET task[w].gone, step \in {"save", "broadcast"} :
                  /\ \A n \in rest : ~Seen(n)
                  /\ task[w].outs \cup rest # {}
                  /\ step = "save" => task[w].outs = {}
                  /\ task'[w] = [task[w] EXCEPT !.step = step, !.gone = rest]
<1>0. /\ task \in [Worker -> Task] /\ task[w] \in Task /\ task[w].step = "spent"
      /\ waiting \subseteq Node \X Tx
  BY DEF GetTransactions, TypeOK
<1> DEFINE known == {n \in task[w].gone : Seen(n)}
           t == [task[w] EXCEPT !.gone = @ \ known]
<1>1. CASE End(w) /\ UNCHANGED waiting  BY <1>0, <1>1 DEF End
<1>2. CASE /\ waiting' = waiting \cup {<<n, n>> : n \in known}
           /\ task' = [task EXCEPT ![w] =
                  IF t.outs \cup t.gone = {} THEN Idle
                  ELSE [t EXCEPT !.step = IF t.outs = {} THEN "save" ELSE "broadcast"]]
  <2> DEFINE rest == task[w].gone \ known
             step == IF task[w].outs = {} THEN "save" ELSE "broadcast"
  <2>1. rest \in SUBSET task[w].gone /\ (\A n \in rest : ~Seen(n))  OBVIOUS
  <2>2. known \subseteq Node  BY <1>0 DEF Task
  <2> HIDE DEF known
  <2>3. waiting' \subseteq Node \X Tx  BY <1>0, <1>2, <2>2 DEF Tx
  <2>4. /\ t.outs = task[w].outs /\ t.gone = rest
        /\ \A x : [t EXCEPT !.step = x] = [task[w] EXCEPT !.step = x, !.gone = rest]
    BY <1>0 DEF Task
  <2>5. \/ task'[w] = Idle
        \/ /\ task[w].outs \cup rest # {}
           /\ task'[w] = [task[w] EXCEPT !.step = step, !.gone = rest]
    BY <1>0, <1>2, <2>4
  <2>6. step \in {"save", "broadcast"} /\ (step = "save" => task[w].outs = {})  OBVIOUS
  <2> HIDE DEF rest, step, t
  <2> QED  BY <1>0, <2>1, <2>3, <2>5, <2>6
<1> QED  BY <1>1, <1>2 DEF GetTransactions

-----------------------------------------------------------------------------
(* Types.                                                                  *)

\* No step takes a variable out of its type.
LEMMA TypeStep ==
  ASSUME TypeOK, Next
  PROVE  TypeOK'
<1> USE DEF chainVars, dbVars, logVars, serverVars, history
<1>0. MaxHeight \in Nat /\ height \in 0..MaxHeight  BY BoundsAssumption DEF TypeOK
<1>1. CASE Tick  BY <1>0, <1>1 DEF Tick, TypeOK
<1>2. CASE Crash
  <2>1. MaxCrash \in Nat /\ crashes \in 0..MaxCrash  BY BoundsAssumption DEF TypeOK
  <2>2. crashes' = crashes + 1 /\ crashes < MaxCrash  BY <1>2 DEF Crash
  <2>3. crashes' \in 0..MaxCrash  BY <2>1, <2>2
  <2>4. /\ task' \in [Worker -> Task]
        /\ proj' \in [Worker -> [step : {"none", "dispatch", "row", "vtxos"}, leaves : SUBSET Leaf,
                                full : BOOLEAN]]
    BY <1>2, TaskTypes DEF Crash, NoProjection
  <2> QED  BY <1>2, <2>3, <2>4 DEF Crash, TypeOK
<1>3. ASSUME NEW n \in Node, Unroll(n)  PROVE TypeOK'  BY <1>3 DEF Unroll, TypeOK
<1>4. ASSUME NEW n \in Node, Confirm(n)  PROVE TypeOK'  BY <1>0, <1>4 DEF Confirm, TypeOK
<1>5. ASSUME NEW n \in Node, UnrollVtxos(n)  PROVE TypeOK'  BY <1>5 DEF UnrollVtxos, TypeOK
<1>6. ASSUME NEW w \in Worker, RunStep(w)  PROVE TypeOK'
  <2>1. task' \in [Worker -> Task]  BY <1>6, RunEffect, TaskTypes DEF TypeOK
  <2> QED  BY <1>6, <2>1, RunEffect DEF TypeOK
<1>7. ASSUME NEW w \in Worker, TaskStep(w)  PROVE TypeOK'
  <2>0. /\ UNCHANGED <<height, conf, unrolled, swept, rowSwept, up, crashes, jobs>>
        /\ failures' \in 0..MaxFail /\ settled' \in BOOLEAN
    BY <1>7, TaskEffect
  <2>1. /\ task \in [Worker -> Task] /\ task[w] \in Task /\ Idle \in Task
        /\ waiting \subseteq Node \X Tx
        /\ Parent \in [Node -> Tx]
    BY TaskTypes, TreeAssumption DEF TypeOK, Tx
  <2>2. CASE Analyze(w)
    <3>0. waiting' \subseteq Node \X Tx /\ Frontier(task[w].root) \subseteq Node
      BY <1>7, <2>2, AnalyzeEffect DEF Frontier, Below
    <3>1. task'[w] \in Task
      <4>1. ASSUME NEW expired \in SUBSET Node
            PROVE  [task[w] EXCEPT !.step = "vtxos", !.outs = expired] \in Task
        BY <2>1 DEF Task
      <4>2. CASE task'[w] = Idle  BY <2>1, <4>2
      <4>3. CASE task'[w] # Idle
        <5> PICK expired \in SUBSET Frontier(task[w].root) :
                task'[w] = [task[w] EXCEPT !.step = "vtxos", !.outs = expired]
          BY <1>7, <2>2, <4>3, AnalyzeEffect
        <5> QED  BY <3>0, <4>1
      <4> QED  BY <4>2, <4>3
    <3>2. task' \in [Worker -> Task]  BY <1>7, <2>1, <3>1, TaskEffect
    <3> QED  BY <2>0, <2>2, <3>0, <3>2 DEF Analyze, TypeOK
  <2>3. CASE ReadVtxos(w)
    <3>1. task'[w] \in Task
      <4>1. ASSUME NEW bare \in SUBSET task[w].outs, NEW kept \in SUBSET task[w].outs
            PROVE  [task[w] EXCEPT !.step = "status", !.outs = kept, !.bare = bare] \in Task
        BY <2>1 DEF Task
      <4>2. CASE task'[w] = Idle  BY <2>1, <4>2
      <4>3. CASE task'[w] # Idle
        <5> PICK bare \in SUBSET task[w].outs, kept \in SUBSET task[w].outs :
                task'[w] = [task[w] EXCEPT !.step = "status", !.outs = kept, !.bare = bare]
          BY <1>7, <2>3, <4>3, ReadVtxosEffect
        <5> QED  BY <4>1
      <4> QED  BY <4>2, <4>3
    <3>2. task' \in [Worker -> Task]  BY <1>7, <2>1, <3>1, TaskEffect
    <3> QED  BY <2>0, <2>3, <3>2 DEF ReadVtxos, TypeOK
  <2>4. CASE GetOutpointStatus(w)
    <3>1. task'[w] \in Task
      <4>1. ASSUME NEW spent \in SUBSET task[w].outs
            PROVE  [task[w] EXCEPT !.step = "spent", !.outs = task[w].outs \ spent, !.gone = spent] \in Task
        BY <2>1 DEF Task
      <4>2. CASE task'[w] = Idle  BY <2>1, <4>2
      <4>3. CASE task'[w] # Idle
        <5> PICK spent \in SUBSET task[w].outs :
                task'[w] = [task[w] EXCEPT !.step = "spent", !.outs = task[w].outs \ spent, !.gone = spent]
          BY <1>7, <2>4, <4>3, StatusEffect
        <5> QED  BY <4>1
      <4> QED  BY <4>2, <4>3
    <3>2. task' \in [Worker -> Task]  BY <1>7, <2>1, <3>1, TaskEffect
    <3> QED  BY <2>0, <2>4, <3>2 DEF GetOutpointStatus, TypeOK
  <2>5. CASE GetTransactions(w)
    <3>0. waiting' \subseteq Node \X Tx  BY <1>7, <2>5, TransactionsEffect
    <3>1. task'[w] \in Task
      <4>1. ASSUME NEW rest \in SUBSET task[w].gone, NEW step \in {"save", "broadcast"}
            PROVE  [task[w] EXCEPT !.step = step, !.gone = rest] \in Task
        BY <2>1 DEF Task
      <4>2. CASE task'[w] = Idle  BY <2>1, <4>2
      <4>3. CASE task'[w] # Idle
        <5> PICK rest \in SUBSET task[w].gone, step \in {"save", "broadcast"} :
                task'[w] = [task[w] EXCEPT !.step = step, !.gone = rest]
          BY <1>7, <2>5, <4>3, TransactionsEffect
        <5> QED  BY <4>1
      <4> QED  BY <4>2, <4>3
    <3>2. task' \in [Worker -> Task]  BY <1>7, <2>1, <3>1, TaskEffect
    <3> QED  BY <2>0, <2>5, <3>0, <3>2 DEF GetTransactions, TypeOK
  <2>6. CASE Broadcast(w)
    <3>1. task' \in [Worker -> Task]  BY <2>1, <2>6 DEF Broadcast, End, Task
    <3>2. out' \in [Node -> {"unspent", "mempool", "confirmed", "swept"}]
      BY <2>6 DEF Broadcast, TypeOK
    <3> QED  BY <2>0, <2>6, <3>1, <3>2 DEF Broadcast, TypeOK
  <2>7. CASE Save(w)
    <3>1. task' \in [Worker -> Task]  BY <2>1, <2>7 DEF Save, End
    <3>2. logged' \subseteq Leaf /\ lastFull' \in BOOLEAN
      BY <2>7 DEF Save, TypeOK, Leaves
    <3>3. proj' \in [Worker -> [step : {"none", "dispatch", "row", "vtxos"}, leaves : SUBSET Leaf,
                                full : BOOLEAN]]
      BY <2>7 DEF Save, TypeOK
    <3> QED  BY <2>0, <2>7, <3>1, <3>2, <3>3 DEF Save, TypeOK
  <2> QED  BY <1>7, <2>2, <2>3, <2>4, <2>5, <2>6, <2>7 DEF TaskStep
<1>8. ASSUME NEW w \in Worker, ProjStep(w)  PROVE TypeOK'
  <2>0. Works \/ \E what \in Faults : Fails(what)
    BY <1>8 DEF ProjStep, Dispatch, ProjectRound, ProjectVtxos, ProjectionFails, Fails
  <2>1. failures' \in 0..MaxFail /\ settled' \in BOOLEAN  BY <2>0, FailureCounted
  <2> USE DEF ProjectionUnchanged
  <2>2. CASE Dispatch(w)  BY <2>1, <2>2 DEF Dispatch, TypeOK
  <2>3. CASE ProjectRound(w)  BY <2>1, <2>3 DEF ProjectRound, TypeOK
  <2>4. CASE ProjectVtxos(w)  BY <2>1, <2>4 DEF ProjectVtxos, TypeOK, NoProjection
  <2>5. CASE ProjectionFails(w)  BY <2>1, <2>5 DEF ProjectionFails, TypeOK, NoProjection
  <2> QED  BY <1>8, <2>2, <2>3, <2>4, <2>5 DEF ProjStep
<1>9. ASSUME NEW w \in Worker, Start(w)  PROVE TypeOK'
  <2>1. rowSwept' \in BOOLEAN  BY <1>9 DEF Start, MarkSweptBatches, TypeOK
  <2>2. swept' \subseteq Leaf /\ failures' \in 0..MaxFail /\ settled' \in BOOLEAN
    <3>1. CASE Fails("projection")
      <4>1. "projection" \in Faults  BY <3>1 DEF Fails
      <4> QED  BY <1>9, <3>1, <4>1, FailureCounted DEF Start, EnsureSweptVtxos, TypeOK
    <3>2. CASE ~Fails("projection")
      BY <1>9, <3>2 DEF Start, EnsureSweptVtxos, TypeOK
    <3> QED  BY <3>1, <3>2
  <2>3. task' \in [Worker -> Task]
    BY <1>9, TaskTypes, TreeAssumption DEF Start, Run, TypeOK
  <2> QED  BY <1>9, <2>1, <2>2, <2>3 DEF Start, TypeOK
<1> QED  BY Steps, <1>1, <1>2, <1>3, <1>4, <1>5, <1>6, <1>7, <1>8, <1>9

\* An output that was taken stays taken, and one that was spent is never unspent again.
LEMMA OutputsStay ==
  ASSUME TypeOK, Next
  PROVE  \A n \in Node : /\ out[n] = "swept" => out'[n] = "swept"
                         /\ out[n] # "unspent" => out'[n] # "unspent"
<1> USE DEF chainVars, TypeOK
<1>1. CASE Tick \/ Crash  BY <1>1 DEF Tick, Crash
<1>2. ASSUME NEW n \in Node, Unroll(n) \/ Confirm(n) \/ UnrollVtxos(n)
      PROVE  \A m \in Node : /\ out[m] = "swept" => out'[m] = "swept"
                             /\ out[m] # "unspent" => out'[m] # "unspent"
  BY <1>2 DEF Unroll, Confirm, UnrollVtxos
<1>3. ASSUME NEW w \in Worker, Broadcast(w)
      PROVE  \A m \in Node : /\ out[m] = "swept" => out'[m] = "swept"
                             /\ out[m] # "unspent" => out'[m] # "unspent"
  BY <1>3 DEF Broadcast
<1>4. ASSUME NEW w \in Worker, TaskStep(w), ~Broadcast(w)  PROVE out' = out
  BY <1>4 DEF TaskStep, Analyze, ReadVtxos, GetOutpointStatus, GetTransactions, Save
<1>5. ASSUME NEW w \in Worker, RunStep(w)  PROVE out' = out
  BY <1>5, RunEffect
<1>6. ASSUME NEW w \in Worker, ProjStep(w)  PROVE out' = out
  BY <1>6 DEF ProjStep, Dispatch, ProjectRound, ProjectVtxos, ProjectionFails, ProjectionUnchanged
<1>7. ASSUME NEW w \in Worker, Start(w)  PROVE out' = out
  BY <1>7 DEF Start
<1> QED  BY Steps, <1>1, <1>2, <1>3, <1>4, <1>5, <1>6, <1>7

-----------------------------------------------------------------------------
(* Tasks.                                                                  *)

\* A task that no step of its worker changes keeps them, for outputs stay taken.
LEMMA FactStays ==
  ASSUME TypeOK, Next, NEW t \in Task, Fact(t, out)
  PROVE  Fact(t, out')
<1>1. t.gone \subseteq Node /\ t.outs \subseteq Node  BY DEF Task
<1> QED  BY <1>1, OutputsStay DEF Fact

\* The output of the commitment tx is alone on the frontier.
LEMMA RootAlone ==
  ASSUME NEW n \in Node, Root \in Frontier(n)
  PROVE  Frontier(n) = {Root}
<1>1. n = Root  BY TreeAssumption DEF Frontier, Below
<1>2. \A m \in Node : Root \in Path[m]  BY TreeAssumption
<1>3. Root \in Below(Root)  BY <1>2, TreeAssumption DEF Below
<1> QED  BY <1>1, <1>2, <1>3 DEF Frontier, Below

\* Every step of a task hands on what the next one needs.
LEMMA TaskStepFact ==
  ASSUME TypeOK, TaskFacts, NEW w \in Worker, TaskStep(w)
  PROVE  Fact(task'[w], out')
<1>0. /\ task[w] \in Task /\ Fact(task[w], out)
      /\ out \in [Node -> {"unspent", "mempool", "confirmed", "swept"}]
  BY DEF TypeOK, TaskFacts
<1>i. Fact(Idle, out')  BY DEF Fact, Idle
<1>1. CASE task'[w] = Idle  BY <1>i, <1>1
<1>2. CASE task'[w] # Idle /\ Analyze(w)
  <2> PICK expired \in SUBSET Frontier(task[w].root) :
          task'[w] = [task[w] EXCEPT !.step = "vtxos", !.outs = expired]
    BY <1>2, AnalyzeEffect
  <2>1. task[w].step = "start" /\ task[w].gone = {} /\ task[w].bare = {}
    BY <1>0, <1>2, AnalyzeEffect DEF Fact
  <2>2. Root \in expired => expired = {Root}  BY <1>0, RootAlone DEF Task
  <2>3. /\ task'[w].step = "vtxos" /\ task'[w].outs = expired
        /\ task'[w].gone = {} /\ task'[w].bare = {}
    BY <1>0, <2>1 DEF Task
  <2> QED  BY <2>2, <2>3 DEF Fact
<1>3. CASE task'[w] # Idle /\ ReadVtxos(w)
  <2> PICK bare \in SUBSET task[w].outs, kept \in SUBSET task[w].outs :
          /\ bare \subseteq kept
          /\ task'[w] = [task[w] EXCEPT !.step = "status", !.outs = kept, !.bare = bare]
    BY <1>3, ReadVtxosEffect
  <2>1. /\ task[w].step = "vtxos" /\ task[w].gone = {}
        /\ Root \in task[w].outs => task[w].outs = {Root}
    BY <1>0, <1>3, ReadVtxosEffect DEF Fact
  <2>2. /\ task'[w].step = "status" /\ task'[w].outs = kept /\ task'[w].bare = bare
        /\ task'[w].gone = {}
    BY <1>0, <2>1 DEF Task
  <2>3. Root \in bare => kept = {Root}  BY <2>1
  <2> QED  BY <2>2, <2>3 DEF Fact
<1>4. CASE task'[w] # Idle /\ GetOutpointStatus(w)
  <2> PICK spent \in SUBSET task[w].outs :
          /\ \A n \in spent : out[n] # "unspent"
          /\ task'[w] = [task[w] EXCEPT !.step = "spent", !.outs = task[w].outs \ spent, !.gone = spent]
    BY <1>4, StatusEffect
  <2>1. /\ task[w].step = "status" /\ task[w].gone = {} /\ out' = out
        /\ Root \in task[w].bare => task[w].outs = {Root}
    BY <1>0, <1>4, StatusEffect DEF Fact, GetOutpointStatus
  <2>2. /\ task'[w].step = "spent" /\ task'[w].outs = task[w].outs \ spent
        /\ task'[w].gone = spent /\ task'[w].bare = task[w].bare
    BY <1>0 DEF Task
  <2> QED  BY <2>1, <2>2 DEF Fact
<1>5. CASE task'[w] # Idle /\ GetTransactions(w)
  <2> PICK rest \in SUBSET task[w].gone, step \in {"save", "broadcast"} :
          /\ \A n \in rest : ~Seen(n)
          /\ task[w].outs \cup rest # {}
          /\ step = "save" => task[w].outs = {}
          /\ task'[w] = [task[w] EXCEPT !.step = step, !.gone = rest]
    BY <1>5, TransactionsEffect
  <2>1. /\ task[w].step = "spent" /\ out' = out
        /\ \A n \in task[w].gone : out[n] # "unspent"
        /\ Root \in task[w].bare => task[w].outs \cup task[w].gone = {Root}
    BY <1>0, <1>5, TransactionsEffect DEF Fact, GetTransactions
  <2>2. /\ task'[w].step = step /\ task'[w].outs = task[w].outs
        /\ task'[w].gone = rest /\ task'[w].bare = task[w].bare
    BY <1>0 DEF Task
  <2>3. \A n \in rest : out[n] = "swept"
    BY <1>0, <2>1, TreeAssumption DEF Task, Seen
  <2>4. Root \in task[w].bare => task[w].outs \cup rest = {Root}  BY <2>1
  <2> QED  BY <2>1, <2>2, <2>3, <2>4 DEF Fact
<1>6. CASE task'[w] # Idle /\ Broadcast(w)
  <2>0. task \in [Worker -> Task] /\ task[w].step = "broadcast"
    BY <1>6 DEF TypeOK, Broadcast
  <2>1. ~End(w)  BY <1>6, <2>0 DEF End
  <2>2. /\ out' = [n \in Node |-> IF n \in task[w].outs THEN "swept" ELSE out[n]]
        /\ task' = [task EXCEPT ![w].step = "save"]
    BY <1>6, <2>1 DEF Broadcast
  <2>3. /\ task'[w].step = "save" /\ task'[w].outs = task[w].outs
        /\ task'[w].gone = task[w].gone /\ task'[w].bare = task[w].bare
    BY <1>0, <2>0, <2>2 DEF Task
  <2>4. task[w].outs \subseteq Node /\ task[w].gone \subseteq Node  BY <1>0 DEF Task
  <2> QED  BY <1>0, <2>0, <2>2, <2>3, <2>4 DEF Fact
<1>7. CASE Save(w)  BY <1>i, <1>7 DEF Save, End, TypeOK
<1> QED  BY <1>1, <1>2, <1>3, <1>4, <1>5, <1>6, <1>7 DEF TaskStep

\* So do the steps of everybody else.
LEMMA TaskFactsKept ==
  ASSUME TypeOK, TaskFacts, Next
  PROVE  TaskFacts'
<1>0. task \in [Worker -> Task] /\ \A w \in Worker : task[w] \in Task /\ Fact(task[w], out)
  BY DEF TypeOK, TaskFacts
<1>s. SUFFICES ASSUME NEW v \in Worker PROVE Fact(task'[v], out')
  BY DEF TaskFacts
<1>k. CASE task'[v] = task[v]  BY <1>0, <1>k, FactStays
<1>1. CASE Tick  BY <1>k, <1>1 DEF Tick
<1>2. CASE Crash  BY <1>2 DEF Crash, Fact, Idle
<1>3. ASSUME NEW n \in Node, Unroll(n) \/ Confirm(n) \/ UnrollVtxos(n)  PROVE Fact(task'[v], out')
  BY <1>k, <1>3 DEF Unroll, Confirm, UnrollVtxos
<1>4. ASSUME NEW w \in Worker, TaskStep(w)  PROVE Fact(task'[v], out')
  <2>1. CASE v = w  BY <1>4, <2>1, TaskStepFact
  <2>2. CASE v # w
    <3>1. task'[v] = task[v]  BY <1>0, <1>4, <2>2, TaskEffect
    <3> QED  BY <1>k, <3>1
  <2> QED  BY <2>1, <2>2
<1>r. \A n \in Node : Fact(Starting(n), out')
  <2> SUFFICES ASSUME NEW n \in Node PROVE Fact(Starting(n), out')  OBVIOUS
  <2>1. Starting(n).step = "start" /\ Starting(n).gone = {} /\ Starting(n).bare = {}
    BY TaskTypes
  <2> QED  BY <2>1 DEF Fact
<1>5. ASSUME NEW w \in Worker, RunStep(w)  PROVE Fact(task'[v], out')
  <2>1. task'[v] = task[v] \/ \E n \in Node : task'[v] = Starting(n)
    BY <1>0, <1>5, RunEffect
  <2> QED  BY <1>k, <1>r, <2>1
<1>6. ASSUME NEW w \in Worker, ProjStep(w)  PROVE Fact(task'[v], out')
  BY <1>k, <1>6 DEF ProjStep, Dispatch, ProjectRound, ProjectVtxos, ProjectionFails, ProjectionUnchanged
<1>7. ASSUME NEW w \in Worker, Start(w)  PROVE Fact(task'[v], out')
  <2>1. task'[v] = task[v] \/ task'[v] = Starting(Root)  BY <1>0, <1>7 DEF Start, Run
  <2> QED  BY <1>k, <1>r, <2>1, TreeAssumption
<1> QED  BY Steps, <1>1, <1>2, <1>3, <1>4, <1>5, <1>6, <1>7

-----------------------------------------------------------------------------
(* Records.                                                                *)

\* A leaf that was taken stays taken.
LEMMA TakenStays ==
  ASSUME TypeOK, Next, NEW l \in Leaf, Taken(l)
  PROVE  Taken(l)'
<1>1. Path[l] \subseteq Node  BY TreeAssumption DEF Leaf
<1> QED  BY <1>1, OutputsStay DEF Taken

\* The leaves below an output that was taken were taken.
LEMMA LeavesTaken ==
  ASSUME NEW n \in Node, out[n] = "swept", NEW l \in Leaves(n)
  PROVE  Taken(l)
  BY DEF Leaves, Below, Taken

\* Everything the steps of the server record was taken, unless a batch that is unrolled in
\* part is taken for swept at a start.
LEMMA RecordFactsKept ==
  ASSUME TypeOK, TypeOK', RecordFacts, TaskFacts, Next, "partial" \notin Faults
  PROVE  RecordFacts'
<1> USE DEF chainVars, dbVars, logVars, serverVars
<1>0. /\ swept \subseteq Leaf /\ logged \subseteq Leaf /\ DOMAIN proj = Worker
      /\ \A w \in Worker : proj[w].leaves \subseteq Leaf
      /\ proj \in [Worker -> [step : {"none", "dispatch", "row", "vtxos"}, leaves : SUBSET Leaf,
                              full : BOOLEAN]]
  BY DEF TypeOK
<1>t. \A l \in Leaf : Taken(l) => Taken(l)'  BY TakenStays
<1>k. CASE UNCHANGED <<swept, logged, rowSwept, lastFull, proj>>
  BY <1>0, <1>t, <1>k DEF RecordFacts
<1>1. CASE Tick  BY <1>k, <1>1 DEF Tick
<1>2. CASE Crash  BY <1>0, <1>t, <1>2 DEF Crash, RecordFacts, NoProjection
<1>3. ASSUME NEW n \in Node, Unroll(n) \/ Confirm(n) \/ UnrollVtxos(n)  PROVE RecordFacts'
  BY <1>k, <1>3 DEF Unroll, Confirm, UnrollVtxos
<1>4. ASSUME NEW w \in Worker, RunStep(w)  PROVE RecordFacts'
  BY <1>k, <1>4, RunEffect
<1>5. ASSUME NEW w \in Worker, TaskStep(w), ~Save(w)  PROVE RecordFacts'
  BY <1>k, <1>5 DEF TaskStep, Analyze, ReadVtxos, GetOutpointStatus, GetTransactions, Broadcast,
     TaskUnchanged
<1>6. ASSUME NEW w \in Worker, Save(w)  PROVE RecordFacts'
  <2> DEFINE leaves == UNION {Leaves(n) : n \in (task[w].outs \cup task[w].gone) \ task[w].bare}
  <2>0. UNCHANGED <<swept, rowSwept>> /\ task[w] \in Task /\ task[w].step = "save" /\ Fact(task[w], out)
    BY <1>6 DEF Save, TaskUnchanged, TypeOK, TaskFacts
  <2>1. \A n \in task[w].outs \cup task[w].gone : n \in Node /\ out[n] = "swept"
    BY <2>0 DEF Fact, Task
  <2>2. \A l \in leaves : l \in Leaf /\ Taken(l)
    BY <2>1, LeavesTaken DEF Leaves
  <2>3. Root \in task[w].bare => \A l \in Leaf : Taken(l)
    <3> SUFFICES ASSUME Root \in task[w].bare, NEW l \in Leaf PROVE Taken(l)  OBVIOUS
    <3>1. out[Root] = "swept"  BY <2>0, <2>1 DEF Fact
    <3>2. Root \in Path[l]  BY TreeAssumption DEF Leaf
    <3> QED  BY <3>1, <3>2 DEF Taken
  <2>4. CASE UNCHANGED <<logged, lastFull, proj>>  BY <1>k, <2>0, <2>4
  <2>5. CASE /\ lastFull' = (leaves = Leaf)
             /\ \/ logged' = logged \cup leaves
                \/ Root \in task[w].bare /\ logged' = logged \cup (Leaf \ swept)
             /\ proj' = [proj EXCEPT ![w].step = "dispatch"]
    <3>1. \A u \in Worker : proj'[u].leaves = proj[u].leaves /\ proj'[u].full = proj[u].full
      BY <1>0, <2>5
    <3>2. \A l \in logged' : l \in Leaf /\ Taken(l)
      BY <1>0, <2>2, <2>3, <2>5 DEF RecordFacts
    <3>3. lastFull' => \A l \in Leaf : Taken(l)  BY <2>2, <2>5
    <3> HIDE DEF leaves
    <3> QED  BY <1>0, <1>t, <2>0, <3>1, <3>2, <3>3 DEF RecordFacts
  <2> QED  BY <1>6, <2>4, <2>5 DEF Save
<1>7. ASSUME NEW w \in Worker, ProjStep(w)  PROVE RecordFacts'
  <2> USE DEF ProjectionUnchanged
  <2>1. CASE Dispatch(w)
    <3>1. /\ UNCHANGED <<swept, logged, rowSwept, lastFull>>
          /\ \A u \in Worker : \/ proj'[u] = proj[u]
                               \/ proj'[u].leaves = logged /\ proj'[u].full = lastFull
      BY <1>0, <2>1 DEF Dispatch
    <3> QED  BY <1>0, <1>t, <3>1 DEF RecordFacts
  <2>2. CASE ProjectRound(w)
    <3>1. /\ UNCHANGED <<swept, logged, lastFull>> /\ rowSwept' = proj[w].full
          /\ \A u \in Worker : proj'[u].leaves = proj[u].leaves /\ proj'[u].full = proj[u].full
      BY <1>0, <2>2 DEF ProjectRound
    <3> QED  BY <1>0, <1>7, <1>t, <3>1 DEF RecordFacts
  <2>3. CASE ProjectVtxos(w)
    <3>1. /\ UNCHANGED <<logged, rowSwept, lastFull>> /\ swept' = swept \cup proj[w].leaves
          /\ \A u \in Worker : \/ proj'[u] = proj[u]
                               \/ proj'[u].leaves = {} /\ proj'[u].full = FALSE
      BY <1>0, <2>3 DEF ProjectVtxos, NoProjection
    <3> QED  BY <1>0, <1>7, <1>t, <3>1 DEF RecordFacts
  <2>4. CASE ProjectionFails(w)
    <3>1. /\ UNCHANGED <<swept, logged, rowSwept, lastFull>>
          /\ \A u \in Worker : \/ proj'[u] = proj[u]
                               \/ proj'[u].leaves = {} /\ proj'[u].full = FALSE
      BY <1>0, <2>4 DEF ProjectionFails, NoProjection
    <3> QED  BY <1>0, <1>t, <3>1 DEF RecordFacts
  <2> QED  BY <1>7, <2>1, <2>2, <2>3, <2>4 DEF ProjStep
<1>8. ASSUME NEW w \in Worker, Start(w)  PROVE RecordFacts'
  <2>1. UNCHANGED <<logged, lastFull, proj>> /\ MarkSweptBatches /\ EnsureSweptVtxos
    BY <1>8 DEF Start
  <2>2. rowSwept' => \A l \in Leaf : Taken(l)
    <3>1. CASE rowSwept' = rowSwept  BY <3>1 DEF RecordFacts
    <3>2. CASE ExpiredButNotSwept /\ out[Root] # "unspent"
      <4>1. ~Seen(Root)  BY <3>2 DEF ExpiredButNotSwept
      <4>2. out[Root] = "swept"
        BY <3>2, <4>1, TreeAssumption DEF Seen, TypeOK
      <4>3. \A l \in Leaf : Root \in Path[l]  BY TreeAssumption DEF Leaf
      <4> QED  BY <4>2, <4>3 DEF Taken
    <3> QED  BY <2>1, <3>1, <3>2 DEF MarkSweptBatches
  <2>3. swept' = swept \/ (rowSwept' /\ swept' = Leaf)
    <3>1. CASE rowSwept'  BY <2>1, <3>1 DEF EnsureSweptVtxos
    <3>2. CASE ~rowSwept'  BY <2>1, <3>2 DEF EnsureSweptVtxos
    <3> QED  BY <3>1, <3>2
  <2> QED  BY <1>0, <1>t, <2>1, <2>2, <2>3 DEF RecordFacts
<1> QED  BY Steps, <1>1, <1>2, <1>3, <1>4, <1>5, <1>6, <1>7, <1>8 DEF TaskStep

-----------------------------------------------------------------------------
(* The theorems.                                                           *)

\* The invariant holds when the batch is created, and every step keeps it.
LEMMA SweepInvInit ==
  ASSUME Init
  PROVE  SweepInv
<1> USE DEF Init
<1>1. TypeOK
  <2>1. 0 \in 0..MaxHeight /\ 0 \in 0..MaxCrash /\ 0 \in 0..MaxFail  BY BoundsAssumption
  <2>2. height \in 0..MaxHeight /\ crashes \in 0..MaxCrash /\ failures \in 0..MaxFail  BY <2>1
  <2>3. conf \in [Node -> 0..MaxHeight]  BY <2>1
  <2>4. task \in [Worker -> Task] /\ waiting \subseteq Node \X Tx
    BY TaskTypes, TreeAssumption DEF Tx
  <2>5. proj \in [Worker -> [step : {"none", "dispatch", "row", "vtxos"}, leaves : SUBSET Leaf,
                            full : BOOLEAN]]
    BY DEF NoProjection
  <2> QED  BY <2>2, <2>3, <2>4, <2>5 DEF TypeOK
<1>2. RecordFacts  BY DEF RecordFacts, NoProjection
<1>3. TaskFacts  BY DEF TaskFacts, Fact, Idle
<1> QED  BY <1>1, <1>2, <1>3 DEF SweepInv

\* Every variable keeps its type, whatever fails.
THEOREM SweepTyped == Spec => []TypeOK
<1>1. ASSUME TypeOK, [Next]_vars  PROVE TypeOK'
  <2>1. CASE UNCHANGED vars
    BY <1>1, <2>1 DEF vars, chainVars, dbVars, logVars, serverVars, history, TypeOK
  <2> QED  BY <1>1, <2>1, TypeStep
<1>2. SweepInv => TypeOK  BY DEF SweepInv
<1> QED  BY <1>1, <1>2, SweepInvInit, PTL DEF Spec

\* A vtxo is marked swept, and an event says so, only if the server took an output above
\* it (createBatchSweepTask), for every tree and whatever fails; the one exception is the
\* start of the server after the stored expiry of a batch that is unrolled in part.
THEOREM SweptAlwaysSwept ==
  ASSUME "partial" \notin Faults
  PROVE  Spec => []SweptIsSwept
<1>1. ASSUME SweepInv, [Next]_vars  PROVE SweepInv'
  <2>1. CASE Next
    BY <1>1, <2>1, TypeStep, TaskFactsKept, RecordFactsKept DEF SweepInv
  <2>2. CASE UNCHANGED vars
    BY <1>1, <2>2 DEF vars, chainVars, dbVars, logVars, serverVars, history, SweepInv, TypeOK,
       RecordFacts, TaskFacts, Taken, Fact
  <2> QED  BY <1>1, <2>1, <2>2
<1>2. SweepInv => SweptIsSwept  BY DEF SweepInv, RecordFacts, Taken, SweptIsSwept
<1> QED  BY <1>1, <1>2, SweepInvInit, PTL DEF Spec
=============================================================================
