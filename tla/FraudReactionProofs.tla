------------------------ MODULE FraudReactionProofs ------------------------
(***************************************************************************)
(* The theorems of FraudReaction, for any number of vtxos and any faults.  *)
(*                                                                         *)
(* SweepInv and AnswerInv are the inductive invariants.  A sweep that is   *)
(* about to be recorded has taken the output, and an output that was taken *)
(* is not created anew, because the checkpoint tx is broadcast once.  What *)
(* a reaction has found out, that its vtxo is spent and onchain, stays     *)
(* true while it waits for the mutex and for confirmations.                *)
(***************************************************************************)
EXTENDS FraudReaction, TLAPS

SweepTypes ==
    /\ answer \in [Vtxo -> TxStatus]
    /\ output \in [Vtxo -> {"none", "unspent", "ark", "sweep"}]
    /\ task \in [Vtxo -> {"none", "armed", "sweep", "mark"}]
    /\ swept \subseteq Vtxo

SweepInv ==
    /\ SweepTypes /\ SweptIsTaken
    /\ \A v \in Vtxo : task[v] = "mark" => output[v] = "sweep"
    /\ \A v \in Vtxo : output[v] = "sweep" => answer[v] # "off"

\* The steps that change the checkpoint txs, their outputs or their sweeps.
SweepStep ==
    \/ Crash
    \/ \E v \in Vtxo :
          \/ MineAnswer(v) \/ BroadcastArkTx(v) \/ removeTask(v)
          \/ Fire(v) \/ BroadcastSweep(v) \/ SweepVtxoOutpoints(v)
    \/ \E n \in Goroutine :
          broadcastCheckpointTx(n) \/ broadcastForfeitTx(n) \/ scheduleCheckpointSweep(n)

\* The others leave all of them alone.
LEMMA OtherSteps ==
  ASSUME Next
  PROVE  SweepStep \/ UNCHANGED <<answer, output, task, swept>>
<1> USE DEF rows, chain, memory, run
<1>1. ASSUME NEW v \in Vtxo,
             Accept(v) \/ Project(v) \/ Unroll(v) \/ MineVtx(v) \/ ReadInput(v) \/ AddUtxos(v)
                \/ watchSpentCosignedUtxos(v)
      PROVE  UNCHANGED <<answer, output, task, swept>>
  BY <1>1 DEF Accept, Project, Unroll, MineVtx, ReadInput, AddUtxos, watchSpentCosignedUtxos
<1>2. ASSUME NEW c \in Vtxo \cup {Root}, MineConnector(c)
      PROVE  UNCHANGED <<answer, output, task, swept>>
  BY <1>2 DEF MineConnector
<1>3. ASSUME NEW n \in Notification, ReadVtxo(n) \/ UnrollVtxos(n) \/ ConfirmVtx(n)
      PROVE  UNCHANGED <<answer, output, task, swept>>
  BY <1>3 DEF ReadVtxo, UnrollVtxos, ConfirmVtx
<1>4. ASSUME NEW n \in Goroutine,
             lock(n) \/ WatchAnswer(n) \/ AwaitCheckpoint(n) \/ GetOutpointStatus(n)
      PROVE  UNCHANGED <<answer, output, task, swept>>
  BY <1>4 DEF lock, WatchAnswer, AwaitCheckpoint, GetOutpointStatus
<1>5. ASSUME NEW n \in Goroutine, broadcastConnectorBranch(n)
      PROVE  UNCHANGED <<answer, output, task, swept>>
  BY <1>5 DEF broadcastConnectorBranch, broadcastConnector, waitConnector
<1>6. CASE GetAddressNotifications \/ CloseStream \/ Reconnect \/ Start
  BY <1>6 DEF GetAddressNotifications, CloseStream, Reconnect, Start
<1> QED  BY <1>1, <1>2, <1>3, <1>4, <1>5, <1>6 DEF Next, Progress, Goroutines, SweepStep

\* No step of the server, the chain or the clients breaks the invariant.
LEMMA SweepKept ==
  ASSUME SweepInv, Next
  PROVE  SweepInv'
<1> USE DEF SweepInv, SweepTypes, SweptIsTaken, TxStatus, rows, chain, memory, run
<1>1. CASE Crash  BY <1>1 DEF Crash
<1>2. ASSUME NEW v \in Vtxo, MineAnswer(v)  PROVE SweepInv'  BY <1>2 DEF MineAnswer
<1>3. ASSUME NEW v \in Vtxo, BroadcastArkTx(v)  PROVE SweepInv'  BY <1>3 DEF BroadcastArkTx
<1>4. ASSUME NEW v \in Vtxo, removeTask(v)  PROVE SweepInv'  BY <1>4 DEF removeTask
<1>5. ASSUME NEW v \in Vtxo, Fire(v)  PROVE SweepInv'  BY <1>5 DEF Fire
<1>6. ASSUME NEW v \in Vtxo, BroadcastSweep(v)  PROVE SweepInv'  BY <1>6 DEF BroadcastSweep
<1>7. ASSUME NEW v \in Vtxo, SweepVtxoOutpoints(v)  PROVE SweepInv'
  BY <1>7 DEF SweepVtxoOutpoints
<1>8. ASSUME NEW n \in Goroutine, broadcastCheckpointTx(n)  PROVE SweepInv'
  BY <1>8 DEF broadcastCheckpointTx, Answered, Vtx, Goroutine
<1>9. ASSUME NEW n \in Goroutine, broadcastForfeitTx(n)  PROVE SweepInv'
  BY <1>9 DEF broadcastForfeitTx, Answered, Vtx, Goroutine
<1>10. ASSUME NEW n \in Goroutine, scheduleCheckpointSweep(n)  PROVE SweepInv'
  BY <1>10 DEF scheduleCheckpointSweep, Vtx, Goroutine
<1>11. CASE UNCHANGED <<answer, output, task, swept>>  BY <1>11
<1> QED
  BY OtherSteps, <1>1, <1>2, <1>3, <1>4, <1>5, <1>6, <1>7, <1>8, <1>9, <1>10, <1>11 DEF SweepStep

\* The descendants of a checkpoint are marked swept only if the sweep tx took its output
\* (createCheckpointSweepTask), whatever the owner does and whatever fails.
THEOREM SweptAlwaysTaken == Spec => []SweptIsTaken
<1>1. ASSUME Init  PROVE SweepInv
  BY <1>1 DEF Init, SweepInv, SweepTypes, SweptIsTaken, TxStatus
<1>2. ASSUME SweepInv, [Next]_vars  PROVE SweepInv'
  <2>1. CASE UNCHANGED vars
    BY <1>2, <2>1 DEF vars, rows, chain, memory, SweepInv, SweepTypes, SweptIsTaken
  <2> QED  BY <1>2, <2>1, SweepKept
<1>3. SweepInv => SweptIsTaken  BY DEF SweepInv
<1> QED  BY <1>1, <1>2, <1>3, PTL DEF Spec

-----------------------------------------------------------------------------
(* Reactions.                                                              *)

\* The server broadcasts a checkpoint or forfeit tx only against a vtxo that was spent and
\* whose tx is confirmed, and a forfeit tx only once its connector is confirmed.
OnlyFraudAnswered ==
    \A v \in Vtxo : answer[v] # "off" =>
        /\ v \in spent /\ vtx[v] = "mined"
        /\ how[v] = "settled" => connector[v] = "mined"

\* The steps between the confirmation of the vtxo and the broadcast.
Convinced == Held \cup {"lock"}

AnswerTypes ==
    /\ vtx \in [Vtxo -> TxStatus] /\ answer \in [Vtxo -> TxStatus]
    /\ connector \in [Vtxo \cup {Root} -> TxStatus]
    /\ DOMAIN reaction = Goroutine

AnswerInv ==
    /\ AnswerTypes /\ OnlyFraudAnswered
    /\ \A n \in Goroutine :
          /\ reaction[n] # "none" => Vtx(n) \in spent
          /\ reaction[n] \in Convinced => vtx[Vtx(n)] = "mined"
          /\ reaction[n] = "checkpoint" => how[Vtx(n)] # "settled"

\* The steps that change a reaction or what it has found out.
ReactionStep ==
    \/ Crash \/ Start
    \/ \E v \in Vtxo : Project(v) \/ Unroll(v) \/ MineVtx(v) \/ MineAnswer(v)
    \/ \E c \in Vtxo \cup {Root} : MineConnector(c)
    \/ \E n \in Notification : ReadVtxo(n) \/ ConfirmVtx(n)
    \/ \E n \in Goroutine :
          \/ lock(n) \/ broadcastCheckpointTx(n) \/ broadcastConnectorBranch(n)
          \/ broadcastForfeitTx(n) \/ WatchAnswer(n)
          \/ AwaitCheckpoint(n) \/ GetOutpointStatus(n) \/ scheduleCheckpointSweep(n)

\* The others leave all of this alone.
LEMMA OtherReactionSteps ==
  ASSUME Next
  PROVE  ReactionStep \/ UNCHANGED <<spent, vtx, answer, connector, how, reaction>>
<1> USE DEF rows, chain, memory, run
<1>1. ASSUME NEW v \in Vtxo,
             Accept(v) \/ ReadInput(v) \/ AddUtxos(v) \/ watchSpentCosignedUtxos(v) \/ removeTask(v)
                \/ BroadcastArkTx(v) \/ Fire(v) \/ BroadcastSweep(v) \/ SweepVtxoOutpoints(v)
      PROVE  UNCHANGED <<spent, vtx, answer, connector, how, reaction>>
  BY <1>1 DEF Accept, ReadInput, AddUtxos, watchSpentCosignedUtxos, removeTask, BroadcastArkTx, Fire,
     BroadcastSweep, SweepVtxoOutpoints
<1>2. ASSUME NEW n \in Notification, UnrollVtxos(n)
      PROVE  UNCHANGED <<spent, vtx, answer, connector, how, reaction>>
  BY <1>2 DEF UnrollVtxos
<1>3. CASE GetAddressNotifications \/ CloseStream \/ Reconnect
  BY <1>3 DEF GetAddressNotifications, CloseStream, Reconnect
<1> QED  BY <1>1, <1>2, <1>3 DEF Next, Progress, Goroutines, ReactionStep

\* What the goroutine of a reaction may find, step by step.
LEMMA AnswerKept ==
  ASSUME AnswerInv, Next
  PROVE  AnswerInv'
<1> USE DEF AnswerInv, AnswerTypes, OnlyFraudAnswered, TxStatus, rows, chain, memory, run
<1>0. /\ \A n \in Goroutine : Vtx(n) \in Vtxo
      /\ Notification \subseteq Goroutine
  BY DEF Vtx, Goroutine, Notification
<1>1. CASE Crash  BY <1>1 DEF Crash, Convinced, Held
<1>2. CASE Start  BY <1>2 DEF Start, SweepableUnrolled, Convinced, Held
<1>3. ASSUME NEW v \in Vtxo, Project(v)  PROVE AnswerInv'  BY <1>0, <1>3 DEF Project
<1>4. ASSUME NEW v \in Vtxo, Unroll(v)  PROVE AnswerInv'  BY <1>0, <1>4 DEF Unroll
<1>5. ASSUME NEW v \in Vtxo, MineVtx(v)  PROVE AnswerInv'  BY <1>0, <1>5 DEF MineVtx
<1>6. ASSUME NEW v \in Vtxo, MineAnswer(v)  PROVE AnswerInv'  BY <1>0, <1>6 DEF MineAnswer
<1>7. ASSUME NEW c \in Vtxo \cup {Root}, MineConnector(c)  PROVE AnswerInv'
  BY <1>0, <1>7 DEF MineConnector
<1>8. ASSUME NEW n \in Notification, ReadVtxo(n)  PROVE AnswerInv'
  BY <1>0, <1>8 DEF ReadVtxo, Spawn, Convinced, Held
<1>9. ASSUME NEW n \in Notification, ConfirmVtx(n)  PROVE AnswerInv'
  BY <1>0, <1>9 DEF ConfirmVtx, Spawn, Convinced, Held
<1>10. ASSUME NEW n \in Goroutine, lock(n)  PROVE AnswerInv'
  BY <1>0, <1>10 DEF lock, Spawn, Convinced, Held
<1>11. ASSUME NEW n \in Goroutine, broadcastCheckpointTx(n)  PROVE AnswerInv'
  BY <1>0, <1>11 DEF broadcastCheckpointTx, Answered, Spawn, Convinced, Held
<1>12. ASSUME NEW n \in Goroutine, broadcastConnectorBranch(n)  PROVE AnswerInv'
  <2>1. /\ UNCHANGED <<spent, vtx, answer, how>> /\ reaction[n] \in Held
        /\ connector' \in [Vtxo \cup {Root} -> TxStatus]
        /\ \A c \in Vtxo : connector[c] = "mined" => connector'[c] = "mined"
        /\ \E step \in {"none", "waitRoot", "leaf", "waitLeaf", "forfeit"} :
              reaction' = [reaction EXCEPT ![n] = step]
    BY <1>0, <1>12 DEF broadcastConnectorBranch, broadcastConnector, waitConnector, Spawn, Held
  <2> QED  BY <1>0, <2>1 DEF Convinced, Held
<1>13. ASSUME NEW n \in Goroutine, broadcastForfeitTx(n)  PROVE AnswerInv'
  BY <1>0, <1>13 DEF broadcastForfeitTx, Answered, Spawn, Convinced, Held
<1>14. ASSUME NEW n \in Goroutine,
              WatchAnswer(n) \/ AwaitCheckpoint(n) \/ GetOutpointStatus(n) \/ scheduleCheckpointSweep(n)
       PROVE  AnswerInv'
  <2>1. /\ UNCHANGED <<spent, vtx, answer, how, connector>> /\ reaction[n] # "none"
        /\ \E step \in {"none", "schedule", "arm"} : reaction' = [reaction EXCEPT ![n] = step]
    BY <1>0, <1>14 DEF WatchAnswer, AwaitCheckpoint, GetOutpointStatus, scheduleCheckpointSweep, Spawn
  <2> QED  BY <1>0, <2>1 DEF Convinced, Held
<1>15. CASE UNCHANGED <<spent, vtx, answer, connector, how, reaction>>  BY <1>15
<1> QED
  BY OtherReactionSteps, <1>1, <1>2, <1>3, <1>4, <1>5, <1>6, <1>7, <1>8, <1>9, <1>10, <1>11, <1>12,
     <1>13, <1>14, <1>15 DEF ReactionStep

\* reactToFraud answers nothing but the unroll of a spent vtxo, whatever races, stops or fails.
THEOREM OnlyFraudIsAnswered == Spec => []OnlyFraudAnswered
<1>1. ASSUME Init  PROVE AnswerInv
  BY <1>1 DEF Init, AnswerInv, AnswerTypes, OnlyFraudAnswered, TxStatus, Convinced, Held
<1>2. ASSUME AnswerInv, [Next]_vars  PROVE AnswerInv'
  <2>1. CASE UNCHANGED vars
    BY <1>2, <2>1 DEF vars, rows, chain, memory, run, AnswerInv, AnswerTypes, OnlyFraudAnswered
  <2> QED  BY <1>2, <2>1, AnswerKept
<1>3. AnswerInv => OnlyFraudAnswered  BY DEF AnswerInv
<1> QED  BY <1>1, <1>2, <1>3, PTL DEF Spec
=============================================================================
