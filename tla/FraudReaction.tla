--------------------------- MODULE FraudReaction ---------------------------
(***************************************************************************)
(* What the server does when a vtxo that was already spent is unrolled.    *)
(* The wallet (pkg/arkd-wallet) follows the watched scripts through        *)
(* nbxplorer and streams notifications to the server, which handles each   *)
(* one in a goroutine of its own (internal/core/application/service.go,    *)
(* listenToScannerNotifications).  A spent vtxo is answered by the         *)
(* checkpoint tx that spent it offchain or, when it was settled in a       *)
(* batch, by its forfeit tx, which needs the branch of the connector tree  *)
(* above its connector (fraud.go).  The output of a checkpoint tx is then  *)
(* swept unless the ark tx that spends it is broadcast (sweeper.go).       *)
(*                                                                         *)
(* All the settled vtxos were settled in one batch; their connectors are   *)
(* children of one root.  A spend is accepted and finalized in one step    *)
(* (see OffchainTxLife) and the exit delay of the owner does not pass.     *)
(***************************************************************************)
EXTENDS Naturals, FiniteSets

CONSTANTS
    Vtxo,            \* vtxos of the server
    Scenario,        \* what may fail, and how the vtxos are spent
    MaxBreak         \* bound on crashes and outages of the stream

\* race: a vtxo is spent while its unroll is being handled.
\* outage: the stream of notifications between the wallet and the server breaks.
\* crash: the server stops and starts again.  wallet, db: a call fails.
Fault == {"race", "outage", "crash", "wallet", "db"}

\* A vtxo is spent offchain, settled in a batch, or kept offchain and not spent.
Kind == {"offchain", "settled", "kept"}

ASSUME ScenarioAssumption ==
    Scenario \subseteq [faults : SUBSET Fault, how : [Vtxo -> Kind]]

VARIABLES
    faults,          \* the faults of this behaviour
    breaks,          \* crashes and outages so far
    how,             \* how each vtxo is spent
    accepted,        \* vtxos whose spend was accepted
    spent,           \* vtxos whose row says spent
    unrolled,        \* vtxos whose row says unrolled
    swept,           \* vtxos whose descendants are marked swept
    utxo,            \* row of the cosigned utxos table for the spend of a vtxo
    vtx,             \* the tx of each vtxo: "off", "mempool" or "mined"
    connector,       \* the txs of the connector tree
    answer,          \* the checkpoint or forfeit tx of each vtxo
    output,          \* who spent the output of the checkpoint tx
    seen,            \* wallet: txs notified while unconfirmed
    link,            \* the stream: "up", "cut", or "down" with the server
    listener,        \* goroutines that handle the notified outputs
    input,           \* goroutines that handle the notified inputs
    watching,        \* vtxos whose spend is watched for its confirmation
    reaction,        \* goroutines of reactToFraud and of its continuation
    child,           \* vtxos whose child was notified
    task             \* the sweep of each checkpoint output

chain == <<vtx, connector, answer, output>>
rows == <<accepted, spent, unrolled, swept, utxo>>
memory == <<listener, input, watching, reaction, child, task>>
run == <<faults, how, breaks>>
vars == <<run, rows, chain, seen, link, memory>>

Root == "root"
TxStatus == {"off", "mempool", "mined"}
Notification == Vtxo \X {"mempool", "mined"}
Goroutine == Vtxo \X {"mempool", "mined", "start"}
Vtx(n) == n[1]

Init ==
    /\ \E s \in Scenario : faults = s.faults /\ how = s.how
    /\ breaks = 0
    /\ accepted = {} /\ spent = {} /\ unrolled = {} /\ swept = {}
    /\ utxo = [v \in Vtxo |-> "none"]
    /\ vtx = [v \in Vtxo |-> "off"]
    /\ connector = [c \in Vtxo \cup {Root} |-> "off"]
    /\ answer = [v \in Vtxo |-> "off"]
    /\ output = [v \in Vtxo |-> "none"]
    /\ seen = {} /\ link = "up"
    /\ listener = [n \in Notification |-> "none"]
    /\ input = [v \in Vtxo |-> "none"]
    /\ watching = {}
    /\ reaction = [n \in Goroutine |-> "none"]
    /\ child = {}
    /\ task = [v \in Vtxo |-> "none"]

Fails(f) == f \in faults

-----------------------------------------------------------------------------
(* Spends, the chain and the wallet.                                       *)

\* The server cosigns the spend of a vtxo that is not marked unrolled.
Accept(v) ==
    /\ how[v] # "kept" /\ v \notin accepted \cup unrolled /\ link # "down"
    /\ Fails("race") \/ vtx[v] = "off"
    /\ accepted' = accepted \cup {v}
    /\ UNCHANGED <<spent, unrolled, swept, utxo, chain, seen, link, memory, run>>

\* The projection of the spend reaches the database.
Project(v) ==
    /\ v \in accepted \ spent
    /\ spent' = spent \cup {v}
    /\ UNCHANGED <<accepted, unrolled, swept, utxo, chain, seen, link, memory, run>>

\* The wallet passes a notification on; without a stream it has no listener.
Notify(n) ==
    listener' = IF link = "up" THEN [listener EXCEPT ![n] = "sent"] ELSE listener

\* The owner unrolls the vtxo.  The wallet remembers that it notified the tx, unless
\* it was not connected to nbxplorer.
Unroll(v) ==
    /\ how[v] # "kept" /\ vtx[v] = "off" /\ vtx' = [vtx EXCEPT ![v] = "mempool"]
    /\ \/ seen' = seen \cup {v} /\ Notify(<<v, "mempool">>)
       \/ UNCHANGED <<seen, listener>>
    /\ UNCHANGED <<connector, answer, output, rows, link, run>>
    /\ UNCHANGED <<input, watching, reaction, child, task>>

\* The tx is mined.  Its notification carries inputs and outputs only if the tx was
\* not notified before.
stripNotifiedTx(v) ==
    IF v \in seen THEN seen' = seen \ {v} /\ UNCHANGED listener
                  ELSE UNCHANGED seen /\ Notify(<<v, "mined">>)

MineVtx(v) ==
    /\ vtx[v] = "mempool" /\ vtx' = [vtx EXCEPT ![v] = "mined"]
    /\ stripNotifiedTx(v)
    /\ UNCHANGED <<connector, answer, output, rows, link, run>>
    /\ UNCHANGED <<input, watching, reaction, child, task>>

\* The wallet connects to nbxplorer again with an empty set.
GetAddressNotifications ==
    /\ seen # {} /\ seen' = {}
    /\ UNCHANGED <<rows, chain, link, memory, run>>

\* A connector tx, a checkpoint tx or a forfeit tx is mined.
MineConnector(c) ==
    /\ connector[c] = "mempool" /\ connector' = [connector EXCEPT ![c] = "mined"]
    /\ UNCHANGED <<vtx, answer, output, rows, seen, link, memory, run>>

MineAnswer(v) ==
    /\ answer[v] = "mempool" /\ answer' = [answer EXCEPT ![v] = "mined"]
    /\ UNCHANGED <<vtx, connector, output, rows, seen, link, memory, run>>

\* The owner of the child broadcasts the ark tx that spends the checkpoint output.
BroadcastArkTx(v) ==
    /\ output[v] = "unspent" /\ output' = [output EXCEPT ![v] = "ark"]
    /\ child' = IF link = "up" THEN child \cup {v} ELSE child
    /\ UNCHANGED <<vtx, connector, answer, rows, seen, link, run>>
    /\ UNCHANGED <<listener, input, watching, reaction, task>>

-----------------------------------------------------------------------------
(* The goroutine of a notification.                                        *)

Spawn(n, step) == reaction' = [reaction EXCEPT ![n] = step]

\* It reads the vtxo and starts the reaction if the vtxo is spent.  Unless it is marked
\* unrolled already, ...
ReadVtxo(n) ==
    /\ listener[n] = "sent"
    /\ Fails("race") \/ Vtx(n) \notin accepted \ spent
    /\ \/ /\ listener' = [listener EXCEPT ![n] = IF Vtx(n) \in unrolled THEN "none" ELSE "mark"]
          /\ IF Vtx(n) \in spent THEN Spawn(n, "confirm") ELSE UNCHANGED reaction
       \/ /\ Fails("db")
          /\ listener' = [listener EXCEPT ![n] = "none"] /\ UNCHANGED reaction
    /\ UNCHANGED <<rows, chain, seen, link, run, input, watching, child, task>>

\* Mutant: the vtxo is marked, and its spend is left to the notification of the input.
UnrollVtxosOnly(n) ==
    /\ listener[n] = "mark" /\ listener' = [listener EXCEPT ![n] = "none"]
    /\ \/ unrolled' = unrolled \cup {Vtx(n)}
       \/ Fails("db") /\ UNCHANGED unrolled
    /\ UNCHANGED <<accepted, spent, swept, utxo, chain, seen, link, run>>
    /\ UNCHANGED <<input, watching, reaction, child, task>>

\* ... it then marks it.  The row of the spend of a spent vtxo is inserted in the same DB
\* tx, unless another goroutine has marked the vtxo since it was read.
UnrollVtxos(n) ==
    LET v == Vtx(n) IN
    /\ listener[n] = "mark" /\ listener' = [listener EXCEPT ![n] = "none"]
    /\ \/ /\ unrolled' = unrolled \cup {v}
          /\ utxo' = [utxo EXCEPT ![v] = IF v \in spent \ unrolled THEN "spent" ELSE @]
       \/ Fails("db") /\ UNCHANGED <<unrolled, utxo>>
    /\ UNCHANGED <<accepted, spent, swept, chain, seen, link, run>>
    /\ UNCHANGED <<input, watching, reaction, child, task>>

\* For the spend of a vtxo it reads the rows and goes on only for a vtxo marked unrolled
\* whose spend is not tracked: here one that was marked before its spend was projected, ...
ReadInput(v) ==
    /\ input[v] = "sent"
    /\ \/ input' = [input EXCEPT ![v] =
                       IF v \in unrolled /\ utxo[v] = "none" THEN "add" ELSE "none"]
       \/ Fails("db") /\ input' = [input EXCEPT ![v] = "none"]
    /\ UNCHANGED <<rows, chain, seen, link, run>>
    /\ UNCHANGED <<listener, watching, reaction, child, task>>

\* ... inserts the row and watches the confirmation.
AddUtxos(v) ==
    /\ input[v] = "add" /\ input' = [input EXCEPT ![v] = "none"]
    /\ \/ utxo' = [utxo EXCEPT ![v] = "spent"] /\ watching' = watching \cup {v}
       \/ Fails("db") /\ UNCHANGED <<utxo, watching>>
    /\ UNCHANGED <<accepted, spent, unrolled, swept, chain, seen, link, run>>
    /\ UNCHANGED <<listener, reaction, child, task>>

\* The update changes only a row that is there; its error is only logged.
ConfirmUtxo(v) ==
    \/ utxo' = [utxo EXCEPT ![v] = IF @ = "spent" THEN "confirmed" ELSE @]
    \/ Fails("db") /\ UNCHANGED utxo

watchSpentCosignedUtxos(v) ==
    /\ v \in watching /\ watching' = watching \ {v}
    /\ \/ answer[v] = "mined" /\ ConfirmUtxo(v)
       \/ Fails("wallet") /\ UNCHANGED utxo
    /\ UNCHANGED <<accepted, spent, unrolled, swept, chain, seen, link, run>>
    /\ UNCHANGED <<listener, input, reaction, child, task>>

\* For the child of a checkpoint it removes the task of the checkpoint.
removeTask(v) ==
    /\ v \in child /\ child' = child \ {v}
    /\ task' = [task EXCEPT ![v] = IF @ = "armed" THEN "none" ELSE @]
    /\ UNCHANGED <<rows, chain, seen, link, run>>
    /\ UNCHANGED <<listener, input, watching, reaction>>

-----------------------------------------------------------------------------
(* reactToFraud.                                                           *)

\* A reaction waits for the confirmation of the tx of its vtxo.  The first look is one
\* tick away, when the row is marked.
ConfirmVtx(n) ==
    /\ reaction[n] = "confirm"
    /\ \/ vtx[Vtx(n)] = "mined" /\ listener[n] # "mark" /\ Spawn(n, "lock")
       \/ Fails("wallet") /\ Spawn(n, "none")
    /\ UNCHANGED <<rows, chain, seen, link, run, listener, input, watching, child, task>>

\* Mutant: every reaction locks the outpoint of its vtxo.
KeyByOutpoint(n) == Vtx(n)

\* The key of the mutex: the batch for a settled vtxo, else the outpoint.
Key(n) == IF how[Vtx(n)] = "settled" THEN Root ELSE Vtx(n)

Held == {"checkpoint", "root", "waitRoot", "leaf", "waitLeaf", "forfeit"}

lock(n) ==
    /\ reaction[n] = "lock"
    /\ \A m \in Goroutine : reaction[m] \in Held => Key(m) # Key(n)
    /\ Spawn(n, IF how[Vtx(n)] = "settled" THEN "root" ELSE "checkpoint")
    /\ UNCHANGED <<rows, chain, seen, link, run, listener, input, watching, child, task>>

\* A tx that spends the vtxo enters the mempool, with the notification of its input.
Answered(v) ==
    /\ answer' = [answer EXCEPT ![v] = "mempool"]
    /\ input' = IF link = "up" THEN [input EXCEPT ![v] = "sent"] ELSE input

\* The child that pays the fee needs coins, an address and a signature of the wallet.
bumpAnchorTxFails == Fails("wallet")

\* The checkpoint tx is broadcast with a child that pays its fee; the node refuses it
\* when it is there already.
broadcastCheckpointTx(n) ==
    LET v == Vtx(n) IN
    /\ reaction[n] = "checkpoint"
    /\ \/ /\ answer[v] = "off" /\ Answered(v) /\ Spawn(n, "watch")
          /\ output' = [output EXCEPT ![v] = "unspent"]
       \/ /\ answer[v] # "off" \/ bumpAnchorTxFails \/ Fails("db")
          /\ Spawn(n, "none") /\ UNCHANGED <<answer, output, input>>
    /\ UNCHANGED <<vtx, connector, rows, seen, link, run>>
    /\ UNCHANGED <<listener, watching, child, task>>

\* One tx c of the connector branch, the root after the round is read: it is broadcast
\* unless the wallet knows it.  The node takes a tx with a child that pays its fee only
\* if its parent is mined.
broadcastConnector(n, step, c, parentMined, wait, next) ==
    /\ reaction[n] = step
    /\ \/ connector[c] # "off" /\ Spawn(n, next) /\ UNCHANGED connector
       \/ /\ connector[c] = "off" /\ parentMined
          /\ connector' = [connector EXCEPT ![c] = "mempool"] /\ Spawn(n, wait)
       \/ /\ \/ connector[c] = "off" /\ (~parentMined \/ bumpAnchorTxFails)
             \/ c = Root /\ Fails("db")
          /\ Spawn(n, "none") /\ UNCHANGED connector
    /\ UNCHANGED <<vtx, answer, output, rows, seen, link, run>>
    /\ UNCHANGED <<listener, input, watching, child, task>>

\* After a broadcast the branch waits for the confirmation; an error is only logged.
waitConnector(n, wait, c, next) ==
    /\ reaction[n] = wait
    /\ connector[c] = "mined" \/ Fails("wallet")
    /\ Spawn(n, next)
    /\ UNCHANGED <<rows, chain, seen, link, run, listener, input, watching, child, task>>

broadcastConnectorBranch(n) ==
    \/ broadcastConnector(n, "root", Root, TRUE, "waitRoot", "leaf")
    \/ waitConnector(n, "waitRoot", Root, "leaf")
    \/ broadcastConnector(n, "leaf", Vtx(n), connector[Root] = "mined", "waitLeaf", "forfeit")
    \/ waitConnector(n, "waitLeaf", Vtx(n), "forfeit")

\* The forfeit tx is signed and broadcast; rebuilt once, it is refused again.
broadcastForfeitTx(n) ==
    LET v == Vtx(n)
        takes == answer[v] = "off" /\ connector[v] = "mined"
    IN
    /\ reaction[n] = "forfeit"
    /\ \/ takes /\ Answered(v) /\ Spawn(n, "watch")
       \/ /\ ~takes \/ bumpAnchorTxFails
          /\ Spawn(n, "none") /\ UNCHANGED <<answer, input>>
    /\ UNCHANGED <<vtx, connector, output, rows, seen, link, run>>
    /\ UNCHANGED <<listener, watching, child, task>>

\* The continuation waits for the confirmation of the checkpoint or forfeit tx, confirms
\* the row and, for a checkpoint, goes on to its sweep.
WatchAnswer(n) ==
    LET v == Vtx(n)
        next == IF how[v] = "offchain" THEN "schedule" ELSE "none"
    IN
    /\ reaction[n] = "watch"
    /\ \/ answer[v] = "mined" /\ ConfirmUtxo(v) /\ Spawn(n, next)
       \/ Fails("wallet") /\ UNCHANGED utxo /\ (Spawn(n, next) \/ Spawn(n, "none"))
    /\ UNCHANGED <<accepted, spent, unrolled, swept, chain, seen, link, run>>
    /\ UNCHANGED <<listener, input, watching, child, task>>

-----------------------------------------------------------------------------
(* The sweep of a checkpoint output.                                       *)

\* After a restart the sweeper waits for the confirmation of the checkpoint tx.
AwaitCheckpoint(n) ==
    /\ reaction[n] = "await"
    /\ \/ answer[Vtx(n)] = "mined" /\ Spawn(n, "schedule")
       \/ Fails("wallet") /\ Spawn(n, "none")
    /\ UNCHANGED <<rows, chain, seen, link, run, listener, input, watching, child, task>>

\* scheduleCheckpointSweep asks whether the output is spent ...
GetOutpointStatus(n) ==
    /\ reaction[n] = "schedule"
    /\ \/ Spawn(n, IF output[Vtx(n)] = "unspent" THEN "arm" ELSE "none")
       \/ Fails("wallet") /\ Spawn(n, "none")
    /\ UNCHANGED <<rows, chain, seen, link, run, listener, input, watching, child, task>>

\* ... and schedules the sweep, or runs it when its delay has passed, as it may have
\* done before a restart.
scheduleCheckpointSweep(n) ==
    LET v == Vtx(n) IN
    /\ reaction[n] = "arm" /\ Spawn(n, "none")
    /\ \/ task' = [task EXCEPT ![v] = IF @ = "none" THEN "armed" ELSE @]
       \/ n[2] = "start" /\ task' = [task EXCEPT ![v] = IF @ = "mark" THEN @ ELSE "sweep"]
    /\ UNCHANGED <<rows, chain, seen, link, run, listener, input, watching, child>>

\* The delay passes.
Fire(v) ==
    /\ task[v] = "armed" /\ task' = [task EXCEPT ![v] = "sweep"]
    /\ UNCHANGED <<rows, chain, seen, link, run>>
    /\ UNCHANGED <<listener, input, watching, reaction, child>>

\* Mutant: the error of the broadcast is ignored.
BroadcastSweepIgnoringErrors(v) ==
    /\ task[v] = "sweep" /\ answer[v] = "mined"
    /\ task' = [task EXCEPT ![v] = "mark"]
    /\ output' = [output EXCEPT ![v] = IF @ = "unspent" THEN "sweep" ELSE @]
    /\ UNCHANGED <<vtx, connector, answer, rows, seen, link, run>>
    /\ UNCHANGED <<listener, input, watching, reaction, child>>

\* The sweep tx is broadcast, again and again until the checkpoint tx is mined.
BroadcastSweep(v) ==
    /\ task[v] = "sweep"
    /\ \/ /\ answer[v] = "mined" /\ output[v] = "unspent"
          /\ output' = [output EXCEPT ![v] = "sweep"]
          /\ task' = [task EXCEPT ![v] = "mark"]
       \/ /\ output[v] # "unspent" \/ Fails("wallet")
          /\ task' = [task EXCEPT ![v] = "none"] /\ UNCHANGED output
    /\ UNCHANGED <<vtx, connector, answer, rows, seen, link, run>>
    /\ UNCHANGED <<listener, input, watching, reaction, child>>

\* The vtxos that descend from the checkpoint are marked swept.
SweepVtxoOutpoints(v) ==
    /\ task[v] = "mark" /\ task' = [task EXCEPT ![v] = "none"]
    /\ \/ swept' = swept \cup {v}
       \/ Fails("db") /\ UNCHANGED swept
    /\ UNCHANGED <<accepted, spent, unrolled, utxo, chain, seen, link, run>>
    /\ UNCHANGED <<listener, input, watching, reaction, child>>

-----------------------------------------------------------------------------
(* The stream and the server stop and start.                               *)

Lost(f) == [x \in DOMAIN f |-> IF f[x] = "sent" THEN "none" ELSE f[x]]

\* Mutant: the reactions that wait are cancelled with the stream.
CloseStreamCancels ==
    /\ Fails("outage") /\ breaks < MaxBreak /\ link = "up"
    /\ link' = "cut" /\ breaks' = breaks + 1 /\ UNCHANGED <<faults, how>>
    /\ listener' = Lost(listener) /\ input' = Lost(input)
    /\ reaction' = [n \in Goroutine |-> IF reaction[n] = "confirm" THEN "none" ELSE reaction[n]]
    /\ UNCHANGED <<rows, chain, seen, watching, child, task>>

\* The stream breaks, with the notifications that are on it.
CloseStream ==
    /\ Fails("outage") /\ breaks < MaxBreak /\ link = "up"
    /\ link' = "cut" /\ breaks' = breaks + 1 /\ UNCHANGED <<faults, how>>
    /\ listener' = Lost(listener) /\ input' = Lost(input)
    /\ UNCHANGED <<rows, chain, seen, watching, reaction, child, task>>

\* A new stream; nothing is asked about what happened in between.
Reconnect ==
    /\ link = "cut" /\ link' = "up"
    /\ UNCHANGED <<rows, chain, seen, memory, run>>

\* The server stops; a projection that is lost is the subject of SpendGuard.
Crash ==
    /\ Fails("crash") /\ breaks < MaxBreak /\ link = "up" /\ accepted = spent
    /\ link' = "down" /\ breaks' = breaks + 1 /\ UNCHANGED <<faults, how>>
    /\ listener' = [n \in Notification |-> "none"]
    /\ input' = [v \in Vtxo |-> "none"]
    /\ watching' = {} /\ child' = {}
    /\ reaction' = [n \in Goroutine |-> "none"]
    /\ task' = [v \in Vtxo |-> "none"]
    /\ UNCHANGED <<rows, chain, seen>>

\* Mutant: the rows of vtxos that are still offchain.
SweepableOffchain == {v \in (spent \ unrolled) \ swept : how[v] = "offchain"}

\* The rows that say spent, unrolled and not swept, of vtxos that were not settled.
SweepableUnrolled == {v \in (spent \cap unrolled) \ swept : how[v] = "offchain"}

\* The rows whose spend is not confirmed are watched again.
restoreWatchingCosignedUtxos == watching' = {v \in Vtxo : utxo[v] = "spent"}

\* The server starts: it watches again, and the sweeper takes the checkpoints up.
Start ==
    /\ link = "down" /\ link' = "up"
    /\ restoreWatchingCosignedUtxos
    /\ reaction' = [n \in Goroutine |->
           IF n[2] = "start" /\ Vtx(n) \in SweepableUnrolled THEN "await" ELSE "none"]
    /\ UNCHANGED <<rows, chain, seen, listener, input, child, task, run>>

-----------------------------------------------------------------------------
Goroutines ==
    \/ \E n \in Notification : ReadVtxo(n) \/ UnrollVtxos(n) \/ ConfirmVtx(n)
    \/ \E v \in Vtxo : ReadInput(v) \/ AddUtxos(v) \/ watchSpentCosignedUtxos(v) \/ removeTask(v)
    \/ \E n \in Goroutine :
           \/ lock(n) \/ broadcastCheckpointTx(n) \/ broadcastConnectorBranch(n)
           \/ broadcastForfeitTx(n) \/ WatchAnswer(n)
           \/ AwaitCheckpoint(n) \/ GetOutpointStatus(n) \/ scheduleCheckpointSweep(n)
    \/ \E v \in Vtxo : Fire(v) \/ BroadcastSweep(v) \/ SweepVtxoOutpoints(v)

\* What goes on by itself: the server, the miners, the two connections.
Progress ==
    \/ Goroutines \/ Reconnect \/ Start
    \/ \E v \in Vtxo : Project(v) \/ MineVtx(v) \/ MineAnswer(v)
    \/ \E c \in Vtxo \cup {Root} : MineConnector(c)

Next ==
    \/ Progress
    \/ \E v \in Vtxo : Accept(v) \/ Unroll(v) \/ BroadcastArkTx(v)
    \/ GetAddressNotifications \/ CloseStream \/ Crash

Spec == Init /\ [][Next]_vars

\* Every behaviour is finite: fairness of the whole is fairness of each part.
FairSpec == Spec /\ WF_vars(Progress)

-----------------------------------------------------------------------------
(* Properties.                                                             *)

\* Every variable has its type.
TypeOK ==
    /\ [faults |-> faults, how |-> how] \in Scenario /\ breaks \in 0..MaxBreak
    /\ accepted \subseteq Vtxo /\ spent \subseteq accepted
    /\ unrolled \subseteq Vtxo /\ swept \subseteq Vtxo
    /\ utxo \in [Vtxo -> {"none", "spent", "confirmed"}]
    /\ vtx \in [Vtxo -> TxStatus] /\ answer \in [Vtxo -> TxStatus]
    /\ connector \in [Vtxo \cup {Root} -> TxStatus]
    /\ output \in [Vtxo -> {"none", "unspent", "ark", "sweep"}]
    /\ seen \subseteq Vtxo /\ link \in {"up", "cut", "down"}
    /\ listener \in [Notification -> {"none", "sent", "mark"}]
    /\ input \in [Vtxo -> {"none", "sent", "add"}]
    /\ watching \subseteq Vtxo /\ child \subseteq Vtxo
    /\ reaction \in [Goroutine -> Held \cup
           {"none", "confirm", "lock", "watch", "await", "schedule", "arm"}]
    /\ task \in [Vtxo -> {"none", "armed", "sweep", "mark"}]

\* The descendants of a checkpoint are marked swept only if the server took its output,
\* not when their owner unrolled them first (createCheckpointSweepTask against
\* removeTask), whatever fails.
SweptIsTaken == \A v \in swept : output[v] = "sweep"

\* When nothing fails, a spent vtxo that is unrolled is taken back by its checkpoint or
\* forfeit tx: the reactions of one batch do not spoil each other's connectors
\* (reactToFraud, broadcastConnectorBranch).
TakenBack ==
    \A v \in Vtxo :
        faults = {} /\ v \in spent /\ vtx[v] = "mined" ~> answer[v] # "off"

\* The spend is then recorded with its confirmation: the row inserted with the unrolled mark
\* outlives a restart and a broken stream, after which it is watched again or by the
\* continuation of the reaction; the spend of a vtxo marked before it was spent is tracked
\* when its input is notified, before or after the continuation looks for the row
\* (UnrollVtxos, listenToScannerNotifications, restoreWatchingCosignedUtxos).
SpendTracked ==
    \A v \in Vtxo :
        (faults \subseteq {"crash", "outage"} \/ faults = {"race"}) /\ answer[v] = "mined"
            ~> utxo[v] = "confirmed"

\* The output of a checkpoint tx that is mined does not stay, even if the server stops
\* between the broadcast and the sweep (scheduleCheckpointSweep, sweeper.start).
CheckpointSwept ==
    \A v \in Vtxo :
        faults \subseteq {"crash", "outage"} /\ how[v] = "offchain" /\ answer[v] = "mined"
            ~> output[v] # "unspent"

Reacting(v) == \E n \in Goroutine : Vtx(n) = v /\ reaction[n] = "confirm"

\* A reaction that started goes on when the stream of notifications breaks, and when spends
\* race with unrolls (the context of reactToFraud is not the one of the stream).
ReactionOutlivesStream ==
    \A v \in Vtxo :
        faults \subseteq {"race", "outage"} /\ vtx[v] = "mined" /\ Reacting(v)
            ~> answer[v] # "off"
=============================================================================
