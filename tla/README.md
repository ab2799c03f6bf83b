# Verification of arkd

arkd is the server of the Ark protocol. Clients hold *vtxos*, outputs of txs that are
not on the chain yet, and spend them through the server, which cosigns. This directory
holds TLA+ models of the server, the TLC configurations that check them on small
instances, and proofs checked by TLAPS.

## The system

The server is one process (`internal/core/application`) over three stores.

| store | what it holds | survives a restart |
| --- | --- | --- |
| live store (Redis) | queued intents, the outpoints claimed by intents, offchain txs in flight, reservations of cosign requests, the current round, the sessions of the current batch | yes |
| event store and database (Postgres) | events, and their projections: rounds, vtxos, offchain txs, cosigned utxos, markers | yes |
| memory | mutexes, batches in flight, scheduled tasks, channels | no |

No transaction spans two of them. A change is first visible in the live store; its
events are saved later, and a goroutine per save projects them into the database and
then calls the update handlers. A read of the live store and a read of the database
are two moments, and everything can happen in between.

A vtxo is spent in one of three ways: by an offchain tx (submitted, cosigned,
finalized), by an intent that takes part in a batch (one round of the loop: register,
confirm, sign the tree, forfeit, broadcast), or, once it is unrolled, by an onchain tx
the server cosigns. After a batch expires the sweeper takes its unspent outputs back.
A spent vtxo that its owner unrolls is answered by the checkpoint or forfeit tx the
server kept.

### Parts and modules

| part | source (`internal/...`) | module |
| --- | --- | --- |
| Spend guard | `core/application/service.go`, `onchain_tx.go` | `SpendGuard`, refining `SpendLedger` |
| Batch session manager | `core/application/batch_session_manager.go` | `SpendGuard` |
| Intent queue and claims | `infrastructure/live-store/redis/intents.go` | `SpendGuard` |
| Offchain tx cache | `live-store/redis/offchain_txs.go` | `SpendGuard`; with its lock, `OffchainTxLife` |
| Cosigned utxos | `live-store/redis/utxos.go`, `db/postgres/utxo_repo.go` | `SpendGuard`, `FraudReaction` |
| Event store, projections | `db/service.go`, `watermill/event_repo.go` | `SpendGuard`, `OffchainTxLife`, `BatchSweep` |
| Offchain tx life cycle | `core/domain/offchain_tx.go`, `service.go` | `OffchainTxLife` |
| Round loop | `service.go` 3397-4339 | `BatchSession`; what it does to claims, `SpendGuard` |
| Confirmation session, forfeit txs, boarding signatures | `live-store/redis/` | `BatchSession` |
| Tree signing session | `live-store/redis/tree_signing_session.go`, `service.go` | `TreeSigning` |
| Bans | `core/application/ban.go` | `BatchSession`, `TreeSigning` |
| Sweeper | `core/application/sweeper.go` | `BatchSweep`; checkpoint outputs, `FraudReaction` |
| Fraud reaction | `core/application/fraud.go` | `FraudReaction` |
| Scanner notifications | `service.go` 4341-4539, `pkg/arkd-wallet` | `FraudReaction`, `SpendGuard` |
| Event broker | `interface/grpc/handlers/broker.go`, `indexer.go`, `arkservice.go` | `EventBroker` |

## The modules

Each module is about one mechanism and models the others by their outcome. A step of a
model is one read or one write of a shared store, one send or receive on a channel, or
one call to the wallet; code between two of them is part of the step.

**`SpendGuard`** models how an outpoint is kept from being spent twice.
`offCache`, `queue`, `claims`, `takenBy`, `reserved`, `roundId`, `roundEnded` are keys of
Redis, `accepted`, `spent`, `unrolled`, `utxos` columns of the database, `offchainTxMu`,
`cosignMu`, `readers` the locks of the process. `Submit...`, `Register...` and
`Cosign...` are the reads and writes of `SubmitOffchainTx`, `RegisterIntent` and
`CosignOnchainTx` in the order of the code, first without a lock and then again under
it. `WaitForProjections` to `SaveBatch` are the steps of the round loop that touch claims;
`ProjectOffchainTx` to `MarkProjected` are projections and update handlers. `spentBy` is
history: the spenders the server gave a signature to, for each outpoint. A vtxo's row,
once it exists, is not created again: `AddVtxos` fails on its key (`SpentOutputStays` of
`OffchainTxLife` is about this).

**`SpendLedger`** is what the guard promises: a payer takes coins that are free, all at
once, and for good. `SpendGuard!LedgerSpec` is the refinement, with `spentBy` for the
owner of a coin.

**`OffchainTxLife`** models one offchain tx that several requests submit and finalize
concurrently. The log of events is kept as the aggregate it replays to (`stored`), since
replaying is a fold. `SubmitOffchainTx` and `FinalizeOffchainTx` are split at every read
and write; `proj` holds the projections in flight, one per save, each with the replay it
made of the log. Nothing orders them: each writes the row (`UpsertOffchainTx`, whatever
stage is there), marks the inputs, and creates the outputs, which fails if they exist; only
a projection that succeeds has its update handler called. `finals` counts the `Finalized`
events and `overwritten` tells whether an older stage was written over the row of the
finalized tx; both are history. A behaviour has one set of `faults` of `Environment`: calls
that fail, a lock that expires or is lost, restarts, clients that finalize early, and what
others do to the vtxos (`"unroll"` of an input, `"spend"` of the outputs).

**`BatchSession`** models the rounds: `startRound`, `startConfirmation`,
`startFinalization`, `finalizeRound`, the goroutine that watches the confirmation
session, the handlers of `ConfirmRegistration`, `SubmitForfeitTxs` and
`SignCommitmentTx`, and the check in a goroutine of its own that tells the loop through
a channel of one value that all is signed. The tree is signed or the round fails.

**`TreeSigning`** models that signing: the coordinator in `startFinalization`, the
session in Redis, the watchers that poll it, the requests of the cosigners and the
goroutine that convicts those who are late. A nonce stands for all the nonces of a
cosigner, the aggregated nonce for the vector it is computed from, a partial signature
for the nonce and the aggregate it was made with, so that a signature is valid exactly
when it was made with what the coordinator aggregated. Cosigner keys are distinct.

**`BatchSweep`** models the sweeper on one batch. An output of the tree is named after
the tree tx that would spend it, and is unspent, unrolled (in the mempool or confirmed)
or swept. A task is the steps of `createBatchSweepTask`: find the unspent frontier, read
the vtxos, ask for the status of the outputs, look up what spent them, broadcast, save
the `BatchSwept` event. `Start` is the start-up with `markSweptBatches` and
`ensureSweptVtxos`. Time is the height of the chain, the unit of the block scheduler.

**`FraudReaction`** models what happens when a spent vtxo is unrolled: the wallet's
notifications and the set of txs it notified unconfirmed (`seen`), the stream to the
server (`link`), a goroutine per notification, `reactToFraud` under its keyed mutex, the
branch of the connector tree, the forfeit or checkpoint tx, the row of the spend and its
confirmation, and the sweep of the checkpoint output unless the ark tx comes first. The row
is inserted in the DB tx that marks a spent vtxo unrolled (`UnrollVtxos`); the notification
of its input inserts it only if the vtxo was marked before its spend was projected.
A connector tx is a TRUC tx: a child waits until its parent is mined. A behaviour has
one of the `Scenario`s: what may fail and how each vtxo is spent.

**`EventBroker`** models one listener of the broker. `entry`, `scripts`, `filters`,
`done`, `ch`, `attached` and `timer` are the fields of `listener`; `displaced` holds the
streams whose attachment was closed, `armed` and `fired` the timers that run and those
whose callback waits for the lock. `stream` is where each call of `GetSubscription` or
`GetEventStream` is: `"loop"` before the first select, `"select"` in the second. A
request is the sequence of critical sections it still has to enter (`req`), since
`applyFilter` and `UnsubscribeForScripts` take the lock once for each. `todo` is what each
delivering goroutine has left. `taken`, `late` and `skipped` are history.

The `MC...` modules give the constants for TLC. A definition preceded by a comment that
starts with "Mutant" is a broken form of the one that follows it; no specification uses
it. Each property of a run is violated when one such form takes the place of its definition.

## The runs

| run | instance | what it shows |
| --- | --- | --- |
| `spends` | two offchain txs (one one-shot), two intents over two batches, a cosign request; a vtxo and a boarding utxo; crashes, failed saves, projections and releases | an outpoint is spent once (`NoDoubleSpend`), a spend is visible to every later check (`SpendsVisible`), both from `IndInv`; no two offchain txs share an input (`OffchainSpentOnce`); the guard implements `SpendLedger` (`LedgerSpec`) |
| `live` | one request of each kind and more failures | requests return (no deadlock of the three locks); claims, cached txs and reservations are given back, with one exception (below) |
| `offchain` | two submissions of one tx (one one-shot), two finalizations, five sets of faults | the inputs of an answered tx are seen as spent; a finalization answered with success is in the log and makes the outputs; there is a second one only if an older projection overwrote the row; a spent output stays spent; only a second finalization leaks its lock |
| `offchain_overlap` | as above, no faults | finding 1 |
| `batch_safe` | two forfeiting intents, two rounds, handlers that outlive their round, Redis failures, restarts | a broadcast batch has every forfeit, made for it; only confirmed intents take part; nobody is convicted for a forfeit that was accepted |
| `batch_live` | a forfeiting and a boarding intent, two rounds | the loop is woken by the channel only when all is signed; every round ends, without its timer if all is sent |
| `batch_late` | the same with late handlers | finding 2 |
| `tree` | two cosigners of two intents, two nonces each | what the server accepts never fails the tree; who was in time is not convicted; a complete stage ends before its deadline |
| `sweep` | a root and two leaves, one failing call, one restart | a vtxo is marked swept only if the server took an output above it; a sweep is recorded; what nobody unrolls is swept |
| `sweep_restart` | the same with a batch unrolled in its upper tx | finding 3 |
| `fraud` | two vtxos of one batch, or one vtxo with faults | a spent vtxo is taken back when nothing fails, also two of one batch; a reaction outlives the stream; the spend and its confirmation are recorded and a checkpoint output does not stay, in spite of a restart or an outage; marks are set only for what was taken |
| `broker` | two streams, a request, two batches of events, a channel of one | one stream consumes at a time; a displaced one takes one event at most; no timer removes a subscription from under a stream; no listener leaks; a stream of events keeps the order of a batch and has no silent gap |

The exception in `live`: a cosigned tx may spend an unrolled vtxo next to a boarding utxo.
If the scanner sees it onchain before its projection ran, it takes the spend of the vtxo
for the exit of its owner and inserts the row (`TrackOnchainSpend`). The projection then
finds the row, inserts none and is not dispatched, so that `unlockUtxos` does not run and
the boarding utxo stays reserved. It is spent, so nobody needs the reservation back;
`ReservationsDrain` excludes this case by name (`RecordedFirst`) and no other.

`TypeOK` is a property of the runs of `OffchainTxLife` and `BatchSession`, and a conjunct of
`IndInv` of `SpendGuard`. In the other modules it documents the state; the proofs below use
it or the part they need.

### Bounds

`MaxBatch` and `MaxRound` are 2 (`MaxBatch` is 1 in `live`, where a batch waits for
nothing of another): what one batch can do to another, through claims,
sessions, forfeits and the channel, it does to the next one. Two requests of a kind are
the least that race with each other, and each further store is contended by one request
of another kind; the theorems cover any number where they exist. In `BatchSweep` a root
with two leaves is the least tree in which a part is unrolled and a part is swept;
`Expiry` 1 and `MaxHeight` 2 give a height before, at and after the expiry of each output.
`MaxCrash`, `MaxFail` and `MaxBreak` are 1: the recovery is followed to its end, and a
second failure during it is not looked at. In `EventBroker` two streams are enough for a
stream to be displaced and for a timer to be started, stopped and started again; a channel
of one event is full after one event, the real one holds 100. In `TreeSigning` two
nonces are the least with which a cosigner can change its mind.

Symmetry is used only in `batch_safe`, which checks no liveness. `CHECK_DEADLOCK FALSE` is
set where the bounded inputs run out and nothing is left to do; the runs of `BatchSession`
and `SpendGuard` keep the check.

### Fairness

Clients, owners, the operator and failures owe nothing, except where named below.

* `SpendGuard`: every goroutine that can go on does (weak fairness of the steps of each
  request, of each projection and of the loop). Steps that take a mutex are strongly fair:
  `sync.Mutex` hands the lock to a waiter that waited for a millisecond.
* `OffchainTxLife`, `BatchSweep`, `FraudReaction`, `EventBroker`: behaviours are finite, so
  weak fairness of the server's steps taken together says that the server does not stop
  while a step is possible. In `OffchainTxLife` this is assumed only where nothing fails
  (`Smooth`), which is what its two liveness properties are about. In `BatchSweep` and `FraudReaction` a tx in the
  mempool is mined; in `EventBroker` to send to a client returns, because the client
  reads or its context ends.
* `BatchSession`: the loop goes on (its timers fire) and a handler that started finishes.
* `TreeSigning`: the coordinator goes on and each poller polls. Deadlines may pass at any
  time, which is why `CompleteStageEnds` is about stages that are complete.

## Proofs

The theorems hold for every value of the constants that satisfies the assumptions of the
modules: any number of requests, outpoints, intents, rounds, cosigners and streams, and every
tree. The proofs are in modules of their own that extend the component's.

| theorem | module | states |
| --- | --- | --- |
| `TypeCorrect` | `SpendGuardOffchain` | `[]TypeOK` of `SpendGuard` |
| `OffchainNeverTwice` | `SpendGuardOffchain` | `[]OffchainSpentOnce`, under every fault |
| `SpendsAlwaysOrdered` | `SpendGuardSpends` | `[]IndInv`, if `Faults \subseteq Tolerated` |
| `NeverSpentTwice` | `SpendGuardSpends` | `[]NoDoubleSpend`, if `Faults \subseteq Tolerated` |
| `SpendsAlwaysVisible` | `SpendGuardSpends` | `[]SpendsVisible`, if `Faults \subseteq Tolerated` |
| `ServerIsLedger` | `SpendGuardSpends` | `LedgerSpec`: `SpendGuard` implements `SpendLedger`, if `Faults \subseteq Tolerated` |
| `LifeTyped` | `OffchainTxLifeProofs` | `[]TypeOK` of `OffchainTxLife` |
| `InputsAlwaysCovered` | `OffchainTxLifeProofs` | `[]InputsCovered`, under every fault |
| `FinalizationAlwaysRecorded` | `OffchainTxLifeProofs` | `[]FinalizationRecorded`; the property asks for clients that finalize after the answer to their submission (no `"early"`) and saves that succeed (no `"save"`) |
| `FinalizedAgainOnlyIfOverwritten` | `OffchainTxLifeProofs` | `[]OnceUnlessOverwritten`, with projections that overlap freely; the property asks for a lock that is neither lost nor expires (no `"redis"`, no `"expiry"`) |
| `BatchTyped` | `BatchSessionProofs` | `[]TypeOK` of `BatchSession` |
| `AlwaysConfirmed` | `BatchSessionProofs` | `[]ConfirmedOnly`, if `"session"` is not among the faults |
| `BroadcastAlwaysCovered` | `BatchSessionProofs` | `[]BroadcastCovered`, under every fault |
| `NeverConvictedWhenServed` | `BatchSessionProofs` | `ServedNotConvicted` as a property of steps, under every fault |
| `WokenAlwaysMeansAll` | `BatchSessionProofs` | `[]WokenMeansAll`, if `"late"` is not among the faults |
| `SigningAlways` | `TreeSigningProofs` | `[]SigningInv`, the invariant the next three follow from |
| `NoncesAlwaysAgree` | `TreeSigningProofs` | `[]NonceAgreement`, under every fault |
| `OnlyLateOrRedisFails` | `TreeSigningProofs` | `[]OnlyLateOrRedis`, under every fault |
| `PromptNeverConvicted` | `TreeSigningProofs` | `[]PromptNotConvicted`, under every fault |
| `SweepTyped` | `BatchSweepProofs` | `[]TypeOK` of `BatchSweep` |
| `SweptAlwaysSwept` | `BatchSweepProofs` | `[]SweptIsSwept` for every tree, if `"partial"` is not among the faults |
| `SweptAlwaysTaken` | `FraudReactionProofs` | `[]SweptIsTaken`, under every fault |
| `OnlyFraudIsAnswered` | `FraudReactionProofs` | `[]OnlyFraudAnswered`: the server broadcasts a forfeit or checkpoint tx only against a spent vtxo whose tx is confirmed, and a forfeit only once its connector is |
| `HoldAlways` | `EventBrokerProofs` | `[]HoldInv`, the invariant the next two follow from |
| `AlwaysSoleConsumer` | `EventBrokerProofs` | `[]SoleConsumer` |
| `LateAlwaysTakesOne` | `EventBrokerProofs` | `[]LateTakesOne` |
| `WatchedNeverExpired` | `EventBrokerProofs` | `WatchedNotExpired` as a property of steps |
| `BatchAlwaysInOrder` | `EventBrokerProofs` | `[]BatchInOrder` |

None of these invariants is inductive by itself.

* **Offchain txs.** `OffchainInv` adds to the types: who holds `offchainTxMu` and at which
  step (`MutexHeld`); a signed tx is in the cache or its spend is in the database
  (`OffchainVisible`); a tx leaves the cache only after its handler ran, hence after its
  projection (`OffchainHandled`, `OffchainPending`); and what a request that holds the
  mutex has read so far (`OffchainKnows`). The order "cache first, then database" is what
  makes the last one inductive: an input that was free in the cache and spent afterwards
  can only be found in the database later.
* **All spends.** `IndInv` does the same for every kind of spender: where a spend is visible
  until the database has it (`OffchainVisible`, `BatchVisible`, `CosignedVisible`); what
  leaves the live store is in the database by then (`HandledRecorded`, from the order of
  the round loop, `RoundOrder`, and the read lock, `ReadersHeld`); who owns claims and
  reservations (`QueueClaims`, `ReservationsHeld`); and what each request knows after each
  of its reads (`SubmitKnows`, `RegisterKnows`, `CosignKnows`), so that its last read leaves
  no other spender possible. The refinement follows step by step: a step that signs takes
  coins that `IndInv` says are free, every other step leaves `spentBy` alone.
* **Life of an offchain tx.** `CoveredInv` adds that a projection marks the inputs before
  its handler removes the tx from the cache, that one request at a time is in the section
  of the mutex, and what that request knows of the cache and of the rows. `RecordedInv`
  adds what an answered request put in the log and what a finalizer that found the tx
  already finalized saw there; no later event undoes either.
* **One finalization.** `OnceFacts` is about the moments before and after the first
  `Finalized` event. Before it, finalizations take turns at the lock (`TakeTurns`), and a
  tx that was begun is seen as spent, so that no submission can start it again
  (`BegunCovered`, `SectionStarts`). After it, and as long as no older projection has
  overwritten the row, no request is about to save another one (`NoneDecides`), and whoever
  gets the lock next finds the tx finalized, or not at all (`NextSees`): the handler unlocks
  only when the row was written as finalized and the tx has left the cache (`RowFirst`), and
  neither the row nor a projection is ahead of the log (`BehindLog`). The theorem says that
  the overwritten row of finding 1 is the only way to a second finalization.
* **Batch.** `ConfirmInv` follows the selection from the session to the batch. `CoverInv`
  relates the forfeits the loop collected to the round they were made for. `ServedInv`
  relates the forfeit store to who was answered. `TimelyInv` holds what is true of the loop
  at each step, and what a check knows after each of its reads while its handler runs.
* **Tree.** `SigningInv` adds that a request has checked what it is about to store against
  the aggregate and the nonce that Redis keeps (`CallFacts`, `SigFacts`), that a watcher
  offers only when everything is there (`WatchFacts`), which aggregate goes with which phase
  (`StageFacts`), and that a conviction is for a deadline that somebody missed (`LateFacts`).
* **Sweep.** `SweepInv` says of each step of a task which of the outputs it holds were spent
  and which were swept by then, and that vtxos, events and projections name only leaves
  below a swept output. It needs nothing of the tree but `TreeAssumption`: the path of a node
  is the path of its parent and the node itself, and starts at the root.
* **Fraud.** `SweepInv` of `FraudReactionProofs`: a sweep about to be recorded has taken the
  output, and the output is not created anew, because the checkpoint tx is broadcast once.
  `AnswerInv`: what a reaction found out about its vtxo stays true while it waits.
* **Broker.** `HoldInv` adds where the stream that creates a listener is, that a stream which
  took an event too many is told so in its next select, and that a timer runs only for a
  listener nobody holds. `OrderInv` places every event of a batch: still to send, skipped, in
  the channel behind the earlier ones, or taken. It needs that an event happens once
  (`EventsAssumption`).

**Only model-checked.** `SpentOutputStays`, and all liveness (`RequestsReturn`, `ClaimsReleased`, `CacheDrains`,
`ReservationsDrain`, `OutputsCreated`, `LockReleased`, `RoundsEnd`, `CompleteStageEnds`,
`SweepRecorded`, `ExpiredTaken`, `TakenBack`, `SpendTracked`, `CheckpointSwept`,
`ReactionOutlivesStream`, `Reaped` and `NoSilentLoss`): fairness and `ENABLED` are
outside the prover's reach. `TypeOK` of `TreeSigning` is a conjunct of `SigningInv`; those of
`FraudReaction` and `EventBroker` are neither checked nor proved as a whole, the proofs state the
types they use.

## Findings

1. **`offchain_overlap`.** Every save starts a goroutine that projects what the log held at
   that moment (`event_repo.go:120`), and nothing orders these goroutines. The one of the
   `Accepted` event may write its row (`query.sql:77`) after the one of the `Finalized`
   event, whose handler has removed the tx from the cache and the lock. A second
   `FinalizeOffchainTx` then reads an accepted tx, appends another `Finalized` event and is
   answered with success. Its projection fails in `AddVtxos` on the outputs that exist
   (`db/service.go:859`), so that its handler is not called and its lock stays until it
   expires (the exception in `LockReleased`). `service_test.go:1083` says "Finalizing an
   already finalized tx returns success and ignores the request."
2. **`batch_late`.** A check that a handler of one round started reads the signatures,
   their number and the forfeits one by one while the next round starts, and sends on the
   channel of that round. `finalizeRound` wakes at once and convicts clients that still
   had time (`service.go:4750`, against the condition stated at `service.go:4733`).
3. **`sweep_restart`.** At start-up a batch whose upper tree tx is onchain and whose leaves
   are not is taken for swept, because its output is spent and no vtxo is unrolled
   (`service.go:4893`, against `service.go:4877`).

## Limits of the properties

Some failures break a property, by design or not; the runs of that property leave them
out, and this is what is known about each.

* `NoDoubleSpend` does not hold if a round fails after its broadcast (`"unendedBroadcast"`):
  the next `startRound` releases the claims, with the comment "A batch that did not end
  spent none of its inputs" (`service.go:3445`). `SpendsVisible` does not hold if the save
  of a cosigned tx fails after its broadcast (`"cosignSave"`, `onchain_tx.go:109`) or if the
  operator deletes all intents while a batch waits for its projection (`"deleteAll"`).
  `live` enables all three, and `OffchainNeverTwice` holds with them.
* `FinalizationRecorded` does not hold if a client finalizes before its submission was
  answered (`"early"`): the events may be saved in the wrong order, and the replay ignores
  the `Finalized` one. It does not hold either if the event store refuses a save
  (`"save"`). A lock that expires or is lost (`"expiry"`, `"redis"`) lets a tx be finalized
  twice.
* `ConfirmedOnly` does not hold if Redis fails when the confirmation session is reset
  (`"session"`): confirmations of the old session count in the new one.
* A `startRound` that returns on an error of the cache stops the loop until a restart
  (the model has it as a step; `RoundsEnd` is about rounds that started).
* `TakenBack` is checked without the race of `service.go:4416`: a vtxo read as unspent and
  spent before it is marked unrolled gets no reaction.
* A spent vtxo that enters the mempool while the stream of notifications is down is not
  detected afterwards: the wallet remembers that it notified the tx and strips the outputs
  of the mined notification (`nbxplorer/service.go:871`). `service.go:4518` logs that
  detection "is down until it reconnects".
* Reactions that a crash interrupts are not resumed; only sweeps of checkpoint outputs are.
  A crash between the broadcast of such a sweep and its marks is not repaired.
* A sweep task that fails is not run again before a restart, although `sweeper.go:664`
  speaks of a retry. A round swept in several parts is never `FullySwept`, since `Changes`
  of a loaded round is empty (`round.go:215`); vtxos are marked all the same.
* The `sweep` run assumes that a batch unrolled only in its upper txs has not expired when
  the server restarts (finding 3 is the other case).
* The conviction for a missing boarding signature is not reached: the builder strips the
  leaf script it looks for (`builder.go:1097`) and the wallet refuses to sign instead. The
  convictions of `verifyForfeitTxsSigs` are not reached either, since forfeits are verified
  when they are submitted.
* `UnsubscribeForScripts` reads the tx filters and removes the listener in two critical
  sections. Filters that an `UpdateSubscription` installs in between go with the listener,
  although the comment says that such subscriptions are not silently dropped
  (`indexer.go:753`). The events of a subscription are dropped when its channel is full, by
  design; `NoSilentLoss` is about `GetEventStream`.

## Not modelled

* **Data.** Scripts, amounts, fees, signatures, the shape of trees and the validation of
  requests are outcomes of the steps that compute them: a check passes or fails.
* **Tx builder, Ark library.** Pure functions over txs; their inputs are far beyond the
  small values that TLC enumerates, and nothing in them is concurrent.
* **Vtxo markers.** A computation over the graph of offchain txs inside one projection;
  sweeps mark vtxos one by one and markers only speed up the indexer.
* **Indexer, settings, the batch trigger.** Queries over the database, and values that are
  read when a round starts. A round may start at any time and with any settings.
* **Bans.** Who is convicted, and for what, is modelled; the count by script and the expiry
  of a ban only decide how long requests are refused.
* **gRPC interface.** Parsing, conversion, interceptors and macaroons keep no state that the
  models read; the streams are in `EventBroker`. Its limits on listeners and topics refuse
  a request and change nothing else.
* **Stores other than Redis and Postgres.** The in-memory live store, badger and sqlite
  implement the same interfaces and are not what is deployed.
* **Wallet and signer daemons.** Only notifications, signatures and broadcasts, as
  outcomes. Accounts, keys and coin selection are left out.
* **Client libraries and CLI, generated code.** They are not part of the server; most of the
  lines of the repository are here.
