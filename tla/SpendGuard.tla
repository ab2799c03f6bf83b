----------------------------- MODULE SpendGuard -----------------------------
(***************************************************************************)
(* How the server keeps an outpoint from being spent twice.                *)
(*                                                                         *)
(* Three kinds of requests spend outpoints: an offchain tx                 *)
(* (SubmitOffchainTx), an intent that joins a batch (RegisterIntent and    *)
(* the round loop) and an onchain tx the server cosigns (CosignOnchainTx). *)
(* What one of them took is recorded first in the live store (Redis) and   *)
(* only later, by an asynchronous projection of the saved events, in the   *)
(* database (Postgres).  No transaction spans the two, so every request    *)
(* reads both, one read at a time, in an order that has to make up for it. *)
(*                                                                         *)
(* A step is one read or one write of a shared store; acquiring a mutex is *)
(* merged with the first read made under it, releasing it with the last    *)
(* step.                                                                   *)
(***************************************************************************)
EXTENDS Naturals, FiniteSets

CONSTANTS
    Outpoint,    \* the outpoints requests may spend
    Vtxo,        \* those the database tracks as vtxos; the others are boarding utxos
    OffchainTx,  \* ark txids clients submit
    OneShot,     \* those whose checkpoint txs come signed: submitted and finalized at once
    Intent,      \* intents clients register
    OnchainTx,   \* onchain txs clients ask to cosign
    Inputs,      \* the outpoints each of them spends
    NoOne,       \* the holder of a free mutex
    MaxBatch,    \* bound: batches started in a behaviour
    Faults       \* the failures the environment may cause

Batch == 1 .. MaxBatch
Request == OffchainTx \cup Intent \cup OnchainTx
Spender == OffchainTx \cup OnchainTx \cup Batch

\* An error of the event store, an error of a projection, an error of Redis when
\* claims are released, a crash of the server.
Tolerated == {"save", "projection", "release", "crash"}

\* The same at the points where the code cannot cope with them: an error or a
\* crash between the broadcast of a commitment tx and the update of the current
\* round, an error of the event store after the broadcast of a cosigned tx, and
\* the operator deleting all the intents.
NotTolerated == {"unendedBroadcast", "cosignSave", "deleteAll"}

ASSUME SpendersAssumption ==
    /\ OffchainTx \cap Intent = {}
    /\ OffchainTx \cap OnchainTx = {}
    /\ Intent \cap OnchainTx = {}
    /\ Request \cap Batch = {}
    /\ NoOne \notin Request
    /\ MaxBatch \in Nat
    /\ OneShot \subseteq OffchainTx

ASSUME InputsAssumption ==
    /\ Vtxo \subseteq Outpoint
    /\ Inputs \in [Request -> (SUBSET Outpoint) \ {{}}]
    /\ \A t \in OffchainTx : Inputs[t] \subseteq Vtxo

ASSUME FaultsAssumption == Faults \subseteq Tolerated \cup NotTolerated

VARIABLES
    \* live store
    offCache,     \* offchain txs in the cache
    queue,        \* intents waiting for a batch
    claims,       \* outpoints claimed by an intent, queued or taken by a batch
    takenBy,      \* the batch each claimed outpoint was popped for, 0 if none
    reserved,     \* outpoints reserved by a cosign request
    roundId,      \* the current round, 0 before the first one
    roundEnded,   \* the current round is stored as ended: "yes" or "no"
    \* database
    accepted,     \* offchain txs stored as accepted
    spent,        \* vtxos marked spent
    unrolled,     \* vtxos marked unrolled
    utxos,        \* outpoints in the table of the cosigned utxos
    \* server process
    pc,           \* last step of each request
    boards,       \* inputs of an intent that the commitment tx spends onchain
    offchainTxMu, \* holder of offchainTxMu
    cosignMu,     \* holder of cosignMu
    readers,      \* registrations in flight (read side of the registrations lock)
    loop,         \* last step of the round loop
    selected,     \* intents of the batch in progress
    inflight,     \* batches tracked until they are projected
    projected,    \* those of them seen projected
    releasing,    \* batches whose claims are about to be released
    \* projections, one goroutine each
    projecting,   \* saved events not projected yet
    settling,     \* batches with vtxos settled and boarding utxos not yet stored
    handling,     \* projected events whose update handler has not run yet
    \* chain
    chain,        \* outpoints spent by a tx the network accepted
    \* history
    batchInputs,  \* outpoints spent by each broadcast commitment tx
    spentBy       \* spenders the server signed for, per outpoint

redisVars   == <<offCache, queue, claims, takenBy, reserved, roundId, roundEnded>>
dbVars      == <<accepted, spent, unrolled, utxos>>
requestVars == <<pc, boards, offchainTxMu, cosignMu, readers>>
loopVars    == <<loop, selected, inflight, projected, releasing>>
projVars    == <<projecting, settling, handling>>
historyVars == <<chain, batchInputs, spentBy>>
vars == <<redisVars, dbVars, requestVars, loopVars, projVars, historyVars>>

Init ==
    /\ offCache = {} /\ queue = {} /\ claims = {} /\ reserved = {}
    /\ takenBy = [o \in Outpoint |-> 0]
    /\ roundId = 0 /\ roundEnded = "no"
    /\ accepted = {} /\ spent = {} /\ unrolled = {} /\ utxos = {}
    /\ pc = [r \in Request |-> "idle"]
    /\ boards = [i \in Intent |-> {}]
    /\ offchainTxMu = NoOne /\ cosignMu = NoOne
    /\ readers = {}
    /\ loop = "startRound" /\ selected = {}
    /\ inflight = {} /\ projected = {} /\ releasing = {}
    /\ projecting = {} /\ settling = {} /\ handling = {}
    /\ chain = {}
    /\ batchInputs = [b \in Batch |-> {}]
    /\ spentBy = [o \in Outpoint |-> {}]

-----------------------------------------------------------------------------
(* Helpers.                                                                *)

InputsOf(S) == UNION {Inputs[r] : r \in S}
BoardsOf(S) == UNION {boards[i] : i \in S}

Go(r, step) == pc' = [pc EXCEPT ![r] = step]

\* The server gives its signature to s for the outpoints of S.
Sign(s, S) ==
    spentBy' = [o \in Outpoint |-> IF o \in S THEN spentBy[o] \cup {s} ELSE spentBy[o]]

\* Request r returns: the deferred calls release whatever it holds.
Return(r) ==
    /\ Go(r, "idle")
    /\ offchainTxMu' = IF offchainTxMu = r THEN NoOne ELSE offchainTxMu
    /\ cosignMu' = IF cosignMu = r THEN NoOne ELSE cosignMu
    /\ readers' = readers \ {r}
    /\ UNCHANGED boards

\* The answers the stores give about a set of outpoints.
InOffCache(S) == S \cap InputsOf(offCache) # {}
InClaims(S)   == S \cap claims # {}
InReserved(S) == S \cap reserved # {}
InUtxos(S)    == S \cap utxos # {}

-----------------------------------------------------------------------------
(* SubmitOffchainTx: checks without a lock, then again under offchainTxMu. *)

\* The ark tx is not stored yet, its inputs are neither cached nor claimed, and
\* the database knows them unspent and not unrolled.
SubmitOffchainTx(t) ==
    /\ pc[t] = "idle"
    /\ t \notin accepted
    /\ ~InOffCache(Inputs[t])
    /\ ~InClaims(Inputs[t])
    /\ Inputs[t] \cap (spent \cup unrolled) = {}
    /\ Go(t, "validated")
    /\ UNCHANGED <<boards, offchainTxMu, cosignMu, readers>>
    /\ UNCHANGED <<redisVars, dbVars, loopVars, projVars, historyVars>>

\* Mutant: the mutex is not taken.
SubmitReadsCacheUnlocked(t) ==
    /\ pc[t] = "validated"
    /\ \/ /\ ~InOffCache(Inputs[t])
          /\ Go(t, "offCacheRead")
          /\ UNCHANGED <<boards, offchainTxMu, cosignMu, readers>>
       \/ InOffCache(Inputs[t]) /\ Return(t)
    /\ UNCHANGED <<redisVars, dbVars, loopVars, projVars, historyVars>>

\* offchainTxMu, and the first read under it.
SubmitReadsCache(t) ==
    /\ pc[t] = "validated"
    /\ offchainTxMu = NoOne
    /\ \/ /\ ~InOffCache(Inputs[t])
          /\ Go(t, "offCacheRead")
          /\ offchainTxMu' = t
          /\ UNCHANGED <<boards, cosignMu, readers>>
       \/ InOffCache(Inputs[t]) /\ Return(t)
    /\ UNCHANGED <<redisVars, dbVars, loopVars, projVars, historyVars>>

\* Mutant: the error path leaves the mutex locked.
SubmitReadsClaimsKeepsMutex(t) ==
    /\ pc[t] = "offCacheRead"
    /\ Go(t, IF InClaims(Inputs[t]) THEN "idle" ELSE "claimsRead")
    /\ UNCHANGED <<boards, offchainTxMu, cosignMu, readers>>
    /\ UNCHANGED <<redisVars, dbVars, loopVars, projVars, historyVars>>

SubmitReadsClaims(t) ==
    /\ pc[t] = "offCacheRead"
    /\ \/ /\ ~InClaims(Inputs[t])
          /\ Go(t, "claimsRead")
          /\ UNCHANGED <<boards, offchainTxMu, cosignMu, readers>>
       \/ InClaims(Inputs[t]) /\ Return(t)
    /\ UNCHANGED <<redisVars, dbVars, loopVars, projVars, historyVars>>

\* Mutant: the database is not read again under the mutex.
SubmitReadsDbOnce(t) ==
    /\ pc[t] = "claimsRead"
    /\ Go(t, "dbRead")
    /\ UNCHANGED <<boards, offchainTxMu, cosignMu, readers>>
    /\ UNCHANGED <<redisVars, dbVars, loopVars, projVars, historyVars>>

SubmitReadsDb(t) ==
    /\ pc[t] = "claimsRead"
    /\ \/ /\ Inputs[t] \cap (spent \cup unrolled) = {}
          /\ Go(t, "dbRead")
          /\ UNCHANGED <<boards, offchainTxMu, cosignMu, readers>>
       \/ Inputs[t] \cap (spent \cup unrolled) # {} /\ Return(t)
    /\ UNCHANGED <<redisVars, dbVars, loopVars, projVars, historyVars>>

\* The tx enters the cache.  A one-shot tx is saved before the mutex is released;
\* any other one is answered, its events saved by the deferred call that runs
\* once the mutex is released.
SubmitAdds(t) ==
    /\ pc[t] = "dbRead"
    /\ offCache' = offCache \cup {t}
    /\ \/ /\ t \in OneShot
          /\ Go(t, "added")
          /\ UNCHANGED <<offchainTxMu, spentBy>>
       \/ /\ t \notin OneShot
          /\ Go(t, "answered")
          /\ offchainTxMu' = NoOne
          /\ Sign(t, Inputs[t])
    /\ UNCHANGED <<queue, claims, takenBy, reserved, roundId, roundEnded>>
    /\ UNCHANGED <<boards, cosignMu, readers, chain, batchInputs>>
    /\ UNCHANGED <<dbVars, loopVars, projVars>>

SubmitSavesOneShot(t) ==
    /\ pc[t] = "added"
    /\ Return(t)
    /\ \/ /\ projecting' = projecting \cup {t}
          /\ Sign(t, Inputs[t])
          /\ UNCHANGED offCache
       \/ /\ "save" \in Faults
          /\ offCache' = offCache \ {t}
          /\ UNCHANGED <<projecting, spentBy>>
    /\ UNCHANGED <<queue, claims, takenBy, reserved, roundId, roundEnded>>
    /\ UNCHANGED <<settling, handling, chain, batchInputs, dbVars, loopVars>>

\* An error of the deferred save is only logged.
SubmitSaves(t) ==
    /\ pc[t] = "answered"
    /\ Return(t)
    /\ \/ projecting' = projecting \cup {t}
       \/ "save" \in Faults /\ UNCHANGED projecting
    /\ UNCHANGED <<settling, handling, redisVars, dbVars, loopVars, historyVars>>

-----------------------------------------------------------------------------
(* RegisterIntent: from the first read of an input to the push that claims *)
(* it, in the read side of the registrations lock.                         *)

\* A pending writer (the round loop) keeps new readers out.  Intent ids are fresh:
\* an intent is not registered again while it is queued or in a batch.
RegisterIntent(i) ==
    /\ pc[i] = "idle"
    /\ i \notin queue \cup selected
    /\ loop \notin {"waited", "held"}
    /\ ~InOffCache(Inputs[i])
    /\ Inputs[i] \cap spent = {}
    /\ Go(i, "registering")
    /\ readers' = readers \cup {i}
    /\ boards' = [boards EXCEPT ![i] = (Inputs[i] \ Vtxo) \cup (Inputs[i] \cap unrolled)]
    /\ UNCHANGED <<offchainTxMu, cosignMu>>
    /\ UNCHANGED <<redisVars, dbVars, loopVars, projVars, historyVars>>

\* Boarding inputs: cosignMu, and the reservations of the cosign requests.
RegisterReadsReserved(i) ==
    /\ pc[i] = "registering"
    /\ boards[i] # {}
    /\ cosignMu = NoOne
    /\ \/ /\ ~InReserved(boards[i])
          /\ Go(i, "boardingReserved")
          /\ cosignMu' = i
          /\ UNCHANGED <<boards, offchainTxMu, readers>>
       \/ InReserved(boards[i]) /\ Return(i)
    /\ UNCHANGED <<redisVars, dbVars, loopVars, projVars, historyVars>>

RegisterReadsUtxos(i) ==
    /\ pc[i] = "boardingReserved"
    /\ \/ /\ ~InUtxos(boards[i])
          /\ Go(i, "boardingUtxos")
          /\ UNCHANGED <<boards, offchainTxMu, cosignMu, readers>>
       \/ InUtxos(boards[i]) /\ Return(i)
    /\ UNCHANGED <<redisVars, dbVars, loopVars, projVars, historyVars>>

\* offchainTxMu, and the checks of the vtxos once more under it.
RegisterReadsCache(i) ==
    /\ \/ pc[i] = "registering" /\ boards[i] = {}
       \/ pc[i] = "boardingUtxos"
    /\ offchainTxMu = NoOne
    /\ \/ /\ ~InOffCache(Inputs[i] \cap Vtxo)
          /\ Go(i, "offCacheRead")
          /\ offchainTxMu' = i
          /\ UNCHANGED <<boards, cosignMu, readers>>
       \/ InOffCache(Inputs[i] \cap Vtxo) /\ Return(i)
    /\ UNCHANGED <<redisVars, dbVars, loopVars, projVars, historyVars>>

\* Mutant: the spent marks are not read again under the mutex.
RegisterReadsDbOnce(i) ==
    /\ pc[i] = "offCacheRead"
    /\ Go(i, "dbRead")
    /\ UNCHANGED <<boards, offchainTxMu, cosignMu, readers>>
    /\ UNCHANGED <<redisVars, dbVars, loopVars, projVars, historyVars>>

RegisterReadsDb(i) ==
    /\ pc[i] = "offCacheRead"
    /\ \/ /\ Inputs[i] \cap spent = {}
          /\ Go(i, "dbRead")
          /\ UNCHANGED <<boards, offchainTxMu, cosignMu, readers>>
       \/ Inputs[i] \cap spent # {} /\ Return(i)
    /\ UNCHANGED <<redisVars, dbVars, loopVars, projVars, historyVars>>

RegisterReadsReservedVtxos(i) ==
    /\ pc[i] = "dbRead"
    /\ \/ /\ ~InReserved(Inputs[i] \cap Vtxo)
          /\ Go(i, "reservedRead")
          /\ UNCHANGED <<boards, offchainTxMu, cosignMu, readers>>
       \/ InReserved(Inputs[i] \cap Vtxo) /\ Return(i)
    /\ UNCHANGED <<redisVars, dbVars, loopVars, projVars, historyVars>>

RegisterReadsUtxoVtxos(i) ==
    /\ pc[i] = "reservedRead"
    /\ \/ /\ ~InUtxos(Inputs[i] \cap Vtxo)
          /\ Go(i, "utxosRead")
          /\ UNCHANGED <<boards, offchainTxMu, cosignMu, readers>>
       \/ InUtxos(Inputs[i] \cap Vtxo) /\ Return(i)
    /\ UNCHANGED <<redisVars, dbVars, loopVars, projVars, historyVars>>

\* Push refuses an input any other intent claims.
RegisterPushes(i) ==
    /\ pc[i] = "utxosRead"
    /\ Return(i)
    /\ \/ /\ ~InClaims(Inputs[i])
          /\ queue' = queue \cup {i}
          /\ claims' = claims \cup Inputs[i]
          /\ takenBy' = [o \in Outpoint |-> IF o \in Inputs[i] THEN 0 ELSE takenBy[o]]
       \/ InClaims(Inputs[i]) /\ UNCHANGED <<queue, claims, takenBy>>
    /\ UNCHANGED <<offCache, reserved, roundId, roundEnded>>
    /\ UNCHANGED <<dbVars, loopVars, projVars, historyVars>>

\* The owner withdraws a queued intent.  One already popped is left alone.
DeleteIntent(i) ==
    /\ i \in queue
    /\ queue' = queue \ {i}
    /\ claims' = claims \ Inputs[i]
    /\ UNCHANGED <<offCache, takenBy, reserved, roundId, roundEnded>>
    /\ UNCHANGED <<dbVars, requestVars, loopVars, projVars, historyVars>>

\* The operator deletes the intents without naming any.
DeleteAllIntents ==
    /\ "deleteAll" \in Faults
    /\ queue' = {} /\ claims' = {}
    /\ takenBy' = [o \in Outpoint |-> 0]
    /\ UNCHANGED <<offCache, reserved, roundId, roundEnded>>
    /\ UNCHANGED <<dbVars, requestVars, loopVars, projVars, historyVars>>

-----------------------------------------------------------------------------
(* CosignOnchainTx: lockUtxos under cosignMu, then sign, broadcast, save.  *)

\* A failed cosign request gives its reservation back.
CosignFails(x) ==
    /\ Return(x)
    /\ reserved' = reserved \ Inputs[x]

\* cosignMu, and the atomic reservation of the inputs.
CosignReserves(x) ==
    /\ pc[x] = "idle"
    /\ cosignMu = NoOne
    /\ ~InReserved(Inputs[x])
    /\ Go(x, "reserved")
    /\ cosignMu' = x
    /\ reserved' = reserved \cup Inputs[x]
    /\ UNCHANGED <<boards, offchainTxMu, readers>>
    /\ UNCHANGED <<offCache, queue, claims, takenBy, roundId, roundEnded>>
    /\ UNCHANGED <<dbVars, loopVars, projVars, historyVars>>

CosignReadsUtxos(x) ==
    /\ pc[x] = "reserved"
    /\ \/ /\ ~InUtxos(Inputs[x])
          /\ Go(x, "unsigned")
          /\ UNCHANGED <<boards, offchainTxMu, cosignMu, readers, reserved>>
       \/ InUtxos(Inputs[x]) /\ CosignFails(x)
    /\ UNCHANGED <<offCache, queue, claims, takenBy, roundId, roundEnded>>
    /\ UNCHANGED <<dbVars, loopVars, projVars, historyVars>>

\* offchainTxMu, and the first read under it.
CosignReadsCache(x) ==
    /\ pc[x] = "unsigned"
    /\ offchainTxMu = NoOne
    /\ \/ /\ ~InOffCache(Inputs[x])
          /\ Go(x, "offCacheRead")
          /\ offchainTxMu' = x
          /\ UNCHANGED <<boards, cosignMu, readers, reserved>>
       \/ InOffCache(Inputs[x]) /\ CosignFails(x)
    /\ UNCHANGED <<offCache, queue, claims, takenBy, roundId, roundEnded>>
    /\ UNCHANGED <<dbVars, loopVars, projVars, historyVars>>

\* Mutant: the refused request does not give its reservation back.
CosignReadsClaimsKeepsReservation(x) ==
    /\ pc[x] = "offCacheRead"
    /\ \/ /\ ~InClaims(Inputs[x])
          /\ Go(x, "claimsRead")
          /\ UNCHANGED <<boards, offchainTxMu, cosignMu, readers>>
       \/ InClaims(Inputs[x]) /\ Return(x)
    /\ UNCHANGED <<redisVars, dbVars, loopVars, projVars, historyVars>>

CosignReadsClaims(x) ==
    /\ pc[x] = "offCacheRead"
    /\ \/ /\ ~InClaims(Inputs[x])
          /\ Go(x, "claimsRead")
          /\ UNCHANGED <<boards, offchainTxMu, cosignMu, readers, reserved>>
       \/ InClaims(Inputs[x]) /\ CosignFails(x)
    /\ UNCHANGED <<offCache, queue, claims, takenBy, roundId, roundEnded>>
    /\ UNCHANGED <<dbVars, loopVars, projVars, historyVars>>

\* An input tracked as a vtxo must be unrolled and unspent.  Both mutexes are
\* released when lockUtxos returns; the reservation stays.
CosignReadsDb(x) ==
    /\ pc[x] = "claimsRead"
    /\ \/ /\ Inputs[x] \cap Vtxo \subseteq unrolled \ spent
          /\ Go(x, "locked")
          /\ offchainTxMu' = NoOne
          /\ cosignMu' = NoOne
          /\ UNCHANGED <<boards, readers, reserved>>
       \/ ~(Inputs[x] \cap Vtxo \subseteq unrolled \ spent) /\ CosignFails(x)
    /\ UNCHANGED <<offCache, queue, claims, takenBy, roundId, roundEnded>>
    /\ UNCHANGED <<dbVars, loopVars, projVars, historyVars>>

\* The signed tx leaves the server only if the network accepts it.
CosignBroadcasts(x) ==
    /\ pc[x] = "locked"
    /\ \/ /\ Inputs[x] \cap chain = {}
          /\ Go(x, "broadcast")
          /\ Sign(x, Inputs[x])
          /\ chain' = chain \cup Inputs[x]
          /\ UNCHANGED <<boards, offchainTxMu, cosignMu, readers, reserved>>
       \/ CosignFails(x) /\ UNCHANGED <<chain, spentBy>>
    /\ UNCHANGED <<offCache, queue, claims, takenBy, roundId, roundEnded>>
    /\ UNCHANGED <<dbVars, loopVars, projVars, batchInputs>>

CosignSaves(x) ==
    /\ pc[x] = "broadcast"
    /\ \/ /\ projecting' = projecting \cup {x}
          /\ Return(x)
          /\ UNCHANGED reserved
       \/ /\ "cosignSave" \in Faults
          /\ CosignFails(x)
          /\ UNCHANGED projecting
    /\ UNCHANGED <<offCache, queue, claims, takenBy, roundId, roundEnded>>
    /\ UNCHANGED <<settling, handling, dbVars, loopVars, historyVars>>

-----------------------------------------------------------------------------
(* Projections and update handlers.                                        *)

ProjectOffchainTx(t) ==
    /\ t \in projecting
    /\ projecting' = projecting \ {t}
    /\ accepted' = accepted \cup {t}
    /\ spent' = spent \cup Inputs[t]
    /\ handling' = handling \cup {t}
    /\ UNCHANGED <<unrolled, utxos, settling>>
    /\ UNCHANGED <<redisVars, requestVars, loopVars, historyVars>>

\* The rows are inserted: one that is there already makes the projection fail.
ProjectOnchainTx(x) ==
    /\ x \in projecting
    /\ projecting' = projecting \ {x}
    /\ \/ /\ ~InUtxos(Inputs[x])
          /\ utxos' = utxos \cup Inputs[x]
          /\ handling' = handling \cup {x}
       \/ InUtxos(Inputs[x]) /\ UNCHANGED <<utxos, handling>>
    /\ UNCHANGED <<accepted, spent, unrolled, settling>>
    /\ UNCHANGED <<redisVars, requestVars, loopVars, historyVars>>

\* The vtxos a batch spent, in one transaction ...
SettleVtxos(b) ==
    /\ b \in projecting
    /\ projecting' = projecting \ {b}
    /\ spent' = spent \cup (batchInputs[b] \cap Vtxo)
    /\ settling' = settling \cup {b}
    /\ UNCHANGED <<accepted, unrolled, utxos, handling>>
    /\ UNCHANGED <<redisVars, requestVars, loopVars, historyVars>>

\* ... and its boarding utxos in a later one.
AddBoardingUtxos(b) ==
    /\ b \in settling
    /\ settling' = settling \ {b}
    /\ \/ /\ ~InUtxos(batchInputs[b] \ Vtxo)
          /\ utxos' = utxos \cup (batchInputs[b] \ Vtxo)
          /\ handling' = handling \cup {b}
       \/ InUtxos(batchInputs[b] \ Vtxo) /\ UNCHANGED <<utxos, handling>>
    /\ UNCHANGED <<accepted, spent, unrolled, projecting>>
    /\ UNCHANGED <<redisVars, requestVars, loopVars, historyVars>>

\* A failed projection is neither retried nor dispatched to its handler.
ProjectionFails(s) ==
    /\ "projection" \in Faults
    /\ s \in projecting \cup settling
    /\ projecting' = projecting \ {s}
    /\ settling' = settling \ {s}
    /\ UNCHANGED <<handling, redisVars, dbVars, requestVars, loopVars, historyVars>>

\* Mutant: the handler returns before it removes the tx from the cache.
RemoveOffchainTxSkipped(t) ==
    /\ t \in handling
    /\ handling' = handling \ {t}
    /\ UNCHANGED <<projecting, settling, redisVars, dbVars, requestVars, loopVars, historyVars>>

RemoveOffchainTx(t) ==
    /\ t \in handling
    /\ handling' = handling \ {t}
    /\ offCache' = offCache \ {t}
    /\ UNCHANGED <<queue, claims, takenBy, reserved, roundId, roundEnded>>
    /\ UNCHANGED <<projecting, settling, dbVars, requestVars, loopVars, historyVars>>

UnlockUtxos(x) ==
    /\ x \in handling
    /\ handling' = handling \ {x}
    /\ reserved' = reserved \ Inputs[x]
    /\ UNCHANGED <<offCache, queue, claims, takenBy, roundId, roundEnded>>
    /\ UNCHANGED <<projecting, settling, dbVars, requestVars, loopVars, historyVars>>

\* A batch nothing is waiting on is ignored.
MarkProjected(b) ==
    /\ b \in handling
    /\ handling' = handling \ {b}
    /\ projected' = IF b \in inflight THEN projected \cup {b} ELSE projected
    /\ UNCHANGED <<loop, selected, inflight, releasing>>
    /\ UNCHANGED <<projecting, settling, redisVars, dbVars, requestVars, historyVars>>

\* The scanner sees a vtxo onchain.  One already spent offchain is also stored
\* with the cosigned utxos.
UnrollVtxo(o) ==
    /\ o \in Vtxo \ unrolled
    /\ unrolled' = unrolled \cup {o}
    /\ utxos' = IF o \in spent THEN utxos \cup {o} ELSE utxos
    /\ UNCHANGED <<accepted, spent>>
    /\ UNCHANGED <<redisVars, requestVars, loopVars, projVars, historyVars>>

\* The owner of an unrolled vtxo spends it onchain, alone, once the exit path is open.
OwnerExits(o) ==
    /\ o \in unrolled \ chain
    /\ chain' = chain \cup {o}
    /\ UNCHANGED <<batchInputs, spentBy, redisVars, dbVars, requestVars, loopVars, projVars>>

\* The scanner sees an unrolled vtxo spent onchain and does not find it stored.
TrackOnchainSpend(o) ==
    /\ o \in (unrolled \cap chain) \ utxos
    /\ utxos' = utxos \cup {o}
    /\ UNCHANGED <<accepted, spent, unrolled>>
    /\ UNCHANGED <<redisVars, requestVars, loopVars, projVars, historyVars>>

-----------------------------------------------------------------------------
(* The round loop.                                                         *)

\* Mutant: on a timeout the batches still missing their projection are returned too.
WaitForProjectionsReturnsPending ==
    /\ loop = "startRound"
    /\ roundId # 0
    /\ releasing' = inflight
    /\ inflight' = {}
    /\ projected' = {}
    /\ loop' = "waited"
    /\ UNCHANGED <<selected, redisVars, dbVars, requestVars, projVars, historyVars>>

\* startRound forgets the batches seen projected.  It gives up on a timeout, so
\* it may go on with some still missing.  Registrations are held from here on:
\* the pending writer keeps new readers out.
WaitForProjections ==
    /\ loop = "startRound"
    /\ roundId # 0
    /\ releasing' = projected
    /\ inflight' = inflight \ projected
    /\ projected' = {}
    /\ loop' = "waited"
    /\ UNCHANGED <<selected, redisVars, dbVars, requestVars, projVars, historyVars>>

\* The registrations in flight are over.  The claims of a batch that did not end
\* are released too.
HoldRegistrations ==
    /\ loop = "waited"
    /\ readers = {}
    /\ loop' = "held"
    /\ releasing' = IF roundEnded = "no" THEN releasing \cup {roundId} ELSE releasing
    /\ UNCHANGED <<selected, inflight, projected>>
    /\ UNCHANGED <<redisVars, dbVars, requestVars, projVars, historyVars>>

\* Mutant: the claims of every intent are released.
ReleaseClaimsAll(b) ==
    /\ loop = "held"
    /\ b \in releasing
    /\ releasing' = releasing \ {b}
    /\ claims' = {}
    /\ takenBy' = [o \in Outpoint |-> 0]
    /\ UNCHANGED <<offCache, queue, reserved, roundId, roundEnded>>
    /\ UNCHANGED <<loop, selected, inflight, projected>>
    /\ UNCHANGED <<dbVars, requestVars, projVars, historyVars>>

\* DeleteVtxos; an error is only logged.
ReleaseClaims(b) ==
    /\ loop = "held"
    /\ b \in releasing
    /\ releasing' = releasing \ {b}
    /\ \/ /\ claims' = {o \in claims : takenBy[o] # b}
          /\ takenBy' = [o \in Outpoint |-> IF takenBy[o] = b THEN 0 ELSE takenBy[o]]
       \/ "release" \in Faults /\ UNCHANGED <<claims, takenBy>>
    /\ UNCHANGED <<offCache, queue, reserved, roundId, roundEnded>>
    /\ UNCHANGED <<loop, selected, inflight, projected>>
    /\ UNCHANGED <<dbVars, requestVars, projVars, historyVars>>

\* Registrations resume; the trigger lets a new round start or denies it.
StartRegistration ==
    /\ \/ loop = "held" /\ releasing = {}
       \/ loop = "startRound" /\ roundId = 0
    /\ roundId < MaxBatch
    /\ roundId' = roundId + 1
    /\ roundEnded' = "no"
    /\ loop' = "registration"
    /\ UNCHANGED <<offCache, queue, claims, takenBy, reserved>>
    /\ UNCHANGED <<selected, inflight, projected, releasing>>
    /\ UNCHANGED <<dbVars, requestVars, projVars, historyVars>>

DenyRound ==
    /\ loop = "held" /\ releasing = {}
    /\ loop' = "startRound"
    /\ UNCHANGED <<selected, inflight, projected, releasing>>
    /\ UNCHANGED <<redisVars, dbVars, requestVars, projVars, historyVars>>

\* startConfirmation takes intents off the queue; their inputs stay claimed, now
\* for this batch.
PopIntents(S) ==
    /\ loop = "registration"
    /\ S \subseteq queue
    /\ queue' = queue \ S
    /\ takenBy' = [o \in Outpoint |-> IF o \in InputsOf(S) THEN roundId ELSE takenBy[o]]
    /\ selected' = S
    /\ loop' = "confirmation"
    /\ UNCHANGED <<offCache, claims, reserved, roundId, roundEnded>>
    /\ UNCHANGED <<inflight, projected, releasing>>
    /\ UNCHANGED <<dbVars, requestVars, projVars, historyVars>>

\* The intents that were confirmed in time make the batch.
ConfirmIntents(S) ==
    /\ loop = "confirmation"
    /\ S \subseteq selected
    /\ S # {}
    /\ selected' = S
    /\ loop' = "finalization"
    /\ UNCHANGED <<inflight, projected, releasing>>
    /\ UNCHANGED <<redisVars, dbVars, requestVars, projVars, historyVars>>

\* Too few intents, a missing confirmation, nonce, signature or forfeit, an error
\* of a store, the wallet or the signer: the next round starts.
AbandonBatch ==
    /\ loop \in {"registration", "confirmation", "finalization"}
    /\ selected' = {}
    /\ loop' = "startRound"
    /\ UNCHANGED <<inflight, projected, releasing>>
    /\ UNCHANGED <<redisVars, dbVars, requestVars, projVars, historyVars>>

\* finalizeRound signs and broadcasts the commitment tx ...
BroadcastCommitment ==
    /\ loop = "finalization"
    /\ BoardsOf(selected) \cap chain = {}
    /\ chain' = chain \cup BoardsOf(selected)
    /\ Sign(roundId, InputsOf(selected))
    /\ batchInputs' = [batchInputs EXCEPT ![roundId] = InputsOf(selected)]
    /\ selected' = {}
    /\ loop' = "broadcast"
    /\ UNCHANGED <<inflight, projected, releasing>>
    /\ UNCHANGED <<redisVars, dbVars, requestVars, projVars>>

\* ... stores the round as ended; if it cannot, the round fails ...
EndRound ==
    /\ loop = "broadcast"
    /\ \/ roundEnded' = "yes" /\ loop' = "ended"
       \/ /\ "unendedBroadcast" \in Faults
          /\ loop' = "startRound"
          /\ UNCHANGED roundEnded
    /\ UNCHANGED <<offCache, queue, claims, takenBy, reserved, roundId>>
    /\ UNCHANGED <<selected, inflight, projected, releasing>>
    /\ UNCHANGED <<dbVars, requestVars, projVars, historyVars>>

\* Mutant: the batch is not tracked.
TrackBatchSkipped ==
    /\ loop = "ended"
    /\ loop' = "tracked"
    /\ UNCHANGED <<selected, inflight, projected, releasing>>
    /\ UNCHANGED <<redisVars, dbVars, requestVars, projVars, historyVars>>

\* ... tracks it ...
TrackBatch ==
    /\ loop = "ended"
    /\ inflight' = inflight \cup {roundId}
    /\ loop' = "tracked"
    /\ UNCHANGED <<selected, projected, releasing>>
    /\ UNCHANGED <<redisVars, dbVars, requestVars, projVars, historyVars>>

\* ... and saves its events.
SaveBatch ==
    /\ loop = "tracked"
    /\ loop' = "startRound"
    /\ \/ projecting' = projecting \cup {roundId}
       \/ "save" \in Faults /\ UNCHANGED projecting
    /\ UNCHANGED <<selected, inflight, projected, releasing, settling, handling>>
    /\ UNCHANGED <<redisVars, dbVars, requestVars, historyVars>>

\* The process dies and starts again: what it held in memory is gone, the live
\* store, the database and the chain are not.
Crash ==
    /\ "crash" \in Faults
    /\ loop = "broadcast" => "unendedBroadcast" \in Faults
    /\ pc' = [r \in Request |-> "idle"]
    /\ offchainTxMu' = NoOne /\ cosignMu' = NoOne
    /\ readers' = {}
    /\ loop' = "startRound" /\ selected' = {}
    /\ inflight' = {} /\ projected' = {} /\ releasing' = {}
    /\ projecting' = {} /\ settling' = {} /\ handling' = {}
    /\ UNCHANGED <<boards, redisVars, dbVars, historyVars>>

-----------------------------------------------------------------------------
SubmitSteps(t) ==
    \/ SubmitReadsCache(t) \/ SubmitReadsClaims(t) \/ SubmitReadsDb(t)
    \/ SubmitAdds(t) \/ SubmitSavesOneShot(t) \/ SubmitSaves(t)

RegisterSteps(i) ==
    \/ RegisterReadsReserved(i) \/ RegisterReadsUtxos(i) \/ RegisterReadsCache(i)
    \/ RegisterReadsDb(i) \/ RegisterReadsReservedVtxos(i)
    \/ RegisterReadsUtxoVtxos(i) \/ RegisterPushes(i)

CosignSteps(x) ==
    \/ CosignReadsUtxos(x) \/ CosignReadsCache(x) \/ CosignReadsClaims(x)
    \/ CosignReadsDb(x) \/ CosignBroadcasts(x) \/ CosignSaves(x)

ProjectionSteps ==
    \/ \E t \in OffchainTx : ProjectOffchainTx(t) \/ RemoveOffchainTx(t)
    \/ \E x \in OnchainTx : ProjectOnchainTx(x) \/ UnlockUtxos(x)
    \/ \E b \in Batch : SettleVtxos(b) \/ AddBoardingUtxos(b) \/ MarkProjected(b)

LoopSteps ==
    \/ WaitForProjections \/ HoldRegistrations \/ \E b \in Batch : ReleaseClaims(b)
    \/ StartRegistration \/ DenyRound
    \/ \E S \in SUBSET Intent : PopIntents(S) \/ ConfirmIntents(S)
    \/ AbandonBatch \/ BroadcastCommitment \/ EndRound \/ TrackBatch \/ SaveBatch

Next ==
    \/ \E t \in OffchainTx : SubmitOffchainTx(t) \/ SubmitSteps(t)
    \/ \E i \in Intent : RegisterIntent(i) \/ RegisterSteps(i) \/ DeleteIntent(i)
    \/ \E x \in OnchainTx : CosignReserves(x) \/ CosignSteps(x)
    \/ \E o \in Vtxo : UnrollVtxo(o) \/ OwnerExits(o) \/ TrackOnchainSpend(o)
    \/ \E s \in Spender : ProjectionFails(s)
    \/ ProjectionSteps \/ LoopSteps
    \/ DeleteAllIntents \/ Crash

Spec == Init /\ [][Next]_vars

\* A handler that has started goes on until it returns; a waiter for one of Go's
\* mutexes is not starved by later ones; the goroutines of the projections and of
\* the round loop are always scheduled.  Clients owe nothing.
Fairness ==
    /\ \A t \in OffchainTx : WF_vars(SubmitSteps(t)) /\ SF_vars(SubmitReadsCache(t))
    /\ \A i \in Intent :
          /\ WF_vars(RegisterSteps(i))
          /\ SF_vars(RegisterReadsReserved(i)) /\ SF_vars(RegisterReadsCache(i))
    /\ \A x \in OnchainTx : WF_vars(CosignSteps(x)) /\ SF_vars(CosignReadsCache(x))
    /\ \A t \in OffchainTx : WF_vars(ProjectOffchainTx(t)) /\ WF_vars(RemoveOffchainTx(t))
    /\ \A x \in OnchainTx : WF_vars(ProjectOnchainTx(x)) /\ WF_vars(UnlockUtxos(x))
    /\ \A b \in Batch :
          WF_vars(SettleVtxos(b)) /\ WF_vars(AddBoardingUtxos(b)) /\ WF_vars(MarkProjected(b))
    /\ WF_vars(LoopSteps)

FairSpec == Spec /\ Fairness

-----------------------------------------------------------------------------
RequestStep ==
    {"idle", "validated", "registering", "boardingReserved", "boardingUtxos", "reserved",
     "unsigned", "offCacheRead", "claimsRead", "dbRead", "reservedRead", "utxosRead",
     "added", "answered", "locked", "broadcast"}

LoopStep ==
    {"startRound", "waited", "held", "registration", "confirmation", "finalization",
     "broadcast", "ended", "tracked"}

TypeOK ==
    /\ offCache \subseteq OffchainTx
    /\ queue \subseteq Intent
    /\ claims \subseteq Outpoint
    /\ takenBy \in [Outpoint -> 0 .. MaxBatch]
    /\ reserved \subseteq Outpoint
    /\ roundId \in IF loop = "startRound" THEN 0 .. MaxBatch ELSE Batch
    /\ roundEnded \in {"yes", "no"}
    /\ accepted \subseteq OffchainTx
    /\ spent \subseteq Vtxo
    /\ unrolled \subseteq Vtxo
    /\ utxos \subseteq Outpoint
    /\ pc \in [Request -> RequestStep]
    /\ boards \in [Intent -> SUBSET Outpoint]
    /\ offchainTxMu \in Request \cup {NoOne}
    /\ cosignMu \in Request \cup {NoOne}
    /\ readers \subseteq Intent
    /\ loop \in LoopStep
    /\ selected \subseteq Intent
    /\ inflight \subseteq Batch
    /\ projected \subseteq inflight
    /\ releasing \subseteq Batch
    /\ projecting \subseteq Spender
    /\ settling \subseteq Batch
    /\ handling \subseteq Spender
    /\ chain \subseteq Outpoint
    /\ batchInputs \in [Batch -> SUBSET Outpoint]
    /\ spentBy \in [Outpoint -> SUBSET Spender]

\* An outpoint is spent once: the server never commits to two different spenders
\* of it, whatever requests race, whatever is lost.
NoDoubleSpend ==
    \A o \in Outpoint : \A s1, s2 \in spentBy[o] : s1 = s2

\* Two offchain txs never spend the same vtxo, even if the operator deletes the
\* intents and the saves that follow a broadcast fail: what protects a vtxo from a
\* second SubmitOffchainTx depends on none of them.
OffchainSpentOnce ==
    \A o \in Outpoint : \A s1, s2 \in spentBy[o] \cap OffchainTx : s1 = s2

\* What the projection of a batch writes about an input.
Recorded(o) == IF o \in Vtxo THEN o \in spent ELSE o \in utxos

\* There is no moment where a spend is in neither of the two stores a request
\* reads: it leaves the live store only once the database has it.
SpendsVisible ==
    \A o \in Outpoint : \A s \in spentBy[o] :
        \/ s \in OffchainTx /\ (s \in offCache \/ o \in spent)
        \/ s \in Batch /\ (o \in claims \/ Recorded(o))
        \/ s \in OnchainTx /\ (o \in reserved \/ o \in utxos)

\* The server is the ledger: each signature takes outpoints that are free, all the
\* inputs of the spender at once, and none is ever given back.
Ledger == INSTANCE SpendLedger
    WITH Coin <- Outpoint, Payer <- Spender, owner <- spentBy

LedgerSpec == Ledger!Spec

\* Every request returns: the order in which the handlers take the registrations
\* lock, cosignMu and offchainTxMu never makes them wait for each other.
RequestsReturn == \A r \in Request : pc[r] # "idle" ~> pc[r] = "idle"

\* What a batch took is given back, by its failure or by its projection.
ClaimsReleased == \A o \in Outpoint : takenBy[o] # 0 ~> takenBy[o] = 0

\* An offchain tx leaves the cache.
CacheDrains == \A t \in OffchainTx : t \in offCache ~> t \notin offCache

\* The scanner recorded the spend of a vtxo of x before the projection of x: the rows of
\* x are inserted all or none, and none is.
RecordedFirst(x) == Inputs[x] \cap Vtxo \cap utxos # {} /\ ~(Inputs[x] \subseteq utxos)

\* The reservation of a boarding utxo by a cosign request is given back, by the request
\* that fails or once the utxo is in the database, unless the scanner was faster: then
\* unlockUtxos is not reached and the reservation stays.
ReservationsDrain ==
    \A x \in OnchainTx : \A o \in Inputs[x] \ Vtxo :
        o \in reserved ~> o \notin reserved \/ RecordedFirst(x)

-----------------------------------------------------------------------------
(* The inductive invariant behind OffchainSpentOnce.                       *)

\* The steps a request makes under offchainTxMu.
OffLocked == {"offCacheRead", "claimsRead", "dbRead", "added", "reservedRead", "utxosRead"}

MutexHeld == \A r \in Request : pc[r] \in OffLocked => offchainTxMu = r

OffchainSigned ==
    \A o \in Outpoint : \A t \in OffchainTx : t \in spentBy[o] => o \in Inputs[t]

OffchainVisible ==
    \A o \in Outpoint : \A t \in OffchainTx :
        t \in spentBy[o] => t \in offCache \/ o \in spent

OffchainHandled == \A t \in OffchainTx : t \in handling => Inputs[t] \subseteq spent

\* What the holder of offchainTxMu knows of the other offchain txs.
OffchainKnows ==
    \A t \in OffchainTx : \A o \in Inputs[t] : \A u \in OffchainTx :
        /\ pc[t] \in {"offCacheRead", "claimsRead"} /\ u \in spentBy[o] => o \in spent
        /\ pc[t] \in {"dbRead", "added"} => u \notin spentBy[o]

\* A tx stays in the cache until the handler of its projected events has run.
OffchainPending ==
    \A t \in OffchainTx :
        /\ t \in projecting => t \in offCache /\ t \notin handling
        /\ pc[t] \in {"offCacheRead", "claimsRead", "dbRead", "added", "answered"} =>
              t \notin projecting
        /\ pc[t] \in {"dbRead", "added", "answered"} => t \notin handling
        /\ pc[t] \in {"added", "answered"} => t \in offCache

OffchainInv ==
    /\ TypeOK /\ MutexHeld /\ OffchainSigned /\ OffchainVisible /\ OffchainHandled
    /\ OffchainPending /\ OffchainKnows /\ OffchainSpentOnce

-----------------------------------------------------------------------------
(* The inductive invariant behind NoDoubleSpend and SpendsVisible.         *)

ReadersHeld ==
    /\ \A i \in Intent : pc[i] # "idle" => i \in readers
    /\ loop = "held" => readers = {}

\* A batch signs, then ends, and only then is tracked, projected and released.
RoundOrder ==
    /\ loop \in {"registration", "confirmation", "finalization", "broadcast"} => roundEnded = "no"
    /\ loop \in {"ended", "tracked"} => roundEnded = "yes"
    /\ loop \notin {"waited", "held"} => releasing = {}
    /\ loop \notin {"confirmation", "finalization"} => selected = {}
    /\ \A b \in Batch : b \in projecting \cup settling \cup handling \cup inflight =>
          b < roundId \/ (b = roundId /\ roundEnded = "yes")
    /\ \A o \in Outpoint : \A b \in Batch : b \in spentBy[o] =>
          b < roundId \/ (b = roundId /\ (roundEnded = "yes" \/ loop = "broadcast"))

SignedInputs ==
    \A o \in Outpoint : \A s \in spentBy[o] :
        /\ s \in Request => o \in Inputs[s]
        /\ s \in Batch => o \in batchInputs[s]

BatchVisible ==
    \A o \in Outpoint : \A b \in Batch :
        b \in spentBy[o] => Recorded(o) \/ (o \in claims /\ takenBy[o] = b)

\* The handlers run, and claims are released, only for what the database has.
HandledRecorded ==
    /\ \A x \in OnchainTx : x \in handling => Inputs[x] \subseteq utxos
    /\ \A o \in Outpoint : \A b \in Batch : b \in spentBy[o] =>
          /\ b \in settling /\ o \in Vtxo => o \in spent
          /\ b \in handling \cup projected \cup releasing => Recorded(o)

\* What is spent onchain is spent once.
ChainSpends ==
    /\ \A o \in Outpoint \ Vtxo : spentBy[o] # {} => o \in chain
    /\ \A i \in Intent : i \in queue \cup selected \/ pc[i] # "idle" => Inputs[i] \ Vtxo \subseteq boards[i]

\* Queued intents, and the intents of the batch in progress, hold their claims.
QueueClaims ==
    /\ \A i \in queue : \A o \in Inputs[i] :
          /\ o \in claims /\ takenBy[o] = 0
          /\ o \in Vtxo => spentBy[o] = {}
    /\ \A i, j \in queue : i # j => Inputs[i] \cap Inputs[j] = {}
    /\ \A i \in selected : \A o \in Inputs[i] :
          /\ o \in claims /\ takenBy[o] = roundId
          /\ o \in Vtxo => spentBy[o] = {}

\* The reservation of a cosign request is its own until its handler runs.
Unsigned == {"reserved", "unsigned", "offCacheRead", "claimsRead", "locked"}
Reserves(x) == pc[x] \in Unsigned \cup {"broadcast"} \/ x \in projecting \cup handling

ReservationsHeld ==
    /\ \A x \in OnchainTx : Reserves(x) => Inputs[x] \subseteq reserved
    /\ \A x, y \in OnchainTx : Reserves(x) /\ Reserves(y) /\ x # y => Inputs[x] \cap Inputs[y] = {}
    /\ \A x \in OnchainTx : pc[x] \in Unsigned \cup {"broadcast"} => x \notin projecting \cup handling
    /\ \A x \in OnchainTx : x \in projecting => x \notin handling

CosignedVisible ==
    \A o \in Outpoint : \A x \in OnchainTx : x \in spentBy[o] =>
        /\ o \in Vtxo => o \in unrolled
        /\ pc[x] \in Unsigned => o \in utxos
        /\ o \in utxos \/ (o \in reserved /\ \A y \in OnchainTx : Reserves(y) /\ y # x => o \notin Inputs[y])

\* What each request knows after the reads it has made.
SubmitKnows ==
    \A t \in OffchainTx : \A o \in Inputs[t] :
        /\ pc[t] \in {"claimsRead", "dbRead", "added"} => o \notin claims
        /\ pc[t] = "claimsRead" => \A b \in Batch : b \in spentBy[o] => o \in spent
        /\ pc[t] \in {"dbRead", "added"} =>
              /\ spentBy[o] = {}
              /\ \A x \in OnchainTx : o \in Inputs[x] => pc[x] # "locked"

RegisterKnows ==
    \A i \in Intent : \A o \in Inputs[i] \cap Vtxo :
        /\ pc[i] = "offCacheRead" => \A t \in OffchainTx : t \in spentBy[o] => o \in spent
        /\ pc[i] \in {"dbRead", "reservedRead", "utxosRead"} =>
              /\ \A t \in OffchainTx : t \notin spentBy[o]
              /\ \A b \in Batch : b \in spentBy[o] => o \in claims /\ takenBy[o] = b
        /\ pc[i] = "reservedRead" => \A x \in OnchainTx :
              o \in Inputs[x] /\ (pc[x] = "locked" \/ x \in spentBy[o]) => o \in utxos
        /\ pc[i] = "utxosRead" => \A x \in OnchainTx :
              x \notin spentBy[o] /\ (o \in Inputs[x] => pc[x] # "locked")

CosignKnows ==
    \A x \in OnchainTx : \A o \in Inputs[x] \cap Vtxo :
        /\ pc[x] \in {"unsigned", "offCacheRead", "claimsRead", "locked"} =>
              \A y \in OnchainTx : y # x => y \notin spentBy[o]
        /\ pc[x] \in {"offCacheRead", "claimsRead"} =>
              \A t \in OffchainTx : t \in spentBy[o] => o \in spent
        /\ pc[x] \in {"claimsRead", "locked"} => o \notin claims
        /\ pc[x] = "claimsRead" => \A b \in Batch : b \in spentBy[o] => o \in spent
        /\ pc[x] = "locked" =>
              /\ o \in unrolled
              /\ \A s \in OffchainTx \cup Batch : s \notin spentBy[o]

IndInv ==
    /\ OffchainInv /\ ReadersHeld /\ RoundOrder /\ SignedInputs
    /\ BatchVisible /\ HandledRecorded /\ QueueClaims
    /\ ChainSpends /\ ReservationsHeld /\ CosignedVisible
    /\ SubmitKnows /\ RegisterKnows /\ CosignKnows /\ NoDoubleSpend
=============================================================================
