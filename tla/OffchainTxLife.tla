--------------------------- MODULE OffchainTxLife ---------------------------
(***************************************************************************)
(* The life of one offchain tx: requested, accepted, finalized or failed.  *)
(*                                                                         *)
(* Clients may submit the same tx several times and finalize it several    *)
(* times, concurrently.  Every request appends events to the log of the tx *)
(* and starts a goroutine that replays the log as it was at that moment    *)
(* and writes the outcome to the database: the row of the tx, the spent    *)
(* mark of its inputs, its outputs.  The cache and the finalization lock   *)
(* are in Redis and survive a restart of the server.                       *)
(*                                                                         *)
(* The log is kept as the aggregate it replays to: replaying is a fold, so *)
(* appending events applies the effect of each of them to it.              *)
(***************************************************************************)
EXTENDS Naturals

CONSTANTS
    Submitter,  \* requests to submit the tx
    OneShot,    \* those whose checkpoint txs come signed: submitted and finalized at once
    Finalizer,  \* requests to finalize it
    NoOne,      \* the holder of a free mutex
    Environment \* sets of what may go wrong, or happen besides, together

Request == Submitter \cup Finalizer

ASSUME RequestsAssumption ==
    /\ Submitter \cap Finalizer = {}
    /\ OneShot \subseteq Submitter
    /\ NoOne \notin Request

\* A client finalizes before its submission was answered; the event store refuses
\* to append events, or fails to read them back; a write of a projection fails; a
\* write of Redis fails in an update handler or a cleanup; the lock expires; the server
\* restarts.  Two are no faults: an input is unrolled; the outputs are spent in turn.
Fault ==
    {"early", "save", "dispatch", "projection", "redis", "expiry", "crash", "unroll", "spend"}

ASSUME EnvironmentAssumption == Environment \subseteq SUBSET Fault

VARIABLES
    faults,    \* what may go wrong or happen besides in this behaviour
    \* event store
    stored,    \* the tx the log replays to
    finals,    \* number of Finalized events in the log
    \* database
    row,       \* the row of the tx, Undefined if there is none
    spentIns,  \* the inputs are marked spent
    unrolled,  \* an input is marked unrolled
    created,   \* the outputs are stored as vtxos
    spentOuts, \* the outputs are marked spent
    overwritten, \* history: an older stage was written over the row of the finalized tx
    \* Redis
    cached,    \* the tx in the cache, Undefined if it is not there
    lock,      \* the finalization lock exists
    \* server process
    mutex,     \* holder of offchainTxMu
    pc,        \* last step of each request
    unfit,     \* a submitter found an input spent or unrolled in its first read
    change,    \* events a request saves
    answer,    \* what the client was told
    proj       \* projection started by each request: its next step and its tx

dbVars == <<row, spentIns, created, spentOuts, overwritten>>
redisVars == <<cached, lock>>
requestVars == <<mutex, pc, unfit, change, answer>>
logVars == <<stored, finals>>
vars == <<logVars, dbVars, unrolled, redisVars, requestVars, proj, faults>>

-----------------------------------------------------------------------------
(* The aggregate.                                                          *)

Stage == {"undefined", "requested", "accepted", "finalized"}
Tx == [stage : Stage, failed : BOOLEAN]

Undefined == [stage |-> "undefined", failed |-> FALSE]
Accepted  == [stage |-> "accepted",  failed |-> FALSE]
Finalized == [stage |-> "finalized", failed |-> FALSE]

\* SelectOffchainTx returns the rows of these stages only, failed or not.
Visible(tx) == tx.stage \in {"accepted", "finalized"}

\* The effect of each event.  A failed request can be retried, an accepted tx that
\* failed can still be finalized, a finalized one cannot fail any more.
OnRequested(tx) ==
    IF tx.stage = "undefined" \/ (tx.stage = "requested" /\ tx.failed)
    THEN [stage |-> "requested", failed |-> FALSE] ELSE tx
OnAccepted(tx) ==
    IF tx.stage = "requested" /\ ~tx.failed THEN Accepted ELSE tx
\* Mutant: a failed tx cannot be finalized.
OnFinalizedUnlessFailed(tx) ==
    IF tx.stage = "accepted" /\ ~tx.failed THEN Finalized ELSE tx
OnFinalized(tx) ==
    IF tx.stage = "accepted" THEN Finalized ELSE tx
OnFailed(tx) ==
    IF tx.stage = "finalized" THEN tx ELSE [tx EXCEPT !.failed = TRUE]

\* What a request appends to the log.
Change == {"accept", "oneShot", "reject", "finalize", "fail"}
Replay(c, tx) ==
    CASE c = "accept"   -> OnAccepted(OnRequested(tx))
      [] c = "oneShot"  -> OnFinalized(OnAccepted(OnRequested(tx)))
      [] c = "reject"   -> OnFailed(OnRequested(tx))
      [] c = "finalize" -> OnFinalized(tx)
      [] c = "fail"     -> OnFailed(tx)

Idle == [step |-> "none", tx |-> Undefined]

Init ==
    /\ faults \in Environment
    /\ stored = Undefined /\ finals = 0
    /\ row = Undefined /\ spentIns = FALSE /\ unrolled = FALSE
    /\ created = FALSE /\ spentOuts = FALSE /\ overwritten = FALSE
    /\ cached = Undefined /\ lock = FALSE
    /\ mutex = NoOne
    /\ pc = [r \in Request |-> "idle"]
    /\ unfit = [s \in Submitter |-> FALSE]
    /\ change = [r \in Request |-> "fail"]
    /\ answer = [r \in Request |-> "none"]
    /\ proj = [r \in Request |-> Idle]

Go(r, step) == pc' = [pc EXCEPT ![r] = step]
Tell(r, a) == answer' = [answer EXCEPT ![r] = a]
Free(r) == mutex' = IF mutex = r THEN NoOne ELSE mutex

-----------------------------------------------------------------------------
(* SubmitOffchainTx.                                                       *)

\* A refusal before the Requested event leaves no trace.
Refuse(s) ==
    /\ Go(s, "done") /\ Tell(s, "error")
    /\ UNCHANGED <<mutex, unfit, change>>

SubmitReadsRow(s) ==
    /\ pc[s] = "idle"
    /\ \/ Visible(row) /\ Refuse(s)
       \/ ~Visible(row) /\ Go(s, "rowRead") /\ UNCHANGED <<mutex, unfit, change, answer>>
    /\ UNCHANGED <<logVars, dbVars, unrolled, redisVars, proj>>

SubmitReadsVtxos(s) ==
    /\ pc[s] = "rowRead"
    /\ unfit' = [unfit EXCEPT ![s] = spentIns \/ unrolled]
    /\ Go(s, "vtxosRead")
    /\ UNCHANGED <<logVars, dbVars, unrolled, redisVars, mutex, change, answer, proj>>

SubmitReadsCache(s) ==
    /\ pc[s] = "vtxosRead"
    /\ \/ cached # Undefined /\ Refuse(s)
       \/ cached = Undefined /\ Go(s, "requested") /\ UNCHANGED <<mutex, unfit, change, answer>>
    /\ UNCHANGED <<logVars, dbVars, unrolled, redisVars, proj>>

\* Any error after the Requested event, under the mutex or not: the mutex is
\* released first, then the failure is saved unless the tx is one-shot.
SubmitGivesUp(s) ==
    /\ Free(s) /\ Tell(s, "error")
    /\ \/ s \in OneShot /\ Go(s, "done") /\ UNCHANGED change
       \/ s \notin OneShot /\ Go(s, "saving") /\ change' = [change EXCEPT ![s] = "reject"]
    /\ UNCHANGED <<logVars, dbVars, unrolled, redisVars, unfit, proj>>

\* Validation and the signer accept the tx, or an error of any of the checks.
SubmitSigns(s) ==
    /\ pc[s] = "requested"
    /\ ~unfit[s]
    /\ Go(s, "signed")
    /\ UNCHANGED <<logVars, dbVars, unrolled, redisVars, mutex, unfit, change, answer, proj>>
SubmitFails(s) ==
    /\ pc[s] \in {"requested", "cacheFree", "fresh"}
    /\ SubmitGivesUp(s)

SubmitRereadsCache(s) ==
    /\ pc[s] = "signed"
    /\ mutex = NoOne
    /\ \/ /\ cached = Undefined
          /\ mutex' = s
          /\ Go(s, "cacheFree")
          /\ UNCHANGED <<logVars, dbVars, unrolled, redisVars, unfit, change, answer, proj>>
       \/ /\ cached # Undefined
          /\ SubmitGivesUp(s)

SubmitRereadsVtxos(s) ==
    /\ pc[s] = "cacheFree"
    /\ \/ (spentIns \/ unrolled) /\ SubmitGivesUp(s)
       \/ /\ ~spentIns /\ ~unrolled
          /\ Go(s, "fresh")
          /\ UNCHANGED <<logVars, dbVars, unrolled, redisVars, mutex, unfit, change, answer, proj>>

\* Mutant: the tx is cached before it is accepted.
SubmitAddsRequested(s) ==
    /\ pc[s] = "fresh"
    /\ cached = Undefined
    /\ cached' = [stage |-> "requested", failed |-> FALSE]
    /\ Go(s, "saving")
    /\ change' = [change EXCEPT ![s] = "accept"]
    /\ Free(s)
    /\ Tell(s, "ok")
    /\ UNCHANGED <<logVars, dbVars, unrolled, lock, unfit, proj>>
\* The tx goes to the cache.  A one-shot tx is finalized before, which reads the
\* inputs once more, and is saved with the mutex held; the others are saved by the
\* first deferred call, after the mutex is released by the last one.
SubmitAdds(s) ==
    /\ pc[s] = "fresh"
    /\ cached = Undefined
    /\ s \in OneShot => ~unrolled
    /\ cached' = IF s \in OneShot THEN Finalized ELSE Accepted
    /\ Go(s, "saving")
    /\ change' = [change EXCEPT ![s] = IF s \in OneShot THEN "oneShot" ELSE "accept"]
    /\ mutex' = IF s \in OneShot THEN s ELSE NoOne
    /\ Tell(s, "ok")
    /\ UNCHANGED <<logVars, dbVars, unrolled, lock, unfit, proj>>

-----------------------------------------------------------------------------
(* Save: publish the events, then read the whole log back and start the    *)
(* projection.                                                             *)

Publish(r) ==
    /\ pc[r] = "saving"
    /\ stored' = Replay(change[r], stored)
    /\ finals' = IF change[r] \in {"oneShot", "finalize"} THEN finals + 1 ELSE finals
    /\ Go(r, "published")
    /\ UNCHANGED <<dbVars, unrolled, redisVars, mutex, unfit, change, answer, proj>>

\* The one-shot submission takes the tx back, if Redis lets it, the finalization
\* answers with an error; the other callers only log it.
PublishFails(r) ==
    /\ "save" \in faults
    /\ pc[r] = "saving"
    /\ Go(r, "returning")
    /\ \/ cached' = IF change[r] = "oneShot" THEN Undefined ELSE cached
       \/ "redis" \in faults /\ UNCHANGED cached
    /\ answer' = IF change[r] \in {"oneShot", "finalize"}
                 THEN [answer EXCEPT ![r] = "error"] ELSE answer
    /\ UNCHANGED <<logVars, dbVars, unrolled, lock, mutex, unfit, change, proj>>

\* The projection gets what the whole log replays to, in a goroutine of its own: it may
\* overtake those of earlier saves and be overtaken by those of later ones.
Dispatch(r) ==
    /\ pc[r] = "published"
    /\ proj' = [proj EXCEPT ![r] = [step |-> "row", tx |-> stored]]
    /\ Go(r, "returning")
    /\ UNCHANGED <<logVars, dbVars, unrolled, redisVars, mutex, unfit, change, answer>>

DispatchFails(r) ==
    /\ "dispatch" \in faults
    /\ pc[r] = "published"
    /\ Go(r, "returning")
    /\ UNCHANGED <<logVars, dbVars, unrolled, redisVars, mutex, unfit, change, answer, proj>>

\* Mutant: the lock is removed by every finalization.
ReturnUnlocks(r) ==
    /\ pc[r] = "returning"
    /\ Go(r, "done")
    /\ Free(r)
    /\ lock' = IF r \in Finalizer THEN FALSE ELSE lock
    /\ UNCHANGED <<logVars, dbVars, unrolled, cached, unfit, change, answer, proj>>

\* The deferred calls: a finalization that failed removes the lock, whoever holds it;
\* a one-shot submission releases the mutex.
Return(r) ==
    /\ pc[r] = "returning"
    /\ Go(r, "done")
    /\ Free(r)
    /\ \/ lock' = IF r \in Finalizer /\ answer[r] = "error" THEN FALSE ELSE lock
       \/ "redis" \in faults /\ UNCHANGED lock
    /\ UNCHANGED <<logVars, dbVars, unrolled, cached, unfit, change, answer, proj>>

-----------------------------------------------------------------------------
(* FinalizeOffchainTx.                                                     *)

\* The client has the signed checkpoint txs of an answered submission.
Answered == \E s \in Submitter : pc[s] = "done" /\ answer[s] = "ok"

FinalizeLocks(f) ==
    /\ pc[f] = "idle"
    /\ Answered \/ "early" \in faults
    /\ ~lock
    /\ lock' = TRUE
    /\ Go(f, "locked")
    /\ UNCHANGED <<logVars, dbVars, unrolled, cached, mutex, unfit, change, answer, proj>>

\* The deadline of the request passes while it polls the lock.
FinalizeTimesOut(f) ==
    /\ pc[f] = "idle"
    /\ lock
    /\ Go(f, "done") /\ Tell(f, "error")
    /\ UNCHANGED <<logVars, dbVars, unrolled, redisVars, mutex, unfit, change, proj>>

\* An answer without a change of the log; the lock goes with it.
FinalizeEnds(f, a) ==
    /\ Go(f, "done") /\ Tell(f, a)
    /\ \/ lock' = FALSE
       \/ "redis" \in faults /\ UNCHANGED lock
    /\ UNCHANGED <<logVars, dbVars, unrolled, cached, mutex, unfit, change, proj>>

\* The tx is not finalized yet.
FinalizeGoesOn(f) ==
    /\ Go(f, "checking")
    /\ UNCHANGED <<logVars, dbVars, unrolled, redisVars, mutex, unfit, change, answer, proj>>

\* The read fails, or the checkpoint txs do not match the stored ones: an error.
FinalizeReadsCache(f) ==
    /\ pc[f] = "locked"
    /\ \/ /\ cached = Undefined
          /\ Go(f, "cacheMiss")
          /\ UNCHANGED <<logVars, dbVars, unrolled, redisVars, mutex, unfit, change, answer, proj>>
       \/ cached = Finalized /\ FinalizeEnds(f, "ok")
       \/ FinalizeEnds(f, "error")
       \/ cached \notin {Undefined, Finalized} /\ FinalizeGoesOn(f)

\* Mutant: the answer for a finalized tx leaves the lock behind.
FinalizeReadsRowKeepsLock(f) ==
    /\ pc[f] = "cacheMiss"
    /\ \/ /\ row = Finalized
          /\ Go(f, "done") /\ Tell(f, "ok")
          /\ UNCHANGED <<logVars, dbVars, unrolled, redisVars, mutex, unfit, change, proj>>
       \/ FinalizeEnds(f, "error")
       \/ Visible(row) /\ row # Finalized /\ FinalizeGoesOn(f)
\* No accepted or finalized row, a failed read, or checkpoint txs that do not match:
\* an error.
FinalizeReadsRow(f) ==
    /\ pc[f] = "cacheMiss"
    /\ \/ FinalizeEnds(f, "error")
       \/ row = Finalized /\ FinalizeEnds(f, "ok")
       \/ Visible(row) /\ row # Finalized /\ FinalizeGoesOn(f)

\* finalizeOffchainTx: the signatures are invalid or an input was unrolled, and the
\* failure is saved; or the Finalized event is.
FinalizeDecides(f) ==
    /\ pc[f] = "checking"
    /\ \/ change' = [change EXCEPT ![f] = "fail"] /\ Tell(f, "error")
       \/ ~unrolled /\ change' = [change EXCEPT ![f] = "finalize"] /\ Tell(f, "ok")
    /\ Go(f, "saving")
    /\ UNCHANGED <<logVars, dbVars, unrolled, redisVars, mutex, unfit, proj>>

-----------------------------------------------------------------------------
(* Projection of the events a request saved, then the update handler.      *)

Then(r, step) ==
    proj' = [proj EXCEPT ![r] = IF step = "none" THEN Idle ELSE [proj[r] EXCEPT !.step = step]]

\* The row is overwritten, whatever it says.  A log without a Requested event replays to
\* a tx without txid, whose row is not the one of this tx.
ProjectRow(r) ==
    /\ proj[r].step = "row"
    /\ row' = IF proj[r].tx.stage = "undefined" THEN row ELSE proj[r].tx
    /\ overwritten' = (overwritten \/ (row = Finalized /\ row' # Finalized))
    /\ Then(r, IF proj[r].tx \in {Accepted, Finalized} THEN "spend" ELSE "remove")
    /\ UNCHANGED <<logVars, spentIns, created, spentOuts, unrolled, redisVars, requestVars>>

\* Mutant: the projection returns before it creates the outputs.
ProjectSpendOnly(r) ==
    /\ proj[r].step = "spend"
    /\ spentIns' = TRUE
    /\ Then(r, "remove")
    /\ UNCHANGED <<logVars, row, created, spentOuts, overwritten, unrolled, redisVars, requestVars>>
ProjectSpend(r) ==
    /\ proj[r].step = "spend"
    /\ spentIns' = TRUE
    /\ Then(r, IF proj[r].tx = Finalized THEN "create" ELSE "remove")
    /\ UNCHANGED <<logVars, row, created, spentOuts, overwritten, unrolled, redisVars, requestVars>>

\* Mutant: the insert of the commitment txids does nothing on a conflict, so that the
\* upsert before it stands.
ProjectCreateAgain(r) ==
    /\ proj[r].step = "create"
    /\ created' = TRUE
    /\ spentOuts' = FALSE
    /\ Then(r, "remove")
    /\ UNCHANGED <<logVars, row, spentIns, overwritten, unrolled, redisVars, requestVars>>
\* AddVtxos upserts the outputs, spent mark included, and inserts their commitment txids,
\* in one DB tx.  Where the outputs are stored already the insert fails on its primary key
\* and the upsert is rolled back; the handler is not called.
ProjectCreate(r) ==
    /\ proj[r].step = "create"
    /\ \/ ~created /\ created' = TRUE /\ spentOuts' = FALSE /\ Then(r, "remove")
       \/ created /\ UNCHANGED <<created, spentOuts>> /\ Then(r, "none")
    /\ UNCHANGED <<logVars, row, spentIns, overwritten, unrolled, redisVars, requestVars>>

\* A write fails: the handler is not called.
ProjectionFails(r) ==
    /\ "projection" \in faults
    /\ proj[r].step \in {"row", "spend", "create"}
    /\ Then(r, "none")
    /\ UNCHANGED <<logVars, dbVars, unrolled, redisVars, requestVars>>

\* Mutant: the handler removes failed txs too.
HandlerRemovesAll(r) ==
    /\ proj[r].step = "remove"
    /\ \/ cached' = Undefined
       \/ "redis" \in faults /\ UNCHANGED cached
    /\ Then(r, IF proj[r].tx = Finalized THEN "unlock" ELSE "none")
    /\ UNCHANGED <<logVars, dbVars, unrolled, lock, requestVars>>
HandlerRemoves(r) ==
    /\ proj[r].step = "remove"
    /\ \/ cached' = IF proj[r].tx \in {Accepted, Finalized} THEN Undefined ELSE cached
       \/ "redis" \in faults /\ UNCHANGED cached
    /\ Then(r, IF proj[r].tx = Finalized THEN "unlock" ELSE "none")
    /\ UNCHANGED <<logVars, dbVars, unrolled, lock, requestVars>>

HandlerUnlocks(r) ==
    /\ proj[r].step = "unlock"
    /\ \/ lock' = FALSE
       \/ "redis" \in faults /\ UNCHANGED lock
    /\ Then(r, "none")
    /\ UNCHANGED <<logVars, dbVars, unrolled, cached, requestVars>>

-----------------------------------------------------------------------------
(* The environment.                                                        *)

\* Another offchain tx or a batch spends the outputs and is projected.
SpendOutputs ==
    /\ "spend" \in faults
    /\ created /\ ~spentOuts
    /\ spentOuts' = TRUE
    /\ UNCHANGED <<logVars, row, spentIns, created, overwritten, unrolled, redisVars, requestVars,
                   proj>>

\* The scanner sees an input on the chain.
Unroll ==
    /\ "unroll" \in faults
    /\ ~unrolled
    /\ unrolled' = TRUE
    /\ UNCHANGED <<logVars, dbVars, redisVars, requestVars, proj>>

LockExpires ==
    /\ "expiry" \in faults
    /\ lock
    /\ lock' = FALSE
    /\ UNCHANGED <<logVars, dbVars, unrolled, cached, requestVars, proj>>

\* The requests in flight and the goroutines are gone.
Crash ==
    /\ "crash" \in faults
    /\ mutex' = NoOne
    /\ answer' = [r \in Request |-> IF pc[r] = "done" THEN answer[r] ELSE "none"]
    /\ pc' = [r \in Request |-> IF pc[r] = "idle" THEN "idle" ELSE "done"]
    /\ proj' = [r \in Request |-> Idle]
    /\ UNCHANGED <<logVars, dbVars, unrolled, redisVars, unfit, change>>

-----------------------------------------------------------------------------
SubmitStep(s) ==
    \/ SubmitReadsRow(s) \/ SubmitReadsVtxos(s) \/ SubmitReadsCache(s)
    \/ SubmitSigns(s) \/ SubmitFails(s)
    \/ SubmitRereadsCache(s) \/ SubmitRereadsVtxos(s) \/ SubmitAdds(s)

FinalizeStep(f) ==
    \/ FinalizeLocks(f) \/ FinalizeTimesOut(f)
    \/ FinalizeReadsCache(f) \/ FinalizeReadsRow(f) \/ FinalizeDecides(f)

SaveStep(r) ==
    \/ Publish(r) \/ PublishFails(r) \/ Dispatch(r) \/ DispatchFails(r) \/ Return(r)

ProjectionStep(r) ==
    \/ ProjectRow(r) \/ ProjectSpend(r) \/ ProjectCreate(r) \/ ProjectionFails(r)
    \/ HandlerRemoves(r) \/ HandlerUnlocks(r)

Step ==
    \/ \E s \in Submitter : SubmitStep(s)
    \/ \E f \in Finalizer : FinalizeStep(f)
    \/ \E r \in Request : SaveStep(r) \/ ProjectionStep(r)
    \/ SpendOutputs \/ Unroll \/ LockExpires \/ Crash

Next == Step /\ UNCHANGED faults

Spec == Init /\ [][Next]_vars

\* Something the server has begun goes on: a save, a projection, a finalization that holds
\* the lock.  No client has to call, and no lock has to expire.
Progress ==
    \/ \E r \in Request : SaveStep(r) \/ ProjectionStep(r)
    \/ \E f \in Finalizer : FinalizeReadsCache(f) \/ FinalizeReadsRow(f) \/ FinalizeDecides(f)

\* Nothing fails.
Smooth == faults \subseteq {"unroll", "spend"}

\* Every behaviour is finite, so that fairness of each goroutine follows.
FairSpec == Spec /\ WF_vars(Smooth /\ Progress /\ UNCHANGED faults)

-----------------------------------------------------------------------------
(* Properties.                                                             *)

RequestStep ==
    {"idle", "rowRead", "vtxosRead", "requested", "signed", "cacheFree", "fresh", "saving",
     "published", "returning", "done", "locked", "cacheMiss", "checking"}

ProjectionStage == {"none", "row", "spend", "create", "remove", "unlock"}

\* Every variable has its type (faults never changes).
TypeOK ==
    /\ stored \in Tx /\ finals \in Nat
    /\ row \in Tx /\ spentIns \in BOOLEAN /\ unrolled \in BOOLEAN
    /\ created \in BOOLEAN /\ spentOuts \in BOOLEAN /\ overwritten \in BOOLEAN
    /\ cached \in {Undefined, Accepted, Finalized} /\ lock \in BOOLEAN
    /\ mutex \in Submitter \cup {NoOne}
    /\ pc \in [Request -> RequestStep]
    /\ unfit \in [Submitter -> BOOLEAN]
    /\ change \in [Request -> Change]
    /\ answer \in [Request -> {"none", "ok", "error"}]
    /\ proj \in [Request -> [step : ProjectionStage, tx : Tx]]

\* From the moment a submission was answered with the signature of the server, the
\* inputs are seen as spent in the cache or in the database: SubmitOffchainTx reads
\* both, and the update handler removes the tx from the cache only once its inputs
\* are marked spent, whatever other submissions of the same tx write to the log.
InputsCovered == Answered => cached # Undefined \/ spentIns

\* A client that FinalizeOffchainTx told that the tx is finalized can rely on it: the
\* log replays to a finalized tx, whatever a concurrent submission or a failed
\* finalization appended before or after.  It relies on clients that wait for the answer
\* of their submission and on an event store that accepts events.
Orderly == "early" \notin faults /\ "save" \notin faults
FinalizationRecorded ==
    Orderly => \A f \in Finalizer : pc[f] = "done" /\ answer[f] = "ok" => stored = Finalized

\* Finalizing a finalized tx returns success and appends nothing: the lock and the reads
\* under it let one request finalize the tx.  Projections that overlap break this: the one
\* of the Accepted event may write its row after the one of the Finalized event.
FinalizedOnce == finals <= 1

\* Nothing else breaks it: as long as no older stage is written over the row of the finalized
\* tx, one Finalized event is appended, even if clients finalize early, the server restarts,
\* and saves and projections fail.  It relies on a lock that neither expires nor is lost.
OnceUnlessOverwritten ==
    faults \cap {"redis", "expiry"} = {} /\ ~overwritten => finals <= 1

\* An output marked spent stays so, although a resubmission or a second finalization
\* makes the projection that creates the outputs run again (AddVtxos).
SpentOutputStays == [][spentOuts => spentOuts']_vars

\* Without failures the outputs of a finalized tx eventually exist: an older projection
\* may overwrite the row, never undo the outputs.
OutputsCreated == Smooth /\ stored = Finalized ~> created

\* Without failures no path leaks the finalization lock: the request releases it, or the
\* update handler of the finalized tx does, and no lock has to expire.  The lock of a second
\* finalization is the exception: its projection fails in AddVtxos and has no handler.
LockReleased == Smooth /\ lock ~> ~lock \/ finals > 1

-----------------------------------------------------------------------------
(* The inductive invariants of the proofs.                                 *)

Ok(s) == answer[s] = "ok"

\* A projection marks the inputs spent before its handler removes the tx.
SpentBeforeRemoved ==
    \A r \in Request :
        proj[r].step \in {"create", "remove"} /\ proj[r].tx \in {Accepted, Finalized} => spentIns

\* Submissions in the critical section, up to the save of a one-shot tx.
InSection(s) ==
    \/ pc[s] \in {"cacheFree", "fresh"}
    \/ pc[s] = "saving" /\ change[s] = "oneShot"

SectionExclusive == \A s \in Submitter : InSection(s) => mutex = s

\* What a submission in the critical section knows of the others: a tx answered to
\* another submission is either in the cache, and the first read sees it, or marked
\* spent by then, and the second read sees it.
SectionKnows ==
    \A s, u \in Submitter :
        /\ pc[s] = "cacheFree" /\ Ok(u) => spentIns
        /\ pc[s] = "fresh" => ~Ok(u)
        /\ pc[s] = "saving" /\ change[s] = "oneShot" /\ u # s => ~Ok(u)

FinalizerChanges == \A f \in Finalizer : change[f] \in {"finalize", "fail"}

AnsweredCovered == \A s \in Submitter : Ok(s) => cached # Undefined \/ spentIns

CoveredInv ==
    /\ TypeOK
    /\ SpentBeforeRemoved
    /\ SectionExclusive
    /\ SectionKnows
    /\ FinalizerChanges
    /\ AnsweredCovered

Finalizing(f) ==
    pc[f] \in {"locked", "cacheMiss", "checking", "saving", "published", "returning"}

\* A submission answered with success has put the Accepted event in the log, which
\* no later event undoes.
AnsweredAccepted ==
    \A s \in Submitter : Ok(s) =>
        IF pc[s] = "saving" THEN change[s] \in {"accept", "oneShot"} ELSE Visible(stored)

\* What is seen as finalized in the row, in a replayed log or in the cache is so in
\* the log.  A one-shot tx is in the cache before it is in the log, and no client has
\* an answer then.
SeenFinalized ==
    /\ stored.stage = "finalized" => ~stored.failed
    /\ row = Finalized => stored = Finalized
    /\ \A r \in Request : proj[r].tx = Finalized => stored = Finalized
    /\ cached = Finalized /\ stored # Finalized =>
          \A s \in Submitter : Ok(s) => pc[s] = "saving" /\ change[s] = "oneShot"

FinalizerKnows ==
    \A f \in Finalizer :
        /\ Finalizing(f) => Answered
        /\ answer[f] = "ok" =>
              IF pc[f] = "saving" THEN change[f] = "finalize" ELSE stored = Finalized

RecordedInv == CoveredInv /\ AnsweredAccepted /\ SeenFinalized /\ FinalizerKnows

\* A finalization past its reads: it saves an event, or has saved it.
Deciding(f) == pc[f] \in {"checking", "saving", "published", "returning"}

\* The tx was accepted: its inputs are spent in the cache or in the database, so that no
\* submission starts it again.
Begun == Visible(stored) \/ finals > 0 \/ \E f \in Finalizer : Deciding(f)
BegunCovered == Begun => cached # Undefined \/ spentIns

\* What a submission in the critical section knows of the cache and of the log.
SectionStarts ==
    \A s \in Submitter :
        /\ pc[s] \in {"cacheFree", "fresh"} => cached = Undefined
        /\ pc[s] = "fresh" => ~Begun
        /\ pc[s] = "saving" /\ change[s] = "oneShot" => cached = Finalized /\ ~Begun
        /\ pc[s] = "saving" /\ change[s] = "accept" => Ok(s)
        /\ change[s] # "finalize"

\* The database is behind the log and never ahead of it.
BehindLog ==
    /\ stored.stage = "finalized" => ~stored.failed /\ finals > 0
    /\ Visible(row) => Visible(stored)
    /\ row = Finalized => stored = Finalized
    /\ \A r \in Request :
          /\ Visible(proj[r].tx) => Visible(stored)
          /\ proj[r].tx = Finalized => stored = Finalized

\* The projection of a finalized tx has written the row, and unlocks when the tx has left
\* the cache.
RowFirst ==
    \A r \in Request :
        /\ proj[r].tx = Finalized /\ proj[r].step \in {"spend", "create", "remove", "unlock"}
              => row = Finalized \/ overwritten
        /\ proj[r].step = "unlock" => proj[r].tx = Finalized /\ cached = Undefined

\* Until the Finalized event, finalizations take turns.
TakeTurns ==
    finals = 0 =>
        \A f \in Finalizer : Finalizing(f) => lock /\ \A g \in Finalizer : Finalizing(g) => g = f

\* After it, and while its row stands, no finalization is about to save another one.
NoneDecides ==
    /\ \A f \in Finalizer : pc[f] = "saving" /\ change[f] = "finalize" => answer[f] = "ok"
    /\ finals > 0 /\ ~overwritten =>
          \A f \in Finalizer : Deciding(f) => pc[f] \in {"published", "returning"} /\ answer[f] = "ok"

\* And one that comes later, or has still to read, finds the tx finalized, or does not
\* find it before its finalized row is written.
NextToRead == ~lock \/ \E f \in Finalizer : pc[f] \in {"locked", "cacheMiss"}
NextSees ==
    finals > 0 /\ NextToRead /\ ~overwritten =>
        /\ stored = Finalized
        /\ cached # Accepted
        /\ \/ row = Finalized
           \/ /\ ~Visible(row)
              /\ \A r \in Request :
                    proj[r].step = "row" /\ Visible(proj[r].tx) => proj[r].tx = Finalized

AtMostOne == ~overwritten => finals <= 1

Steady == faults \cap {"redis", "expiry"} = {}
OnceFacts ==
    /\ BegunCovered /\ SectionStarts /\ BehindLog /\ RowFirst
    /\ TakeTurns /\ NoneDecides /\ NextSees /\ AtMostOne
=============================================================================
