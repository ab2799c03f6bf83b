------------------------ MODULE OffchainTxLifeProofs ------------------------
(* Proofs about OffchainTxLife, for any number of submissions and          *)
(* finalizations of the tx.                                                *)
EXTENDS OffchainTxLife, TLAPS

USE SMTT(20), Zenon

\* The values of a tx the update handlers tell apart.
LEMMA TxValues ==
    /\ Undefined \in Tx /\ Accepted \in Tx /\ Finalized \in Tx
    /\ Undefined # Accepted /\ Undefined # Finalized /\ Accepted # Finalized
  BY DEF Undefined, Accepted, Finalized, Tx, Stage

-----------------------------------------------------------------------------
(* Types.                                                                  *)

\* Replaying events gives a tx.
LEMMA ReplayTyped ==
    ASSUME NEW c \in Change, NEW tx \in Tx
    PROVE  Replay(c, tx) \in Tx
  BY Zenon, TxValues DEF Replay, Change, OnRequested, OnAccepted, OnFinalized, OnFailed, Tx, Stage

\* A projection goes from one of its steps to another.
LEMMA ThenTyped ==
    ASSUME TypeOK, NEW r \in Request, NEW step \in ProjectionStage, Then(r, step)
    PROVE  proj' \in [Request -> [step : ProjectionStage, tx : Tx]]
  BY TxValues DEF TypeOK, Then, Idle, ProjectionStage

\* What a step of a request does to its own fields.
LEMMA StepTyped ==
    ASSUME TypeOK, NEW r \in Request
    PROVE  /\ \A step \in RequestStep : Go(r, step) => pc' \in [Request -> RequestStep]
           /\ \A a \in {"ok", "error"} :
                 Tell(r, a) => answer' \in [Request -> {"none", "ok", "error"}]
           /\ \A c \in Change :
                 change' = [change EXCEPT ![r] = c] => change' \in [Request -> Change]
           /\ Free(r) => mutex' \in Submitter \cup {NoOne}
  <1>1. \A step \in RequestStep : Go(r, step) => pc' \in [Request -> RequestStep]
    BY DEF TypeOK, Go
  <1>2. \A a \in {"ok", "error"} : Tell(r, a) => answer' \in [Request -> {"none", "ok", "error"}]
    BY DEF TypeOK, Tell
  <1>3. \A c \in Change : change' = [change EXCEPT ![r] = c] => change' \in [Request -> Change]
    BY DEF TypeOK
  <1>4. Free(r) => mutex' \in Submitter \cup {NoOne}
    BY DEF TypeOK, Free
  <1>. QED BY <1>1, <1>2, <1>3, <1>4

\* The ways out that several steps share keep the types.
LEMMA WaysOutTyped ==
    ASSUME TypeOK
    PROVE  /\ \A s \in Submitter : SubmitGivesUp(s) => TypeOK'
           /\ \A f \in Finalizer : \A a \in {"ok", "error"} : FinalizeEnds(f, a) => TypeOK'
           /\ \A f \in Finalizer : FinalizeGoesOn(f) => TypeOK'
  <1>1. ASSUME NEW s \in Submitter, SubmitGivesUp(s)
        PROVE  TypeOK'
    BY <1>1, StepTyped
    DEF TypeOK, Request, Change, RequestStep, SubmitGivesUp, logVars, dbVars,
        redisVars
  <1>2. ASSUME NEW f \in Finalizer, NEW a \in {"ok", "error"}, FinalizeEnds(f, a)
        PROVE  TypeOK'
    <2>1. lock' \in BOOLEAN
      BY Zenon, <1>2 DEF TypeOK, FinalizeEnds
    <2>2. /\ pc' \in [Request -> RequestStep]
          /\ answer' \in [Request -> {"none", "ok", "error"}]
      BY <1>2, StepTyped DEF Request, RequestStep, FinalizeEnds
    <2>3. UNCHANGED <<logVars, dbVars, unrolled, cached, mutex, unfit, change, proj>>
      BY <1>2 DEF FinalizeEnds
    <2>. QED BY <2>1, <2>2, <2>3 DEF TypeOK, logVars, dbVars
  <1>3. ASSUME NEW f \in Finalizer, FinalizeGoesOn(f)
        PROVE  TypeOK'
    BY <1>3, StepTyped
    DEF TypeOK, Request, RequestStep, FinalizeGoesOn, logVars, dbVars, redisVars
  <1>. QED BY <1>1, <1>2, <1>3

\* A submission keeps the types.
LEMMA SubmitTyped ==
    ASSUME TypeOK,
           NEW s \in Submitter, SubmitStep(s)
    PROVE  TypeOK'
  <1>1. CASE SubmitReadsRow(s)
    BY <1>1, StepTyped
    DEF TypeOK, Request, RequestStep, SubmitReadsRow, Refuse, Visible, logVars,
        dbVars, redisVars
  <1>2. CASE SubmitReadsVtxos(s)
    BY <1>2, StepTyped
    DEF TypeOK, Request, RequestStep, SubmitReadsVtxos, logVars, dbVars, redisVars
  <1>3. CASE SubmitReadsCache(s)
    BY <1>3, StepTyped
    DEF TypeOK, Request, RequestStep, SubmitReadsCache, Refuse, logVars, dbVars,
        redisVars
  <1>4. CASE SubmitSigns(s)
    BY <1>4, StepTyped
    DEF TypeOK, Request, RequestStep, SubmitSigns, logVars, dbVars, redisVars
  <1>5. CASE SubmitFails(s)
    BY <1>5, StepTyped, WaysOutTyped
    DEF TypeOK, Request, RequestStep, SubmitFails, logVars, dbVars, redisVars
  <1>6. CASE SubmitRereadsCache(s)
    BY <1>6, StepTyped, WaysOutTyped
    DEF TypeOK, Request, RequestStep, SubmitRereadsCache, logVars, dbVars,
        redisVars
  <1>7. CASE SubmitRereadsVtxos(s)
    BY <1>7, StepTyped, WaysOutTyped
    DEF TypeOK, Request, RequestStep, SubmitRereadsVtxos, logVars, dbVars,
        redisVars
  <1>8. CASE SubmitAdds(s)
    BY Zenon, <1>8, StepTyped
    DEF TypeOK, Request, RequestStep, Change, SubmitAdds, logVars, dbVars
  <1>. QED BY <1>1, <1>2, <1>3, <1>4, <1>5, <1>6, <1>7, <1>8 DEF SubmitStep

\* A finalization keeps the types.
LEMMA FinalizeTyped ==
    ASSUME TypeOK,
           NEW f \in Finalizer, FinalizeStep(f)
    PROVE  TypeOK'
  <1>1. CASE FinalizeLocks(f)
    BY <1>1, StepTyped
    DEF TypeOK, Request, RequestStep, FinalizeLocks, logVars, dbVars
  <1>2. CASE FinalizeTimesOut(f)
    BY <1>2, StepTyped
    DEF TypeOK, Request, RequestStep, FinalizeTimesOut, logVars, dbVars,
        redisVars
  <1>3. CASE FinalizeReadsCache(f)
    BY <1>3, StepTyped, WaysOutTyped
    DEF TypeOK, Request, RequestStep, FinalizeReadsCache, logVars, dbVars,
        redisVars
  <1>4. CASE FinalizeReadsRow(f)
    BY <1>4, StepTyped, WaysOutTyped
    DEF TypeOK, Request, RequestStep, FinalizeReadsRow, Visible, logVars, dbVars,
        redisVars
  <1>5. CASE FinalizeDecides(f)
    BY <1>5, StepTyped
    DEF TypeOK, Request, RequestStep, Change, FinalizeDecides, logVars, dbVars,
        redisVars
  <1>. QED BY <1>1, <1>2, <1>3, <1>4, <1>5 DEF FinalizeStep

\* The save of events and the return keeps the types.
LEMMA SaveTyped ==
    ASSUME TypeOK,
           NEW r \in Request, SaveStep(r)
    PROVE  TypeOK'
  <1>1. CASE Publish(r)
    BY <1>1, StepTyped, ReplayTyped
    DEF TypeOK, Request, RequestStep, Publish, dbVars, redisVars
  <1>2. CASE PublishFails(r)
    BY <1>2, StepTyped
    DEF TypeOK, Request, RequestStep, PublishFails, logVars, dbVars
  <1>3. CASE Dispatch(r)
    BY <1>3, StepTyped
    DEF TypeOK, Request, RequestStep, ProjectionStage, Dispatch, logVars, dbVars,
        redisVars
  <1>4. CASE DispatchFails(r)
    BY <1>4, StepTyped
    DEF TypeOK, Request, RequestStep, DispatchFails, logVars, dbVars, redisVars
  <1>5. CASE Return(r)
    <2>1. lock' \in BOOLEAN
      BY Zenon, <1>5 DEF TypeOK, Return
    <2>2. pc' \in [Request -> RequestStep] /\ mutex' \in Submitter \cup {NoOne}
      BY <1>5, StepTyped DEF RequestStep, Return
    <2>3. UNCHANGED <<logVars, dbVars, unrolled, cached, unfit, change, answer, proj>>
      BY <1>5 DEF Return
    <2>. QED BY <2>1, <2>2, <2>3 DEF TypeOK, logVars, dbVars
  <1>. QED BY <1>1, <1>2, <1>3, <1>4, <1>5 DEF SaveStep

\* A projection and its handler keeps the types.
LEMMA ProjectionTyped ==
    ASSUME TypeOK,
           NEW r \in Request, ProjectionStep(r)
    PROVE  TypeOK'
  <1>1. CASE ProjectRow(r)
    BY <1>1, RequestsAssumption, ThenTyped
    DEF TypeOK, ProjectionStage, ProjectRow, logVars, redisVars, requestVars
  <1>2. CASE ProjectSpend(r)
    BY <1>2, RequestsAssumption, ThenTyped
    DEF TypeOK, ProjectionStage, ProjectSpend, logVars, redisVars, requestVars
  <1>3. CASE ProjectCreate(r)
    BY Zenon, <1>3, RequestsAssumption, ThenTyped
    DEF TypeOK, ProjectionStage, ProjectCreate, logVars, redisVars, requestVars
  <1>4. CASE ProjectionFails(r)
    BY <1>4, RequestsAssumption, ThenTyped
    DEF TypeOK, ProjectionStage, ProjectionFails, logVars, dbVars, redisVars, requestVars
  <1>5. CASE HandlerRemoves(r)
    BY <1>5, RequestsAssumption, ThenTyped
    DEF TypeOK, ProjectionStage, HandlerRemoves, logVars, dbVars, requestVars
  <1>6. CASE HandlerUnlocks(r)
    BY Zenon, <1>6, RequestsAssumption, ThenTyped
    DEF TypeOK, ProjectionStage, HandlerUnlocks, logVars, dbVars, requestVars
  <1>. QED BY <1>1, <1>2, <1>3, <1>4, <1>5, <1>6 DEF ProjectionStep

\* The rest of the steps keeps the types.
LEMMA EnvironmentTyped ==
    ASSUME TypeOK, SpendOutputs \/ Unroll \/ LockExpires \/ Crash
    PROVE  TypeOK'
  <1>1. CASE SpendOutputs
    BY <1>1
    DEF TypeOK, SpendOutputs, logVars, redisVars, requestVars
  <1>2. CASE Unroll
    BY <1>2
    DEF TypeOK, Unroll, logVars, dbVars, redisVars, requestVars
  <1>3. CASE LockExpires
    BY Zenon, <1>3
    DEF TypeOK, LockExpires, logVars, dbVars, requestVars
  <1>4. CASE Crash
    BY <1>4, TxValues, RequestsAssumption
    DEF TypeOK, Request, RequestStep, ProjectionStage, Crash, logVars, dbVars, redisVars,
        Idle
  <1>. QED BY <1>1, <1>2, <1>3, <1>4

\* Every step keeps the types.
LEMMA TypeStep ==
    ASSUME TypeOK, [Next]_vars
    PROVE  TypeOK'
  <1>1. ASSUME NEW s \in Submitter, SubmitStep(s)
        PROVE  TypeOK'
    BY <1>1, SubmitTyped
  <1>2. ASSUME NEW f \in Finalizer, FinalizeStep(f)
        PROVE  TypeOK'
    BY <1>2, FinalizeTyped
  <1>3. ASSUME NEW r \in Request, SaveStep(r)
        PROVE  TypeOK'
    BY <1>3, SaveTyped
  <1>4. ASSUME NEW r \in Request, ProjectionStep(r)
        PROVE  TypeOK'
    BY <1>4, ProjectionTyped
  <1>5. CASE SpendOutputs \/ Unroll \/ LockExpires \/ Crash
    BY <1>5, EnvironmentTyped
  <1>6. CASE UNCHANGED vars
    BY <1>6
    DEF TypeOK, vars, logVars, dbVars, redisVars, requestVars
  <1>. QED BY <1>1, <1>2, <1>3, <1>4, <1>5, <1>6 DEF Next, Step

\* The initial state is typed.
LEMMA TypeInit ==
    ASSUME Init
    PROVE  TypeOK
  <1>1. Idle \in [step : ProjectionStage, tx : Tx]
    BY TxValues DEF Idle, ProjectionStage
  <1>2. proj \in [Request -> [step : ProjectionStage, tx : Tx]]
    BY <1>1 DEF Init
  <1>3. /\ pc \in [Request -> RequestStep]
        /\ unfit \in [Submitter -> BOOLEAN]
        /\ change \in [Request -> Change]
        /\ answer \in [Request -> {"none", "ok", "error"}]
    BY DEF Init, RequestStep, Change
  <1>. QED BY Zenon, <1>2, <1>3, TxValues DEF Init, TypeOK

\* The variables have their types in every reachable state, for any number of
\* requests and under all the faults.
THEOREM LifeTyped == Spec => []TypeOK
  <1>1. Init => TypeOK
    BY TypeInit
  <1>2. TypeOK /\ [Next]_vars => TypeOK'
    BY TypeStep
  <1>. QED BY <1>1, <1>2, PTL DEF Spec

-----------------------------------------------------------------------------
(* The inputs of an answered tx are seen as spent.                         *)

\* Most leaves below are first-order: Zenon is tried before SMT.
USE Zenon, SMTT(20)

\* The types the proofs below use.
LEMMA Types ==
    ASSUME TypeOK
    PROVE  /\ pc \in [Request -> RequestStep]
           /\ change \in [Request -> Change]
           /\ answer \in [Request -> {"none", "ok", "error"}]
           /\ proj \in [Request -> [step : ProjectionStage, tx : Tx]]
  BY DEF TypeOK

\* The other requests stay where they are.
Others(r) ==
    \A q \in Request \ {r} : pc'[q] = pc[q] /\ change'[q] = change[q] /\ answer'[q] = answer[q]

\* What a step of a request or of a projection changes, field by field.
LEMMA StepMoves ==
    ASSUME TypeOK, NEW r \in Request
    PROVE  /\ \A x : Go(r, x) => pc'[r] = x /\ \A q \in Request \ {r} : pc'[q] = pc[q]
           /\ \A a : Tell(r, a) => /\ answer'[r] = a
                                   /\ \A q \in Request \ {r} : answer'[q] = answer[q]
           /\ \A c : change' = [change EXCEPT ![r] = c]
                        => change'[r] = c /\ \A q \in Request \ {r} : change'[q] = change[q]
           /\ \A x : Then(r, x) =>
                 /\ \A q \in Request \ {r} : proj'[q] = proj[q]
                 /\ x = "none" => proj'[r] = Idle
                 /\ x # "none" => proj'[r].step = x /\ proj'[r].tx = proj[r].tx
  <1>1. \A x : Go(r, x) => pc'[r] = x /\ \A q \in Request \ {r} : pc'[q] = pc[q]
    BY Types DEF Go
  <1>2. \A a : Tell(r, a) => answer'[r] = a /\ \A q \in Request \ {r} : answer'[q] = answer[q]
    BY Types DEF Tell
  <1>3. \A c : change' = [change EXCEPT ![r] = c]
                  => change'[r] = c /\ \A q \in Request \ {r} : change'[q] = change[q]
    BY Types
  <1>4. ASSUME NEW x, Then(r, x)
        PROVE  /\ \A q \in Request \ {r} : proj'[q] = proj[q]
               /\ x = "none" => proj'[r] = Idle
               /\ x # "none" => proj'[r].step = x /\ proj'[r].tx = proj[r].tx
    BY SMTT(20), <1>4, Types DEF Then
  <1>. QED BY <1>1, <1>2, <1>3, <1>4

CoveredFacts ==
    SpentBeforeRemoved /\ SectionExclusive /\ SectionKnows /\ FinalizerChanges /\ AnsweredCovered

\* What the invariant says.
LEMMA CoveredParts ==
    ASSUME CoveredInv
    PROVE  /\ TypeOK /\ SpentBeforeRemoved /\ SectionExclusive /\ SectionKnows
           /\ FinalizerChanges /\ AnsweredCovered
  BY DEF CoveredInv

\* A step of a submission that adds nothing to the cache.
LEMMA SubmitterCovers ==
    ASSUME CoveredInv, NEW s \in Submitter, Others(s), UNCHANGED <<spentIns, cached>>,
           SpentBeforeRemoved',
           mutex' = mutex \/ mutex \in {s, NoOne},
           InSection(s)' => mutex' = s,
           Ok(s)' => Ok(s),
           pc'[s] = "cacheFree" => \A u \in Submitter : Ok(u) => spentIns,
           pc'[s] = "fresh" => \A u \in Submitter : ~Ok(u),
           pc'[s] = "saving" => change'[s] # "oneShot"
    PROVE  CoveredFacts'
  <1>1. /\ \A f \in Finalizer : change'[f] = change[f]
        /\ \A u \in Submitter \ {s} : pc'[u] = pc[u] /\ change'[u] = change[u] /\ answer'[u] = answer[u]
        /\ \A u \in Submitter : u # NoOne
    BY RequestsAssumption DEF Others, Request
  <1>2. /\ \A u \in Submitter : Ok(u)' => Ok(u)
        /\ \A u \in Submitter \ {s} : InSection(u)' <=> InSection(u)
    BY <1>1 DEF Ok, InSection
  <1>3. SectionExclusive'
    BY SMTT(20), <1>1, <1>2, CoveredParts DEF SectionExclusive
  <1>4. SectionKnows'
    BY <1>1, <1>2, CoveredParts DEF SectionKnows
  <1>5. FinalizerChanges' /\ AnsweredCovered'
    BY <1>1, <1>2, CoveredParts DEF FinalizerChanges, AnsweredCovered
  <1>. QED BY <1>3, <1>4, <1>5 DEF CoveredFacts

\* A step of a finalization.
LEMMA FinalizerCovers ==
    ASSUME CoveredInv, NEW f \in Finalizer, Others(f), UNCHANGED <<spentIns, cached, mutex>>,
           SpentBeforeRemoved', change'[f] \in {"finalize", "fail"}
    PROVE  CoveredFacts'
  <1>1. /\ \A g \in Finalizer \ {f} : change'[g] = change[g]
        /\ \A u \in Submitter : pc'[u] = pc[u] /\ change'[u] = change[u] /\ answer'[u] = answer[u]
    BY RequestsAssumption DEF Others, Request
  <1>2. \A u \in Submitter : (Ok(u)' <=> Ok(u)) /\ (InSection(u)' <=> InSection(u))
    BY <1>1 DEF Ok, InSection
  <1>3. SectionExclusive' /\ SectionKnows'
    BY <1>1, <1>2, CoveredParts DEF SectionExclusive, SectionKnows
  <1>4. FinalizerChanges' /\ AnsweredCovered'
    BY <1>1, <1>2, CoveredParts DEF FinalizerChanges, AnsweredCovered
  <1>. QED BY <1>3, <1>4 DEF CoveredFacts

\* A step that is not one of a request.
LEMMA RequestsCovered ==
    ASSUME CoveredInv, UNCHANGED requestVars, SpentBeforeRemoved',
           spentIns => spentIns', cached # Undefined => cached' # Undefined \/ spentIns'
    PROVE  CoveredFacts'
  <1>1. UNCHANGED <<mutex, pc, change, answer>>
    BY DEF requestVars
  <1>2. SectionExclusive' /\ SectionKnows' /\ FinalizerChanges'
    BY <1>1, CoveredParts DEF SectionExclusive, SectionKnows, FinalizerChanges, InSection, Ok
  <1>3. AnsweredCovered'
    BY <1>1, CoveredParts DEF AnsweredCovered, Ok
  <1>. QED BY <1>2, <1>3 DEF CoveredFacts

\* A projection removes the tx only if it has marked its inputs spent.
LEMMA SpentKept ==
    ASSUME CoveredInv
    PROVE  /\ UNCHANGED <<spentIns, proj>> => SpentBeforeRemoved'
           /\ \A r \in Request :
                 /\ \A q \in Request \ {r} : proj'[q] = proj[q]
                 /\ spentIns => spentIns'
                 /\ \/ proj'[r].step \notin {"create", "remove"}
                    \/ proj'[r].tx \notin {Accepted, Finalized}
                    \/ spentIns'
                 => SpentBeforeRemoved'
  BY CoveredParts DEF SpentBeforeRemoved

\* A submission keeps the inputs covered.
LEMMA SubmitCovers ==
    ASSUME CoveredInv,
           NEW s \in Submitter, SubmitStep(s)
    PROVE  CoveredFacts'
  <1>0. s \in Request /\ TypeOK /\ (InSection(s) => mutex = s)
    BY CoveredParts DEF Request, SectionExclusive
  <1>1. ASSUME NEW x \in RequestStep \ {"cacheFree", "fresh", "saving"}, Go(s, x),
               UNCHANGED <<spentIns, cached, proj, mutex, change>>,
               UNCHANGED answer \/ Tell(s, "error")
        PROVE  CoveredFacts'
    <2>1. Others(s) /\ pc'[s] = x /\ (Ok(s)' => Ok(s))
      BY SMTT(20), <1>0, <1>1, StepMoves DEF Others, Ok
    <2>2. ~InSection(s)'
      BY <1>1, <2>1 DEF InSection
    <2>. QED BY <1>1, <2>1, <2>2, SpentKept, SubmitterCovers
  <1>2. ASSUME SubmitGivesUp(s)
        PROVE  CoveredFacts'
    <2>1. /\ UNCHANGED <<spentIns, cached, proj>>
          /\ mutex' = mutex \/ mutex \in {s, NoOne}
      BY <1>2 DEF SubmitGivesUp, Free, dbVars, redisVars
    <2>2. /\ Others(s) /\ ~Ok(s)' /\ pc'[s] \in {"done", "saving"}
          /\ pc'[s] = "saving" => change'[s] # "oneShot"
      BY SMTT(20), <1>0, <1>2, StepMoves DEF SubmitGivesUp, Others, Ok
    <2>3. ~InSection(s)'
      BY <2>2 DEF InSection
    <2>. QED BY <2>1, <2>2, <2>3, SpentKept, SubmitterCovers
  <1>3. CASE SubmitReadsRow(s)
    BY <1>1, <1>3 DEF SubmitReadsRow, Refuse, RequestStep, dbVars, redisVars
  <1>4. CASE SubmitReadsVtxos(s)
    BY <1>1, <1>4 DEF SubmitReadsVtxos, RequestStep, dbVars, redisVars
  <1>5. CASE SubmitReadsCache(s)
    BY <1>1, <1>5 DEF SubmitReadsCache, Refuse, RequestStep, dbVars, redisVars
  <1>6. CASE SubmitSigns(s)
    BY <1>1, <1>6 DEF SubmitSigns, RequestStep, dbVars, redisVars
  <1>7. CASE SubmitFails(s)
    BY <1>2, <1>7 DEF SubmitFails
  <1>8. CASE SubmitRereadsCache(s)
    <2>1. CASE cached = Undefined
      <3>1. /\ UNCHANGED <<spentIns, cached, proj, change, answer>>
            /\ mutex = NoOne /\ mutex' = s /\ Go(s, "cacheFree")
        BY <1>8, <2>1 DEF SubmitRereadsCache, dbVars, redisVars
      <3>2. Others(s) /\ pc'[s] = "cacheFree" /\ (Ok(s)' => Ok(s))
        BY <1>0, <3>1, StepMoves DEF Others, Ok
      <3>3. \A u \in Submitter : Ok(u) => spentIns
        BY <2>1, CoveredParts DEF AnsweredCovered
      <3>. QED BY <3>1, <3>2, <3>3, SpentKept, SubmitterCovers
    <2>2. CASE cached # Undefined
      BY <1>2, <1>8, <2>2 DEF SubmitRereadsCache
    <2>. QED BY <2>1, <2>2
  <1>9. CASE SubmitRereadsVtxos(s)
    <2>1. pc[s] = "cacheFree" /\ mutex = s
      BY <1>0, <1>9 DEF SubmitRereadsVtxos, InSection
    <2>2. CASE spentIns \/ unrolled
      BY <1>2, <1>9, <2>2 DEF SubmitRereadsVtxos
    <2>3. CASE ~spentIns /\ ~unrolled
      <3>1. UNCHANGED <<spentIns, cached, proj, mutex, change, answer>> /\ Go(s, "fresh")
        BY <1>9, <2>3 DEF SubmitRereadsVtxos, dbVars, redisVars
      <3>2. Others(s) /\ pc'[s] = "fresh" /\ (Ok(s)' => Ok(s))
        BY <1>0, <3>1, StepMoves DEF Others, Ok
      <3>3. \A u \in Submitter : ~Ok(u)
        BY <2>1, <2>3, CoveredParts DEF SectionKnows
      <3>. QED BY <2>1, <3>1, <3>2, <3>3, SpentKept, SubmitterCovers
    <2>. QED BY <2>2, <2>3
  <1>10. CASE SubmitAdds(s)
    <2>1. /\ UNCHANGED <<spentIns, proj>> /\ cached' # Undefined
          /\ pc[s] = "fresh" /\ Go(s, "saving")
          /\ \/ change' = [change EXCEPT ![s] = "oneShot"] /\ mutex' = s
             \/ change' = [change EXCEPT ![s] = "accept"]
          /\ Tell(s, "ok")
      BY <1>10, TxValues DEF SubmitAdds, dbVars
    <2>2. /\ Others(s) /\ pc'[s] = "saving"
          /\ change'[s] = "oneShot" => mutex' = s
      BY SMTT(20), <1>0, <2>1, StepMoves DEF Others
    <2>3. /\ \A u \in Submitter : ~Ok(u)
          /\ \A u \in Submitter \ {s} : ~InSection(u)
      BY <1>0, <2>1, CoveredParts DEF SectionKnows, SectionExclusive, InSection
    <2>4. /\ \A f \in Finalizer : change'[f] = change[f]
          /\ \A u \in Submitter \ {s} : ~InSection(u)' /\ ~Ok(u)'
      BY <2>2, <2>3, RequestsAssumption DEF Others, Request, InSection, Ok
    <2>5. SectionExclusive' /\ SectionKnows'
      BY <2>2, <2>4 DEF SectionExclusive, SectionKnows, InSection
    <2>6. FinalizerChanges' /\ AnsweredCovered' /\ SpentBeforeRemoved'
      BY <2>1, <2>4, CoveredParts, SpentKept DEF FinalizerChanges, AnsweredCovered
    <2>. QED BY <2>5, <2>6 DEF CoveredFacts
  <1>. QED BY <1>3, <1>4, <1>5, <1>6, <1>7, <1>8, <1>9, <1>10 DEF SubmitStep

\* A finalization keeps the inputs covered.
LEMMA FinalizeCovers ==
    ASSUME CoveredInv,
           NEW f \in Finalizer, FinalizeStep(f)
    PROVE  CoveredFacts'
  <1>1. ASSUME NEW x, Go(f, x), UNCHANGED <<spentIns, cached, proj, mutex>>,
               UNCHANGED answer \/ \E a : Tell(f, a),
               \/ UNCHANGED change
               \/ \E c \in {"finalize", "fail"} : change' = [change EXCEPT ![f] = c]
        PROVE  CoveredFacts'
    <2>1. f \in Request /\ TypeOK /\ change[f] \in {"finalize", "fail"}
      BY CoveredParts DEF Request, FinalizerChanges
    <2>2. Others(f) /\ change'[f] \in {"finalize", "fail"}
      BY SMTT(20), <1>1, <2>1, StepMoves DEF Others
    <2>. QED BY <1>1, <2>2, SpentKept, FinalizerCovers
  <1>2. ASSUME NEW a, FinalizeEnds(f, a)
        PROVE  CoveredFacts'
    BY <1>1, <1>2 DEF FinalizeEnds, dbVars
  <1>3. ASSUME FinalizeGoesOn(f)
        PROVE  CoveredFacts'
    BY <1>1, <1>3 DEF FinalizeGoesOn, dbVars, redisVars
  <1>4. CASE FinalizeLocks(f)
    BY <1>1, <1>4 DEF FinalizeLocks, dbVars
  <1>5. CASE FinalizeTimesOut(f)
    BY <1>1, <1>5 DEF FinalizeTimesOut, dbVars, redisVars
  <1>6. CASE FinalizeReadsCache(f)
    BY <1>1, <1>2, <1>3, <1>6 DEF FinalizeReadsCache, dbVars, redisVars
  <1>7. CASE FinalizeReadsRow(f)
    BY <1>2, <1>3, <1>7 DEF FinalizeReadsRow
  <1>8. CASE FinalizeDecides(f)
    BY <1>1, <1>8 DEF FinalizeDecides, dbVars, redisVars
  <1>. QED BY <1>4, <1>5, <1>6, <1>7, <1>8 DEF FinalizeStep

\* The save of events and the return keeps the inputs covered.
LEMMA SaveCovers ==
    ASSUME CoveredInv,
           NEW r \in Request, SaveStep(r)
    PROVE  CoveredFacts'
  <1>0. TypeOK /\ (r \in Finalizer => change[r] \in {"finalize", "fail"})
    BY CoveredParts DEF FinalizerChanges
  <1>1. ASSUME NEW x \in {"published", "returning", "done"}, Go(r, x),
               UNCHANGED <<spentIns, cached, change, answer>>, UNCHANGED mutex \/ Free(r),
               SpentBeforeRemoved'
        PROVE  CoveredFacts'
    <2>1. Others(r) /\ pc'[r] = x
      BY <1>0, <1>1, StepMoves DEF Others
    <2>2. CASE r \in Submitter
      <3>1. ~InSection(r)' /\ (Ok(r)' => Ok(r)) /\ (mutex' = mutex \/ mutex \in {r, NoOne})
        BY <1>1, <2>1 DEF InSection, Ok, Free
      <3>. QED BY <1>1, <2>1, <2>2, <3>1, SubmitterCovers
    <2>3. CASE r \in Finalizer
      <3>1. mutex' = mutex /\ change'[r] \in {"finalize", "fail"}
        BY <1>0, <1>1, <2>3, RequestsAssumption DEF Free, TypeOK
      <3>. QED BY <1>1, <2>1, <2>3, <3>1, FinalizerCovers
    <2>. QED BY <2>2, <2>3 DEF Request
  <1>2. CASE Publish(r)
    BY <1>1, <1>2, SpentKept DEF Publish, dbVars, redisVars
  <1>3. CASE PublishFails(r)
    <2>1. /\ UNCHANGED <<spentIns, proj, mutex, change>> /\ pc[r] = "saving" /\ Go(r, "returning")
          /\ cached' = cached \/ change[r] = "oneShot"
          /\ \/ UNCHANGED answer /\ change[r] # "oneShot"
             \/ Tell(r, "error")
      BY <1>3 DEF PublishFails, Tell, dbVars
    <2>2. Others(r) /\ pc'[r] = "returning" /\ (Ok(r)' => Ok(r) /\ change[r] # "oneShot")
      BY SMTT(20), <1>0, <2>1, StepMoves DEF Others, Ok
    <2>3. CASE cached' = cached /\ r \in Submitter
      BY <2>1, <2>2, <2>3, SpentKept, SubmitterCovers DEF InSection
    <2>4. CASE cached' = cached /\ r \in Finalizer
      BY <1>0, <2>1, <2>2, <2>4, SpentKept, FinalizerCovers
    <2>5. CASE change[r] = "oneShot"
      <3>1. r \in Submitter /\ mutex = r /\ \A u \in Submitter \ {r} : ~Ok(u) /\ ~InSection(u)
        BY <1>0, <2>1, <2>5, CoveredParts DEF Request, SectionExclusive, SectionKnows, InSection
      <3>2. /\ \A u \in Submitter : ~Ok(u)' /\ ~InSection(u)'
            /\ \A f \in Finalizer : change'[f] = change[f]
        BY <2>1, <2>2, <2>5, <3>1 DEF Others, Request, Ok, InSection
      <3>3. SectionExclusive' /\ AnsweredCovered'
        BY <3>2 DEF SectionExclusive, AnsweredCovered
      <3>4. SectionKnows'
        BY <3>2 DEF SectionKnows
      <3>5. FinalizerChanges' /\ SpentBeforeRemoved'
        BY <2>1, <3>2, CoveredParts, SpentKept DEF FinalizerChanges
      <3>. QED BY <3>3, <3>4, <3>5 DEF CoveredFacts
    <2>. QED BY <2>1, <2>3, <2>4, <2>5 DEF Request
  <1>4. CASE Dispatch(r)
    <2>1. proj'[r].step = "row" /\ \A q \in Request \ {r} : proj'[q] = proj[q]
      BY <1>0, <1>4, Types DEF Dispatch
    <2>2. SpentBeforeRemoved'
      BY <1>4, <2>1, SpentKept DEF Dispatch, dbVars
    <2>. QED BY <1>1, <1>4, <2>2 DEF Dispatch, dbVars, redisVars
  <1>5. CASE DispatchFails(r)
    BY <1>1, <1>5, SpentKept DEF DispatchFails, dbVars, redisVars
  <1>6. CASE Return(r)
    BY <1>1, <1>6, SpentKept DEF Return, dbVars
  <1>. QED BY <1>2, <1>3, <1>4, <1>5, <1>6 DEF SaveStep

\* A projection and its handler keeps the inputs covered.
LEMMA ProjectionCovers ==
    ASSUME CoveredInv,
           NEW r \in Request, ProjectionStep(r)
    PROVE  CoveredFacts'
  <1>0. TypeOK /\ Idle.step = "none"
    BY CoveredParts DEF Idle
  <1>1. ASSUME NEW x, Then(r, x), UNCHANGED requestVars,
               spentIns => spentIns', cached # Undefined => cached' # Undefined \/ spentIns',
               x \in {"create", "remove"} /\ proj[r].tx \in {Accepted, Finalized} => spentIns'
        PROVE  CoveredFacts'
    <2>1. /\ \A q \in Request \ {r} : proj'[q] = proj[q]
          /\ \/ proj'[r].step \notin {"create", "remove"}
             \/ proj'[r].tx \notin {Accepted, Finalized}
             \/ spentIns'
      <3>1. CASE x = "none"
        BY <1>0, <1>1, <3>1, StepMoves
      <3>2. CASE x # "none"
        BY <1>0, <1>1, <3>2, StepMoves
      <3>. QED BY <3>1, <3>2
    <2>2. SpentBeforeRemoved'
      BY <1>1, <2>1, SpentKept
    <2>. QED BY <1>1, <2>2, RequestsCovered
  <1>2. CASE ProjectRow(r)
    BY <1>1, <1>2 DEF ProjectRow, redisVars
  <1>3. CASE ProjectSpend(r)
    BY <1>1, <1>3 DEF ProjectSpend, redisVars
  <1>4. proj[r].step \in {"create", "remove"} /\ proj[r].tx \in {Accepted, Finalized} => spentIns
    BY CoveredParts DEF SpentBeforeRemoved
  <1>5. CASE ProjectCreate(r)
    BY <1>1, <1>4, <1>5 DEF ProjectCreate, redisVars
  <1>6. CASE ProjectionFails(r)
    BY <1>1, <1>6 DEF ProjectionFails, dbVars, redisVars
  <1>7. CASE HandlerRemoves(r)
    BY <1>1, <1>4, <1>7 DEF HandlerRemoves, dbVars
  <1>8. CASE HandlerUnlocks(r)
    BY <1>1, <1>8 DEF HandlerUnlocks, dbVars
  <1>. QED BY <1>2, <1>3, <1>5, <1>6, <1>7, <1>8 DEF ProjectionStep

\* The rest of the steps keeps the inputs covered.
LEMMA EnvironmentCovers ==
    ASSUME CoveredInv, SpendOutputs \/ Unroll \/ LockExpires \/ Crash
    PROVE  CoveredFacts'
  <1>1. CASE UNCHANGED <<spentIns, cached, proj, requestVars>>
    BY <1>1, SpentKept, RequestsCovered
  <1>2. CASE SpendOutputs
    BY <1>1, <1>2 DEF SpendOutputs, redisVars
  <1>3. CASE Unroll
    BY <1>1, <1>3 DEF Unroll, dbVars, redisVars
  <1>4. CASE LockExpires
    BY <1>1, <1>4 DEF LockExpires, dbVars
  <1>5. CASE Crash
    <2>1. /\ UNCHANGED <<spentIns, cached, change>>
          /\ \A r \in Request : /\ pc'[r] \in {"idle", "done"}
                                /\ Ok(r)' => Ok(r)
                                /\ proj'[r].step = "none"
      BY <1>5 DEF Crash, Ok, Idle, dbVars, redisVars
    <2>2. \A s \in Submitter : ~InSection(s)' /\ (Ok(s)' => Ok(s))
      BY <2>1 DEF InSection, Request
    <2>3. SectionExclusive' /\ SectionKnows'
      BY <2>2 DEF SectionExclusive, SectionKnows, InSection
    <2>4. FinalizerChanges' /\ AnsweredCovered' /\ SpentBeforeRemoved'
      BY <2>1, <2>2, CoveredParts DEF FinalizerChanges, AnsweredCovered, SpentBeforeRemoved
    <2>. QED BY <2>3, <2>4 DEF CoveredFacts
  <1>. QED BY <1>2, <1>3, <1>4, <1>5

\* Every step keeps the facts about covered inputs.
LEMMA CoveredStep ==
    ASSUME CoveredInv, [Next]_vars
    PROVE  CoveredFacts'
  <1>1. ASSUME NEW s \in Submitter, SubmitStep(s)
        PROVE  CoveredFacts'
    BY <1>1, SubmitCovers
  <1>2. ASSUME NEW f \in Finalizer, FinalizeStep(f)
        PROVE  CoveredFacts'
    BY <1>2, FinalizeCovers
  <1>3. ASSUME NEW r \in Request, SaveStep(r)
        PROVE  CoveredFacts'
    BY <1>3, SaveCovers
  <1>4. ASSUME NEW r \in Request, ProjectionStep(r)
        PROVE  CoveredFacts'
    BY <1>4, ProjectionCovers
  <1>5. CASE SpendOutputs \/ Unroll \/ LockExpires \/ Crash
    BY <1>5, EnvironmentCovers
  <1>6. CASE UNCHANGED vars
    BY <1>6
    DEF CoveredInv, CoveredFacts, InSection, Ok, SpentBeforeRemoved, SectionExclusive,
        SectionKnows, FinalizerChanges, AnsweredCovered, vars, logVars, dbVars, redisVars,
        requestVars
  <1>. QED BY <1>1, <1>2, <1>3, <1>4, <1>5, <1>6 DEF Next, Step

\* The initial state has no answered submission.
LEMMA CoveredInit ==
    ASSUME Init
    PROVE  CoveredFacts
  BY DEF Init, CoveredFacts, SpentBeforeRemoved, SectionExclusive, SectionKnows,
         FinalizerChanges, AnsweredCovered, InSection, Ok, Idle, Request

\* InputsCovered holds for any number of submissions and finalizations and under all
\* the faults: what the projections write and remove, and what the critical section of
\* SubmitOffchainTx reads, never leaves the inputs of an answered tx free.
THEOREM InputsAlwaysCovered == Spec => []InputsCovered
  <1>1. Init => CoveredInv
    BY TypeInit, CoveredInit DEF CoveredInv, CoveredFacts
  <1>2. CoveredInv /\ [Next]_vars => CoveredInv'
    BY CoveredStep, TypeStep DEF CoveredInv, CoveredFacts
  <1>3. CoveredInv => InputsCovered
    BY DEF CoveredInv, AnsweredCovered, InputsCovered, Answered, Ok
  <1>. QED BY <1>1, <1>2, <1>3, PTL DEF Spec

-----------------------------------------------------------------------------
(* A finalization answered with success is in the log.                     *)

RecordedFacts == AnsweredAccepted /\ SeenFinalized /\ FinalizerKnows

\* What appending events does to the stage of a tx.
LEMMA ReplayFacts ==
    ASSUME NEW tx \in Tx, tx.stage = "finalized" => ~tx.failed
    PROVE  /\ \A c \in Change : Visible(tx) => Visible(Replay(c, tx))
           /\ \A c \in Change : tx = Finalized => Replay(c, tx) = Finalized
           /\ \A c \in {"accept", "oneShot"} : Visible(Replay(c, tx))
           /\ \A c \in Change : Replay(c, tx).stage = "finalized" => ~Replay(c, tx).failed
           /\ Visible(tx) => Replay("finalize", tx) = Finalized
           /\ Replay("oneShot", tx) = Finalized
  <1>1. /\ Visible(tx) => \/ tx.stage = "accepted"
                           \/ tx = Finalized
        /\ tx.stage = "finalized" => tx = Finalized
    BY DEF Visible, Finalized, Tx, Stage
  <1>2. CASE tx = Finalized
    BY <1>2 DEF Replay, Change, OnRequested, OnAccepted, OnFinalized, OnFailed, Visible, Finalized
  <1>3. CASE tx.stage = "accepted"
    BY SMTT(20), <1>3 DEF Replay, Change, OnRequested, OnAccepted, OnFinalized, OnFailed, Visible, Finalized, Tx
  <1>4. CASE tx.stage \in {"undefined", "requested"}
    BY SMTT(20), <1>4 DEF Replay, Change, OnRequested, OnAccepted, OnFinalized, OnFailed, Visible, Accepted,
                Finalized, Tx
  <1>. QED BY <1>1, <1>2, <1>3, <1>4 DEF Tx, Stage

\* What the invariant says.
LEMMA RecordedParts ==
    ASSUME RecordedInv
    PROVE  /\ TypeOK /\ SectionKnows /\ FinalizerChanges
           /\ AnsweredAccepted /\ SeenFinalized /\ FinalizerKnows
  BY DEF RecordedInv, CoveredInv

\* A step of a submission that saves nothing and adds nothing to the cache.
LEMMA SubmitterRecords ==
    ASSUME RecordedInv, NEW s \in Submitter, Others(s), UNCHANGED <<stored, row, cached>>,
           \A q \in Request : proj'[q].tx \in {stored, proj[q].tx},
           pc[s] \notin {"saving", "done"},
           Ok(s)' => Ok(s) /\ pc'[s] # "saving"
    PROVE  RecordedFacts'
  <1>1. /\ \A f \in Finalizer : pc'[f] = pc[f] /\ change'[f] = change[f] /\ answer'[f] = answer[f]
        /\ \A u \in Submitter \ {s} : pc'[u] = pc[u] /\ change'[u] = change[u] /\ answer'[u] = answer[u]
    BY RequestsAssumption DEF Others, Request
  <1>2. AnsweredAccepted'
    BY <1>1, RecordedParts DEF AnsweredAccepted, Ok, Visible
  <1>3. SeenFinalized'
    BY <1>1, RecordedParts DEF SeenFinalized, Ok
  <1>4. Answered => Answered'
    BY <1>1 DEF Answered
  <1>5. FinalizerKnows'
    BY <1>1, <1>4, RecordedParts DEF FinalizerKnows, Finalizing
  <1>. QED BY <1>2, <1>3, <1>5 DEF RecordedFacts

\* A step of a finalization that saves nothing.
LEMMA FinalizerRecords ==
    ASSUME RecordedInv, NEW f \in Finalizer, Others(f), UNCHANGED <<stored, row, cached>>,
           \A q \in Request : proj'[q].tx \in {stored, proj[q].tx},
           Finalizing(f)' => Answered,
           Ok(f)' => IF pc'[f] = "saving" THEN change'[f] = "finalize" ELSE stored = Finalized
    PROVE  RecordedFacts'
  <1>1. /\ \A g \in Finalizer \ {f} : pc'[g] = pc[g] /\ change'[g] = change[g] /\ answer'[g] = answer[g]
        /\ \A u \in Submitter : pc'[u] = pc[u] /\ change'[u] = change[u] /\ answer'[u] = answer[u]
    BY RequestsAssumption DEF Others, Request
  <1>2. AnsweredAccepted'
    BY <1>1, RecordedParts DEF AnsweredAccepted, Ok, Visible
  <1>3. SeenFinalized'
    BY <1>1, RecordedParts DEF SeenFinalized, Ok
  <1>4. Answered => Answered'
    BY <1>1 DEF Answered
  <1>5. FinalizerKnows'
    BY <1>1, <1>4, RecordedParts DEF FinalizerKnows, Finalizing, Ok
  <1>. QED BY <1>2, <1>3, <1>5 DEF RecordedFacts

\* A step that is not one of a request.
LEMMA RequestsRecorded ==
    ASSUME RecordedInv, UNCHANGED <<stored, requestVars>>,
           row' = row \/ \E q \in Request : row' = proj[q].tx,
           cached' \in {cached, Undefined},
           \A q \in Request : proj'[q].tx \in {Undefined, proj[q].tx}
    PROVE  RecordedFacts'
  <1>1. UNCHANGED <<pc, change, answer>>
    BY DEF requestVars
  <1>2. AnsweredAccepted'
    BY <1>1, RecordedParts DEF AnsweredAccepted, Ok, Visible
  <1>3. SeenFinalized'
    BY <1>1, TxValues, RecordedParts DEF SeenFinalized, Ok
  <1>4. FinalizerKnows'
    BY <1>1, RecordedParts DEF FinalizerKnows, Finalizing, Answered
  <1>. QED BY <1>2, <1>3, <1>4 DEF RecordedFacts

\* A submission keeps the facts about finalized txs.
LEMMA SubmitRecords ==
    ASSUME Orderly, RecordedInv,
           NEW s \in Submitter, SubmitStep(s)
    PROVE  RecordedFacts'
  <1>0. s \in Request /\ TypeOK
    BY RecordedParts DEF Request
  <1>1. ASSUME NEW x \in RequestStep \ {"saving"}, Go(s, x), pc[s] \notin {"saving", "done"},
               UNCHANGED <<stored, row, cached, proj, change>>,
               UNCHANGED answer \/ Tell(s, "error")
        PROVE  RecordedFacts'
    <2>1. Others(s) /\ pc'[s] = x /\ (Ok(s)' => Ok(s))
      BY SMTT(20), <1>0, <1>1, StepMoves DEF Others, Ok
    <2>. QED BY <1>1, <2>1, SubmitterRecords
  <1>2. ASSUME SubmitGivesUp(s), pc[s] \notin {"saving", "done"}
        PROVE  RecordedFacts'
    <2>1. UNCHANGED <<stored, row, cached, proj>>
      BY <1>2 DEF SubmitGivesUp, logVars, dbVars, redisVars
    <2>2. Others(s) /\ ~Ok(s)'
      BY SMTT(20), <1>0, <1>2, StepMoves DEF SubmitGivesUp, Others, Ok
    <2>. QED BY <1>2, <2>1, <2>2, SubmitterRecords
  <1>3. CASE SubmitReadsRow(s)
    BY <1>1, <1>3 DEF SubmitReadsRow, Refuse, RequestStep, logVars, dbVars, redisVars
  <1>4. CASE SubmitReadsVtxos(s)
    BY <1>1, <1>4 DEF SubmitReadsVtxos, RequestStep, logVars, dbVars, redisVars
  <1>5. CASE SubmitReadsCache(s)
    BY <1>1, <1>5 DEF SubmitReadsCache, Refuse, RequestStep, logVars, dbVars, redisVars
  <1>6. CASE SubmitSigns(s)
    BY <1>1, <1>6 DEF SubmitSigns, RequestStep, logVars, dbVars, redisVars
  <1>7. CASE SubmitFails(s)
    BY <1>2, <1>7 DEF SubmitFails
  <1>8. CASE SubmitRereadsCache(s)
    BY <1>1, <1>2, <1>8 DEF SubmitRereadsCache, RequestStep, logVars, dbVars, redisVars
  <1>9. CASE SubmitRereadsVtxos(s)
    BY <1>1, <1>2, <1>9 DEF SubmitRereadsVtxos, RequestStep, logVars, dbVars, redisVars
  <1>10. CASE SubmitAdds(s)
    <2>1. /\ UNCHANGED <<stored, row, proj>>
          /\ pc[s] = "fresh" /\ Go(s, "saving") /\ Tell(s, "ok")
          /\ \/ change' = [change EXCEPT ![s] = "oneShot"]
             \/ change' = [change EXCEPT ![s] = "accept"] /\ cached' = Accepted
      BY <1>10 DEF SubmitAdds, logVars, dbVars
    <2>2. /\ Others(s) /\ pc'[s] = "saving" /\ Ok(s)'
          /\ \/ change'[s] = "oneShot"
             \/ change'[s] = "accept" /\ cached' = Accepted
      BY SMTT(20), <1>0, <2>1, StepMoves DEF Others, Ok
    <2>3. \A u \in Submitter : ~Ok(u)
      BY <2>1, RecordedParts DEF SectionKnows
    <2>4. /\ \A f \in Finalizer : pc'[f] = pc[f] /\ change'[f] = change[f] /\ answer'[f] = answer[f]
          /\ \A u \in Submitter \ {s} : ~Ok(u)'
      BY <2>2, <2>3, RequestsAssumption DEF Others, Request, Ok
    <2>5. AnsweredAccepted'
      BY <2>2, <2>4 DEF AnsweredAccepted
    <2>6. SeenFinalized'
      BY <2>1, <2>2, <2>4, TxValues, RecordedParts DEF SeenFinalized
    <2>7. \A f \in Finalizer : ~Finalizing(f)
      BY <2>3, RecordedParts DEF FinalizerKnows, Answered, Ok
    <2>8. FinalizerKnows'
      BY <2>1, <2>4, <2>7, RecordedParts DEF FinalizerKnows, Finalizing
    <2>. QED BY <2>5, <2>6, <2>8 DEF RecordedFacts
  <1>. QED BY <1>3, <1>4, <1>5, <1>6, <1>7, <1>8, <1>9, <1>10 DEF SubmitStep

\* A finalization keeps the facts about finalized txs.
LEMMA FinalizeRecords ==
    ASSUME Orderly, RecordedInv,
           NEW f \in Finalizer, FinalizeStep(f)
    PROVE  RecordedFacts'
  <1>0. /\ f \in Request /\ TypeOK /\ (Finalizing(f) => Answered)
        /\ Ok(f) => IF pc[f] = "saving" THEN change[f] = "finalize" ELSE stored = Finalized
    BY RecordedParts DEF Request, FinalizerKnows, Ok
  <1>1. ASSUME NEW x \in RequestStep \ {"saving"}, Go(f, x), UNCHANGED <<stored, row, cached, proj>>,
               UNCHANGED change, pc[f] # "saving", Answered \/ x = "done",
               \/ UNCHANGED answer
               \/ Tell(f, "error")
               \/ Tell(f, "ok") /\ stored = Finalized
        PROVE  RecordedFacts'
    <2>1. /\ Others(f) /\ pc'[f] = x /\ (Ok(f)' => stored = Finalized)
      BY SMTT(20), <1>0, <1>1, StepMoves DEF Others, Ok
    <2>2. Finalizing(f)' => Answered
      BY <1>1, <2>1 DEF Finalizing
    <2>. QED BY <1>1, <2>1, <2>2, FinalizerRecords
  <1>2. ASSUME NEW a \in {"ok", "error"}, FinalizeEnds(f, a), a = "ok" => stored = Finalized,
               pc[f] # "saving"
        PROVE  RecordedFacts'
    BY <1>1, <1>2 DEF FinalizeEnds, RequestStep, logVars, dbVars
  <1>3. ASSUME FinalizeGoesOn(f), Answered, pc[f] # "saving"
        PROVE  RecordedFacts'
    BY <1>1, <1>3 DEF FinalizeGoesOn, RequestStep, logVars, dbVars, redisVars
  <1>4. CASE FinalizeLocks(f)
    BY <1>1, <1>4 DEF FinalizeLocks, Orderly, RequestStep, logVars, dbVars
  <1>5. CASE FinalizeTimesOut(f)
    BY <1>1, <1>5 DEF FinalizeTimesOut, RequestStep, logVars, dbVars, redisVars
  <1>6. CASE FinalizeReadsCache(f)
    <2>1. pc[f] = "locked" /\ Answered
      BY <1>0, <1>6 DEF FinalizeReadsCache, Finalizing
    <2>2. cached = Finalized => stored = Finalized
      BY <2>1, RecordedParts DEF SeenFinalized, Answered, Ok
    <2>3. ASSUME cached = Undefined, Go(f, "cacheMiss"),
                 UNCHANGED <<logVars, dbVars, redisVars, change, answer, proj>>
          PROVE  RecordedFacts'
      BY <1>1, <2>1, <2>3 DEF RequestStep, logVars, dbVars, redisVars
    <2>. QED BY <1>2, <1>3, <1>6, <2>1, <2>2, <2>3 DEF FinalizeReadsCache
  <1>7. CASE FinalizeReadsRow(f)
    <2>1. pc[f] = "cacheMiss" /\ Answered
      BY <1>0, <1>7 DEF FinalizeReadsRow, Finalizing
    <2>2. row = Finalized => stored = Finalized
      BY RecordedParts DEF SeenFinalized
    <2>. QED BY <1>2, <1>3, <1>7, <2>1, <2>2 DEF FinalizeReadsRow
  <1>8. CASE FinalizeDecides(f)
    <2>1. /\ UNCHANGED <<stored, row, cached, proj>> /\ Answered /\ Go(f, "saving")
          /\ \/ change' = [change EXCEPT ![f] = "fail"] /\ Tell(f, "error")
             \/ change' = [change EXCEPT ![f] = "finalize"] /\ Tell(f, "ok")
      BY <1>0, <1>8 DEF FinalizeDecides, Finalizing, logVars, dbVars, redisVars
    <2>2. Others(f) /\ pc'[f] = "saving" /\ (Ok(f)' => change'[f] = "finalize")
      BY SMTT(20), <1>0, <2>1, StepMoves DEF Others, Ok
    <2>. QED BY <2>1, <2>2, FinalizerRecords
  <1>. QED BY <1>4, <1>5, <1>6, <1>7, <1>8 DEF FinalizeStep

\* The save of events and the return keeps the facts about finalized txs.
LEMMA SaveRecords ==
    ASSUME Orderly, RecordedInv,
           NEW r \in Request, SaveStep(r)
    PROVE  RecordedFacts'
  <1>0. TypeOK
    BY RecordedParts
  <1>1. ASSUME NEW x \in {"returning", "done"}, Go(r, x), pc[r] \in {"published", "returning"},
               UNCHANGED <<stored, row, cached, change, answer>>,
               \A q \in Request : proj'[q].tx \in {stored, proj[q].tx}
        PROVE  RecordedFacts'
    <2>1. Others(r) /\ pc'[r] = x /\ (Ok(r)' => Ok(r))
      BY <1>0, <1>1, StepMoves DEF Others, Ok
    <2>2. CASE r \in Submitter
      BY <1>1, <2>1, <2>2, SubmitterRecords
    <2>3. CASE r \in Finalizer
      <3>1. Answered /\ (Ok(r) => stored = Finalized)
        BY <1>1, <2>3, RecordedParts DEF FinalizerKnows, Finalizing, Ok
      <3>. QED BY <1>1, <2>1, <2>3, <3>1, FinalizerRecords
    <2>. QED BY <2>2, <2>3 DEF Request
  <1>2. CASE Publish(r)
    <2>1. stored \in Tx /\ change[r] \in Change
      BY <1>0, Types DEF TypeOK
    <2>2. /\ stored' = Replay(change[r], stored) /\ pc[r] = "saving" /\ Go(r, "published")
          /\ UNCHANGED <<row, cached, change, answer, proj>>
      BY <1>2 DEF Publish, dbVars, redisVars
    <2>3. /\ Visible(stored) => Visible(stored')
          /\ stored = Finalized => stored' = Finalized
          /\ change[r] \in {"accept", "oneShot"} => Visible(stored')
          /\ stored'.stage = "finalized" => ~stored'.failed
          /\ change[r] = "finalize" /\ Visible(stored) => stored' = Finalized
          /\ change[r] = "oneShot" => stored' = Finalized
      BY <2>1, <2>2, ReplayFacts, RecordedParts DEF SeenFinalized
    <2>4. pc'[r] = "published" /\ \A q \in Request \ {r} : pc'[q] = pc[q]
      BY <1>0, <2>2, StepMoves
    <2>5. AnsweredAccepted'
      <3>1. \A s \in Submitter : Ok(s) /\ pc'[s] # "saving" => Visible(stored')
        BY <2>2, <2>3, <2>4, RecordedParts DEF AnsweredAccepted, Request
      <3>2. \A s \in Submitter : Ok(s) /\ pc'[s] = "saving" => change[s] \in {"accept", "oneShot"}
        BY <2>4, RecordedParts DEF AnsweredAccepted, Request
      <3>. QED BY <2>2, <3>1, <3>2 DEF AnsweredAccepted, Ok, Visible
    <2>6. SeenFinalized'
      <3>1. cached' = Finalized /\ stored' # Finalized =>
               \A s \in Submitter : Ok(s)' => pc'[s] = "saving" /\ change'[s] = "oneShot"
        BY <2>2, <2>3, <2>4, RecordedParts DEF SeenFinalized, Ok, Request
      <3>. QED BY <2>2, <2>3, <3>1, RecordedParts DEF SeenFinalized
    <2>7. FinalizerKnows'
      <3>1. Answered => Answered' /\ Visible(stored)
        BY <2>2, <2>4, RecordedParts DEF Answered, AnsweredAccepted, Ok, Request
      <3>2. \A f \in Finalizer : Finalizing(f)' => Answered'
        BY <2>2, <2>4, <3>1, RecordedParts DEF FinalizerKnows, Finalizing, Request
      <3>3. \A f \in Finalizer :
               Ok(f) => IF pc'[f] = "saving" THEN change[f] = "finalize" ELSE stored' = Finalized
        <4>1. \A f \in Finalizer \ {r} :
                 Ok(f) => IF pc'[f] = "saving" THEN change[f] = "finalize" ELSE stored' = Finalized
          BY <2>3, <2>4, RecordedParts DEF FinalizerKnows, Ok, Request
        <4>2. r \in Finalizer /\ Ok(r) => stored' = Finalized
          BY <2>2, <2>3, <3>1, RecordedParts DEF FinalizerKnows, Finalizing, Ok
        <4>. QED BY <2>4, <4>1, <4>2
      <3>. QED BY <2>2, <3>2, <3>3 DEF FinalizerKnows, Ok
    <2>. QED BY <2>5, <2>6, <2>7 DEF RecordedFacts
  <1>3. ~PublishFails(r)
    BY DEF PublishFails, Orderly
  <1>4. CASE Dispatch(r)
    <2>1. \A q \in Request : proj'[q].tx \in {stored, proj[q].tx}
      BY SMTT(20), <1>0, <1>4, Types DEF Dispatch
    <2>. QED BY <1>1, <1>4, <2>1 DEF Dispatch, logVars, dbVars, redisVars
  <1>5. CASE DispatchFails(r)
    BY <1>1, <1>5 DEF DispatchFails, logVars, dbVars, redisVars
  <1>6. CASE Return(r)
    BY <1>1, <1>6 DEF Return, logVars, dbVars
  <1>. QED BY <1>2, <1>3, <1>4, <1>5, <1>6 DEF SaveStep

\* A projection and its handler keeps the facts about finalized txs.
LEMMA ProjectionRecords ==
    ASSUME RecordedInv,
           NEW r \in Request, ProjectionStep(r)
    PROVE  RecordedFacts'
  <1>1. ASSUME NEW x, Then(r, x), UNCHANGED <<stored, requestVars>>,
               row' \in {row, proj[r].tx}, cached' \in {cached, Undefined}
        PROVE  RecordedFacts'
    <2>1. TypeOK /\ Idle.tx = Undefined
      BY RecordedParts DEF Idle
    <2>2. \A q \in Request : proj'[q].tx \in {Undefined, proj[q].tx}
      BY <1>1, <2>1, StepMoves
    <2>. QED BY <1>1, <2>2, RequestsRecorded
  <1>2. CASE ProjectRow(r)
    BY <1>1, <1>2 DEF ProjectRow, logVars, redisVars
  <1>3. CASE ProjectSpend(r)
    BY <1>1, <1>3 DEF ProjectSpend, logVars, redisVars
  <1>4. CASE ProjectCreate(r)
    BY <1>1, <1>4 DEF ProjectCreate, logVars, redisVars
  <1>5. CASE ProjectionFails(r)
    BY <1>1, <1>5 DEF ProjectionFails, logVars, dbVars, redisVars
  <1>6. CASE HandlerRemoves(r)
    BY <1>1, <1>6 DEF HandlerRemoves, logVars, dbVars
  <1>7. CASE HandlerUnlocks(r)
    BY <1>1, <1>7 DEF HandlerUnlocks, logVars, dbVars
  <1>. QED BY <1>2, <1>3, <1>4, <1>5, <1>6, <1>7 DEF ProjectionStep

\* The rest of the steps keeps the facts about finalized txs.
LEMMA EnvironmentRecords ==
    ASSUME RecordedInv, SpendOutputs \/ Unroll \/ LockExpires \/ Crash
    PROVE  RecordedFacts'
  <1>1. CASE UNCHANGED <<stored, row, cached, proj, requestVars>>
    BY <1>1, RequestsRecorded
  <1>2. CASE SpendOutputs
    BY <1>1, <1>2 DEF SpendOutputs, logVars, redisVars
  <1>3. CASE Unroll
    BY <1>1, <1>3 DEF Unroll, logVars, dbVars, redisVars
  <1>4. CASE LockExpires
    BY <1>1, <1>4 DEF LockExpires, logVars, dbVars
  <1>5. CASE Crash
    <2>1. /\ UNCHANGED <<stored, row, cached, change>>
          /\ \A r \in Request : /\ pc'[r] \in {"idle", "done"}
                                /\ Ok(r)' => Ok(r) /\ pc[r] = "done"
                                /\ proj'[r].tx = Undefined
      BY <1>5 DEF Crash, Ok, Idle, logVars, dbVars, redisVars
    <2>2. AnsweredAccepted'
      BY <2>1, RecordedParts DEF AnsweredAccepted, Request, Visible
    <2>3. SeenFinalized'
      BY <2>1, TxValues, RecordedParts DEF SeenFinalized, Request
    <2>4. FinalizerKnows'
      BY <2>1, RecordedParts DEF FinalizerKnows, Finalizing, Request, Ok
    <2>. QED BY <2>2, <2>3, <2>4 DEF RecordedFacts
  <1>. QED BY <1>2, <1>3, <1>4, <1>5

\* Every step keeps the facts about finalized txs.
LEMMA RecordedStep ==
    ASSUME Orderly, RecordedInv, [Next]_vars
    PROVE  RecordedFacts'
  <1>1. ASSUME NEW s \in Submitter, SubmitStep(s)
        PROVE  RecordedFacts'
    BY <1>1, SubmitRecords
  <1>2. ASSUME NEW f \in Finalizer, FinalizeStep(f)
        PROVE  RecordedFacts'
    BY <1>2, FinalizeRecords
  <1>3. ASSUME NEW r \in Request, SaveStep(r)
        PROVE  RecordedFacts'
    BY <1>3, SaveRecords
  <1>4. ASSUME NEW r \in Request, ProjectionStep(r)
        PROVE  RecordedFacts'
    BY <1>4, ProjectionRecords
  <1>5. CASE SpendOutputs \/ Unroll \/ LockExpires \/ Crash
    BY <1>5, EnvironmentRecords
  <1>6. CASE UNCHANGED vars
    BY <1>6
    DEF RecordedInv, RecordedFacts, Ok, Answered, Finalizing, Visible, AnsweredAccepted,
        SeenFinalized, FinalizerKnows, vars, logVars, dbVars, redisVars, requestVars
  <1>. QED BY <1>1, <1>2, <1>3, <1>4, <1>5, <1>6 DEF Next, Step

\* FinalizationRecorded holds for any number of requests, however projections overlap
\* and fail, locks expire and the server restarts.
THEOREM FinalizationAlwaysRecorded == Spec => []FinalizationRecorded
  <1>1. Init => RecordedInv
    <2>1. Init => RecordedFacts
      BY SMTT(20), TxValues DEF Init, RecordedFacts, AnsweredAccepted, SeenFinalized, FinalizerKnows,
             Finalizing, Ok, Idle, Request, Undefined
    <2>. QED BY <2>1, TypeInit, CoveredInit
             DEF RecordedInv, CoveredInv, CoveredFacts, RecordedFacts
  <1>2. (Orderly => RecordedInv) /\ [Next]_vars => (Orderly => RecordedInv)'
    <2>1. [Next]_vars /\ Orderly' => Orderly
      BY DEF Next, vars, Orderly
    <2>2. Orderly /\ RecordedInv /\ [Next]_vars => RecordedInv'
      BY RecordedStep, CoveredStep, TypeStep
      DEF RecordedInv, RecordedFacts, CoveredInv, CoveredFacts
    <2>. QED BY <2>1, <2>2
  <1>3. (Orderly => RecordedInv) => FinalizationRecorded
    BY DEF RecordedInv, FinalizerKnows, FinalizationRecorded
  <1>. QED BY <1>1, <1>2, <1>3, PTL DEF Spec

-----------------------------------------------------------------------------
(* The tx is finalized once.                                               *)

OnceInv == CoveredInv /\ OnceFacts

\* What the invariant says.
LEMMA OnceParts ==
    ASSUME OnceInv
    PROVE  /\ TypeOK /\ SpentBeforeRemoved /\ SectionExclusive /\ SectionKnows
           /\ FinalizerChanges /\ AnsweredCovered
           /\ BegunCovered /\ SectionStarts /\ BehindLog /\ RowFirst
           /\ TakeTurns /\ NoneDecides /\ NextSees /\ AtMostOne /\ finals \in Nat
  BY DEF OnceInv, CoveredInv, OnceFacts, TypeOK

\* Finalizations keep their turns if none of them moves.
LEMMA TurnsKept ==
    ASSUME OnceInv, UNCHANGED <<finals, lock>>, overwritten => overwritten',
           \A f \in Finalizer : pc'[f] = pc[f] /\ change'[f] = change[f] /\ answer'[f] = answer[f]
    PROVE  TakeTurns' /\ NoneDecides'
  <1>1. \A f \in Finalizer : (Deciding(f)' <=> Deciding(f)) /\ (Finalizing(f)' <=> Finalizing(f))
    BY DEF Deciding, Finalizing
  <1>2. TakeTurns'
    BY <1>1, OnceParts DEF TakeTurns
  <1>3. NoneDecides'
    BY <1>1, OnceParts DEF NoneDecides
  <1>. QED BY <1>2, <1>3

\* The database keeps up with the log if neither changes.
LEMMA DatabaseKept ==
    ASSUME OnceInv, UNCHANGED <<stored, finals, row, overwritten, proj>>
    PROVE  /\ BehindLog' /\ AtMostOne'
           /\ UNCHANGED cached => RowFirst'
  <1>1. BehindLog' /\ AtMostOne'
    BY OnceParts DEF BehindLog, Visible, AtMostOne
  <1>2. UNCHANGED cached => RowFirst'
    BY OnceParts DEF RowFirst
  <1>. QED BY <1>1, <1>2

\* The database stays behind a log that grows.
LEMMA BehindKept ==
    ASSUME OnceInv,
           \/ UNCHANGED <<stored, finals>>
           \/ /\ stored'.stage = "finalized" => ~stored'.failed /\ finals' > 0
              /\ Visible(stored) => Visible(stored')
              /\ stored = Finalized => stored' = Finalized,
           row' = row \/ \E q \in Request : row' = proj[q].tx,
           \A q \in Request : proj'[q].tx \in {Undefined, stored', proj[q].tx}
    PROVE  BehindLog'
  <1>1. BehindLog
    BY OnceParts
  <1>2. /\ stored'.stage = "finalized" => ~stored'.failed /\ finals' > 0
        /\ Visible(stored) => Visible(stored')
        /\ stored = Finalized => stored' = Finalized
    BY <1>1 DEF BehindLog
  <1>3. ~Visible(Undefined) /\ Undefined # Finalized
    BY DEF Visible, Undefined, Finalized
  <1>4. \A q \in Request : /\ Visible(proj[q].tx) => Visible(stored')
                           /\ proj[q].tx = Finalized => stored' = Finalized
    BY <1>1, <1>2 DEF BehindLog
  <1>5. Visible(row') => Visible(stored')
    BY <1>1, <1>2, <1>4 DEF BehindLog
  <1>6. row' = Finalized => stored' = Finalized
    BY <1>1, <1>2, <1>4 DEF BehindLog
  <1>7. \A q \in Request : /\ Visible(proj'[q].tx) => Visible(stored')
                           /\ proj'[q].tx = Finalized => stored' = Finalized
    BY <1>3, <1>4
  <1>. QED BY <1>2, <1>5, <1>6, <1>7 DEF BehindLog, Visible

\* What a request may do to itself and to the lock, with all else as it is.
OnlyRequest(r) ==
    /\ UNCHANGED <<logVars, row, overwritten, spentIns, cached, proj>>
    /\ \A q \in Request \ {r} : pc'[q] = pc[q] /\ change'[q] = change[q] /\ answer'[q] = answer[q]

\* A step of a submission that leaves the cache and the log alone.
LEMMA SubmitterMoves ==
    ASSUME OnceInv, NEW s \in Submitter, OnlyRequest(s), UNCHANGED lock,
           pc'[s] \in {"cacheFree", "fresh"} => cached = Undefined,
           pc'[s] = "fresh" => ~Begun,
           pc'[s] = "saving" => change'[s] = "reject",
           change'[s] # "finalize"
    PROVE  OnceFacts'
  <1>1. /\ UNCHANGED <<stored, finals, row, overwritten, spentIns, cached, proj, lock>>
        /\ \A f \in Finalizer : pc'[f] = pc[f] /\ change'[f] = change[f] /\ answer'[f] = answer[f]
        /\ \A u \in Submitter \ {s} : pc'[u] = pc[u] /\ change'[u] = change[u] /\ answer'[u] = answer[u]
    BY RequestsAssumption DEF OnlyRequest, logVars, Request
  <1>2. /\ Begun' <=> Begun
        /\ NextToRead' <=> NextToRead
        /\ \A f \in Finalizer : (Deciding(f)' <=> Deciding(f)) /\ (Finalizing(f)' <=> Finalizing(f))
    BY SMTT(20), <1>1 DEF Begun, NextToRead, Deciding, Finalizing, Visible
  <1>3. BegunCovered'
    BY <1>1, <1>2, OnceParts DEF BegunCovered
  <1>4. SectionStarts'
    BY <1>1, <1>2, OnceParts DEF SectionStarts, Ok
  <1>5. BehindLog' /\ RowFirst' /\ AtMostOne'
    BY <1>1, DatabaseKept
  <1>6. TakeTurns' /\ NoneDecides'
    BY <1>1, TurnsKept
  <1>7. NextSees'
    BY <1>1, <1>2, OnceParts DEF NextSees, Visible
  <1>. QED BY <1>3, <1>4, <1>5, <1>6, <1>7 DEF OnceFacts

\* The tx enters the cache while nothing of it is in the log.
LEMMA AddsOnce ==
    ASSUME OnceInv, NEW s \in Submitter, SubmitAdds(s)
    PROVE  OnceFacts'
  <1>1. /\ UNCHANGED <<stored, finals, row, overwritten, spentIns, proj, lock>>
        /\ cached' \in {Accepted, Finalized}
        /\ pc[s] = "fresh" /\ pc'[s] = "saving" /\ answer'[s] = "ok"
        /\ \/ change'[s] = "oneShot" /\ cached' = Finalized
           \/ change'[s] = "accept"
        /\ \A q \in Request \ {s} : pc'[q] = pc[q] /\ change'[q] = change[q] /\ answer'[q] = answer[q]
    BY Types, OnceParts DEF Request, SubmitAdds, Go, Tell, logVars, dbVars
  <1>2. /\ ~Begun /\ finals = 0 /\ ~Visible(stored)
        /\ \A r \in Request : proj[r].tx # Finalized
    <2>1. ~Begun
      BY <1>1, OnceParts DEF SectionStarts
    <2>2. finals = 0 /\ ~Visible(stored)
      BY SMTT(20), <2>1, OnceParts DEF Begun
    <2>3. Visible(Finalized)
      BY DEF Visible, Finalized
    <2>. QED BY <2>1, <2>2, <2>3, OnceParts DEF BehindLog
  <1>3. /\ \A f \in Finalizer : pc'[f] = pc[f] /\ change'[f] = change[f] /\ answer'[f] = answer[f]
        /\ \A u \in Submitter \ {s} : pc'[u] = pc[u] /\ change'[u] = change[u] /\ answer'[u] = answer[u]
        /\ \A u \in Submitter \ {s} : ~InSection(u)
    <2>1. InSection(s) /\ s \notin Finalizer
      BY <1>1, RequestsAssumption DEF InSection
    <2>2. \A u \in Submitter \ {s} : ~InSection(u)
      BY <2>1, OnceParts DEF SectionExclusive
    <2>. QED BY <1>1, <2>1, <2>2 DEF Request
  <1>4. Begun' <=> Begun
    BY <1>1, <1>3 DEF Begun, Deciding, Visible
  <1>5. SectionStarts'
    <2>1. \A u \in Submitter \ {s} :
             /\ pc'[u] \notin {"cacheFree", "fresh"}
             /\ ~(pc'[u] = "saving" /\ change'[u] = "oneShot")
      BY <1>3 DEF InSection
    <2>2. \A u \in Submitter \ {s} :
             /\ pc'[u] = "saving" /\ change'[u] = "accept" => Ok(u)'
             /\ change'[u] # "finalize"
      BY <1>3, OnceParts DEF SectionStarts, Ok
    <2>. QED BY <1>1, <1>2, <1>4, <2>1, <2>2 DEF SectionStarts, Ok
  <1>6. BegunCovered' /\ RowFirst'
    BY <1>1, <1>2, <1>4, OnceParts DEF BegunCovered, RowFirst
  <1>7. BehindLog' /\ AtMostOne'
    BY <1>1, DatabaseKept
  <1>8. TakeTurns' /\ NoneDecides'
    BY <1>1, <1>3, TurnsKept
  <1>9. NextSees'
    BY SMTT(20), <1>1, <1>2 DEF NextSees
  <1>. QED BY <1>5, <1>6, <1>7, <1>8, <1>9 DEF OnceFacts

\* A submission keeps the facts about the single finalization.
LEMMA SubmitOnce ==
    ASSUME Steady, OnceInv, NEW s \in Submitter, SubmitStep(s)
    PROVE  OnceFacts'
  <1>0. /\ s \in Request /\ TypeOK /\ change[s] # "finalize"
        /\ pc[s] \in {"cacheFree", "fresh"} => cached = Undefined
    BY OnceParts DEF Request, SectionStarts
  <1>1. ASSUME SubmitGivesUp(s)  PROVE OnceFacts'
    <2>1. /\ OnlyRequest(s) /\ UNCHANGED lock
          /\ pc'[s] \in {"done", "saving"}
          /\ pc'[s] = "saving" => change'[s] = "reject"
      BY <1>0, <1>1, Types DEF SubmitGivesUp, OnlyRequest, Go, Tell, logVars, dbVars, redisVars
    <2>2. change'[s] \in {"reject", change[s]}
      BY <1>0, <1>1, Types DEF SubmitGivesUp
    <2>. QED BY SMTT(20), <1>0, <2>1, <2>2, SubmitterMoves
  <1>2. ASSUME NEW x \in {"rowRead", "vtxosRead", "requested", "signed", "done"}, Go(s, x),
               UNCHANGED <<logVars, row, overwritten, spentIns, cached, lock, proj, change>>,
               \A q \in Request \ {s} : answer'[q] = answer[q]
        PROVE  OnceFacts'
    <2>1. OnlyRequest(s) /\ pc'[s] = x /\ change'[s] = change[s]
      BY <1>0, <1>2, Types DEF OnlyRequest, Go
    <2>. QED BY <1>0, <1>2, <2>1, SubmitterMoves
  <1>3. CASE SubmitReadsRow(s)
    BY <1>0, <1>2, <1>3, Types DEF SubmitReadsRow, Refuse, Tell, dbVars, redisVars
  <1>4. CASE SubmitReadsVtxos(s)
    BY <1>0, <1>2, <1>4 DEF SubmitReadsVtxos, dbVars, redisVars
  <1>5. CASE SubmitReadsCache(s)
    BY <1>0, <1>2, <1>5, Types DEF SubmitReadsCache, Refuse, Tell, dbVars, redisVars
  <1>6. CASE SubmitSigns(s)
    BY <1>0, <1>2, <1>6 DEF SubmitSigns, dbVars, redisVars
  <1>7. CASE SubmitFails(s)
    BY <1>1, <1>7 DEF SubmitFails
  <1>8. CASE SubmitRereadsCache(s)
    <2>1. CASE cached = Undefined
      <3>1. OnlyRequest(s) /\ UNCHANGED lock /\ pc'[s] = "cacheFree" /\ change'[s] = change[s]
        BY <1>0, <1>8, <2>1, Types DEF SubmitRereadsCache, OnlyRequest, Go, dbVars, redisVars
      <3>. QED BY <1>0, <2>1, <3>1, SubmitterMoves
    <2>. QED BY <1>1, <1>8, <2>1 DEF SubmitRereadsCache
  <1>9. CASE SubmitRereadsVtxos(s)
    <2>1. CASE ~spentIns /\ ~unrolled
      <3>1. OnlyRequest(s) /\ UNCHANGED lock /\ pc'[s] = "fresh" /\ change'[s] = change[s]
        BY <1>0, <1>9, <2>1, Types DEF SubmitRereadsVtxos, OnlyRequest, Go, dbVars, redisVars
      <3>2. cached = Undefined /\ ~Begun
        BY <1>0, <1>9, <2>1, OnceParts DEF SubmitRereadsVtxos, BegunCovered
      <3>. QED BY <1>0, <3>1, <3>2, SubmitterMoves
    <2>. QED BY <1>1, <1>9, <2>1 DEF SubmitRereadsVtxos
  <1>10. CASE SubmitAdds(s)
    BY <1>10, AddsOnce
  <1>. QED BY <1>3, <1>4, <1>5, <1>6, <1>7, <1>8, <1>9, <1>10 DEF SubmitStep

\* A step of a finalization that leaves the cache and the log alone.
LEMMA FinalizerMoves ==
    ASSUME OnceInv, NEW f \in Finalizer, OnlyRequest(f),
           Deciding(f)' => Begun \/ cached = Accepted,
           \/ lock' = lock /\ (Finalizing(f)' => Finalizing(f))
           \/ ~lock /\ lock'
           \/ Finalizing(f) /\ ~Finalizing(f)',
           pc'[f] = "saving" /\ change'[f] = "finalize" => answer'[f] = "ok",
           finals > 0 /\ ~overwritten /\ Deciding(f)' =>
              pc'[f] \in {"published", "returning"} /\ answer'[f] = "ok",
           finals > 0 /\ ~overwritten /\ (pc'[f] \in {"locked", "cacheMiss"} \/ lock' # lock) => NextToRead
    PROVE  OnceFacts'
  <1>1. /\ UNCHANGED <<stored, finals, row, overwritten, spentIns, cached, proj>>
        /\ \A s \in Submitter : pc'[s] = pc[s] /\ change'[s] = change[s] /\ answer'[s] = answer[s]
        /\ \A g \in Finalizer \ {f} : pc'[g] = pc[g] /\ change'[g] = change[g] /\ answer'[g] = answer[g]
    BY RequestsAssumption DEF OnlyRequest, logVars, Request
  <1>2. \A g \in Finalizer \ {f} : (Deciding(g)' <=> Deciding(g)) /\ (Finalizing(g)' <=> Finalizing(g))
    BY <1>1 DEF Deciding, Finalizing
  <1>3. Begun' => Begun \/ cached = Accepted
    BY <1>1, <1>2 DEF Begun, Visible
  <1>4. BegunCovered'
    BY <1>1, <1>3, TxValues, OnceParts DEF BegunCovered
  <1>5. SectionStarts'
    BY <1>1, <1>3, TxValues, OnceParts DEF SectionStarts, Ok
  <1>6. BehindLog' /\ RowFirst' /\ AtMostOne'
    BY <1>1, DatabaseKept
  <1>7. TakeTurns'
    <2>1. CASE lock' = lock /\ (Finalizing(f)' => Finalizing(f))
      <3>1. \A g \in Finalizer : Finalizing(g)' => Finalizing(g)
        BY <1>2, <2>1
      <3>. QED BY <1>1, <2>1, <3>1, OnceParts DEF TakeTurns
    <2>2. CASE ~lock /\ lock'
      <3>1. finals = 0 => \A g \in Finalizer : Finalizing(g)' => g = f
        BY <1>2, <2>2, OnceParts DEF TakeTurns
      <3>. QED BY <1>1, <2>2, <3>1 DEF TakeTurns
    <2>3. CASE Finalizing(f) /\ ~Finalizing(f)'
      <3>1. finals = 0 => \A g \in Finalizer : ~Finalizing(g)'
        BY <1>2, <2>3, OnceParts DEF TakeTurns
      <3>. QED BY <1>1, <3>1 DEF TakeTurns
    <2>. QED BY <2>1, <2>2, <2>3
  <1>8. NoneDecides'
    BY <1>1, <1>2, OnceParts DEF NoneDecides
  <1>9. NextSees'
    <2>1. finals > 0 /\ ~overwritten /\ NextToRead' => NextToRead
      BY <1>1 DEF NextToRead
    <2>. QED BY <1>1, <2>1, OnceParts DEF NextSees, Visible
  <1>. QED BY <1>4, <1>5, <1>6, <1>7, <1>8, <1>9 DEF OnceFacts

\* A finalization up to its save keeps the facts about the single finalization.
LEMMA FinalizeOnce ==
    ASSUME Steady, OnceInv, NEW f \in Finalizer, FinalizeStep(f)
    PROVE  OnceFacts'
  <1>0. f \in Request /\ TypeOK /\ "redis" \notin faults
    BY OnceParts DEF Request, Steady
  <1>1. CASE FinalizeLocks(f)
    <2>1. OnlyRequest(f) /\ ~lock /\ lock' /\ pc'[f] = "locked"
      BY <1>0, <1>1, Types DEF FinalizeLocks, OnlyRequest, Go, logVars, dbVars
    <2>. QED BY <2>1, FinalizerMoves DEF Deciding, NextToRead
  <1>2. CASE FinalizeTimesOut(f)
    <2>1. OnlyRequest(f) /\ lock' = lock /\ pc'[f] = "done"
      BY <1>0, <1>2, Types DEF FinalizeTimesOut, OnlyRequest, Go, Tell, logVars, dbVars, redisVars
    <2>. QED BY <2>1, FinalizerMoves DEF Deciding, Finalizing
  <1>3. ASSUME pc[f] \in {"locked", "cacheMiss"}, NEW a, FinalizeEnds(f, a)
        PROVE  OnceFacts'
    <2>1. OnlyRequest(f) /\ pc'[f] = "done"
      BY <1>0, <1>3, Types DEF FinalizeEnds, OnlyRequest, Go, Tell, logVars, dbVars
    <2>. QED BY <1>3, <2>1, FinalizerMoves DEF Deciding, Finalizing, NextToRead
  <1>4. ASSUME pc[f] \in {"locked", "cacheMiss"}, FinalizeGoesOn(f),
               cached = Accepted \/ (Visible(row) /\ row # Finalized)
        PROVE  OnceFacts'
    <2>1. OnlyRequest(f) /\ lock' = lock /\ pc'[f] = "checking"
      BY <1>0, <1>4, Types DEF FinalizeGoesOn, OnlyRequest, Go, logVars, dbVars, redisVars
    <2>2. Begun \/ cached = Accepted
      BY <1>4, OnceParts DEF BehindLog, Begun
    <2>3. ~(finals > 0 /\ ~overwritten)
      BY <1>4, OnceParts DEF NextSees, NextToRead
    <2>. QED BY <1>4, <2>1, <2>2, <2>3, FinalizerMoves DEF Finalizing
  <1>5. CASE FinalizeReadsCache(f)
    <2>1. CASE cached = Undefined /\ Go(f, "cacheMiss") /\ ~(FinalizeEnds(f, "error"))
      <3>1. OnlyRequest(f) /\ lock' = lock /\ pc'[f] = "cacheMiss"
        BY <1>0, <1>5, <2>1, TxValues, Types
        DEF FinalizeReadsCache, OnlyRequest, Go, logVars, dbVars, redisVars
      <3>. QED BY <1>5, <3>1, FinalizerMoves DEF FinalizeReadsCache, Deciding, Finalizing, NextToRead
    <2>2. cached \in {Undefined, Accepted, Finalized}
      BY <1>0 DEF TypeOK
    <2>. QED BY <1>3, <1>4, <1>5, <2>1, <2>2 DEF FinalizeReadsCache
  <1>6. CASE FinalizeReadsRow(f)
    BY <1>3, <1>4, <1>6 DEF FinalizeReadsRow
  <1>7. CASE FinalizeDecides(f)
    <2>1. /\ OnlyRequest(f) /\ lock' = lock /\ pc[f] = "checking" /\ pc'[f] = "saving"
          /\ change'[f] = "finalize" => answer'[f] = "ok"
      BY <1>0, <1>7, Types DEF FinalizeDecides, OnlyRequest, Go, Tell, logVars, dbVars, redisVars
    <2>2. Begun /\ ~(finals > 0 /\ ~overwritten)
      BY <2>1, OnceParts DEF NoneDecides, Begun, Deciding
    <2>. QED BY <2>1, <2>2, FinalizerMoves DEF Finalizing
  <1>. QED BY <1>1, <1>2, <1>5, <1>6, <1>7 DEF FinalizeStep

\* Which events make a tx accepted or finalized.
LEMMA ReplayOnly ==
    ASSUME NEW tx \in Tx, NEW c \in Change
    PROVE  /\ c \in {"reject", "fail"} => (Visible(Replay(c, tx)) => Visible(tx))
           /\ c \notin {"oneShot", "finalize"} =>
                 (Replay(c, tx).stage = "finalized" => tx.stage = "finalized")
  BY DEF Replay, Change, OnRequested, OnAccepted, OnFinalized, OnFailed, Visible, Accepted,
         Finalized, Tx, Stage

\* What Publish does, and what the replay makes of the log.
Published(r) ==
    /\ UNCHANGED <<row, overwritten, spentIns, cached, lock, proj, change, answer>>
    /\ pc[r] = "saving" /\ pc'[r] = "published"
    /\ \A q \in Request \ {r} : pc'[q] = pc[q]
    /\ finals' = IF change[r] \in {"oneShot", "finalize"} THEN finals + 1 ELSE finals
    /\ Visible(stored) => Visible(stored')
    /\ stored = Finalized => stored' = Finalized
    /\ stored'.stage = "finalized" => ~stored'.failed /\ finals' > 0
    /\ change[r] = "oneShot" => stored' = Finalized
    /\ change[r] \in {"reject", "fail"} => (Visible(stored') => Visible(stored))

\* The replay never takes a finalized tx back.
LEMMA PublishEffect ==
    ASSUME OnceInv, NEW r \in Request, Publish(r)
    PROVE  Published(r)
  <1>1. stored \in Tx /\ finals \in Nat /\ change[r] \in Change
    BY Types, OnceParts DEF TypeOK
  <1>2. /\ UNCHANGED <<row, overwritten, spentIns, cached, lock, proj, change, answer>>
        /\ pc[r] = "saving" /\ pc'[r] = "published"
        /\ \A q \in Request \ {r} : pc'[q] = pc[q]
        /\ finals' = IF change[r] \in {"oneShot", "finalize"} THEN finals + 1 ELSE finals
        /\ stored' = Replay(change[r], stored)
    BY Types, OnceParts DEF Publish, Go, dbVars, redisVars
  <1>3. stored.stage = "finalized" => ~stored.failed /\ finals > 0
    BY OnceParts DEF BehindLog
  <1>4. /\ Visible(stored) => Visible(stored')
        /\ stored = Finalized => stored' = Finalized
        /\ stored'.stage = "finalized" => ~stored'.failed
        /\ change[r] = "oneShot" => stored' = Finalized
        /\ change[r] \in {"reject", "fail"} => (Visible(stored') => Visible(stored))
    BY <1>1, <1>2, <1>3, ReplayFacts, ReplayOnly
  <1>5. stored'.stage = "finalized" => finals' > 0
    <2>1. CASE change[r] \in {"oneShot", "finalize"}
      BY SMTT(20), <1>1, <1>2, <2>1
    <2>2. CASE change[r] \notin {"oneShot", "finalize"}
      BY <1>1, <1>2, <1>3, <2>2, ReplayOnly
    <2>. QED BY <2>1, <2>2
  <1>. QED BY <1>2, <1>4, <1>5 DEF Published

\* The events of a submission reach the log.
LEMMA SubmitterPublishes ==
    ASSUME OnceInv, NEW s \in Submitter, Published(s)
    PROVE  OnceFacts'
  <1>1. /\ \A f \in Finalizer : pc'[f] = pc[f]
        /\ \A u \in Submitter \ {s} : pc'[u] = pc[u]
        /\ UNCHANGED <<row, overwritten, spentIns, cached, lock, proj, change, answer>>
    BY RequestsAssumption DEF Published, Request
  <1>2. /\ \A f \in Finalizer : (Deciding(f)' <=> Deciding(f)) /\ (Finalizing(f)' <=> Finalizing(f))
        /\ NextToRead' <=> NextToRead
    BY <1>1 DEF Deciding, Finalizing, NextToRead
  <1>3. finals \in Nat /\ change[s] \in {"accept", "oneShot", "reject", "fail"}
    BY Types, OnceParts DEF TypeOK, SectionStarts, Request, Change
  <1>4. CASE change[s] = "oneShot"
    <2>1. /\ finals = 0 /\ finals' = 1 /\ stored' = Finalized /\ cached = Finalized
          /\ \A f \in Finalizer : ~Deciding(f)
          /\ ~Visible(row)
          /\ \A r \in Request : ~Visible(proj[r].tx)
      <3>1. pc[s] = "saving" /\ cached = Finalized /\ ~Begun
        BY <1>4, OnceParts DEF Published, SectionStarts
      <3>2. ~Visible(stored) /\ finals = 0 /\ \A f \in Finalizer : ~Deciding(f)
        BY SMTT(20), <1>3, <3>1 DEF Begun
      <3>3. finals' = 1 /\ stored' = Finalized
        BY SMTT(20), <1>4, <3>2 DEF Published
      <3>4. ~Visible(row) /\ \A r \in Request : ~Visible(proj[r].tx)
        BY <3>2, OnceParts DEF BehindLog
      <3>. QED BY <3>1, <3>2, <3>3, <3>4
    <2>2. \A u \in Submitter \ {s} : ~InSection(u)
      BY SMTT(20), <1>4, RequestsAssumption, OnceParts DEF Published, SectionExclusive, InSection
    <2>3. SectionStarts'
      BY <1>1, <2>2, OnceParts DEF Published, SectionStarts, InSection, Ok
    <2>4. BegunCovered' /\ RowFirst' /\ AtMostOne'
      <3>1. BegunCovered'
        BY <1>1, <2>1, TxValues DEF BegunCovered
      <3>2. RowFirst'
        BY <1>1, OnceParts DEF RowFirst
      <3>3. AtMostOne'
        BY SMTT(20), <2>1 DEF AtMostOne
      <3>. QED BY <3>1, <3>2, <3>3
    <2>5. BehindLog'
      BY <1>1, BehindKept DEF Published
    <2>6. TakeTurns' /\ NoneDecides' /\ NextSees'
      BY <1>1, <1>2, <2>1, TxValues, OnceParts DEF TakeTurns, NoneDecides, NextSees, Visible, Deciding
    <2>. QED BY <2>3, <2>4, <2>5, <2>6 DEF OnceFacts
  <1>5. CASE change[s] # "oneShot"
    <2>1. UNCHANGED finals
      BY <1>3, <1>5 DEF Published
    <2>2. Begun => Begun'
      BY <1>1, <1>2, <2>1 DEF Begun, Published, Visible
    <2>3. Begun' => Begun \/ Ok(s)
      BY <1>1, <1>2, <1>3, <1>5, <2>1, OnceParts DEF Begun, Published, SectionStarts, Visible
    <2>4. Begun' => cached # Undefined \/ spentIns
      BY <2>3, OnceParts DEF AnsweredCovered, BegunCovered
    <2>5. \A u \in Submitter \ {s} :
             pc[u] = "fresh" \/ (pc[u] = "saving" /\ change[u] = "oneShot") => ~Begun'
      BY <2>3, OnceParts DEF SectionKnows, SectionStarts
    <2>6. BegunCovered' /\ SectionStarts'
      <3>1. BegunCovered'
        BY <1>1, <2>4 DEF BegunCovered
      <3>2. pc'[s] = "published" /\ SectionStarts
        BY OnceParts DEF Published
      <3>. QED BY <1>1, <2>5, <3>1, <3>2 DEF SectionStarts, Ok
    <2>7. BehindLog' /\ RowFirst' /\ AtMostOne'
      <3>1. BehindLog'
        BY <1>1, BehindKept DEF Published
      <3>2. RowFirst'
        BY <1>1, OnceParts DEF RowFirst
      <3>3. AtMostOne'
        BY <1>1, <2>1, OnceParts DEF AtMostOne
      <3>. QED BY <3>1, <3>2, <3>3
    <2>8. TakeTurns' /\ NoneDecides'
      BY <1>1, <2>1, TurnsKept
    <2>9. NextSees'
      BY SMTT(20), <1>1, <1>2, <2>1, OnceParts DEF Published, NextSees, Visible
    <2>. QED BY <2>6, <2>7, <2>8, <2>9 DEF OnceFacts
  <1>. QED BY <1>4, <1>5

\* The event of a finalization reaches the log: it is the first Finalized event, or the
\* failure of a tx that is not finalized.
LEMMA FinalizerPublishes ==
    ASSUME OnceInv, NEW f \in Finalizer, Published(f)
    PROVE  OnceFacts'
  <1>1. /\ \A s \in Submitter : pc'[s] = pc[s]
        /\ \A g \in Finalizer \ {f} : pc'[g] = pc[g]
        /\ UNCHANGED <<row, overwritten, spentIns, cached, lock, proj, change, answer>>
    BY RequestsAssumption DEF Published, Request
  <1>2. /\ Deciding(f) /\ Finalizing(f) /\ Deciding(f)' /\ Finalizing(f)'
        /\ \A g \in Finalizer \ {f} : (Deciding(g)' <=> Deciding(g)) /\ (Finalizing(g)' <=> Finalizing(g))
    BY <1>1 DEF Published, Deciding, Finalizing
  <1>3. Begun /\ Begun'
    BY <1>2 DEF Begun
  <1>4. ~overwritten => finals = 0
    <2>1. ~overwritten => ~(finals > 0)
      BY <1>2, OnceParts DEF Published, NoneDecides
    <2>2. finals \in Nat
      BY OnceParts
    <2>. QED BY SMTT(20), <2>1, <2>2
  <1>5. finals = 0 => lock /\ \A g \in Finalizer \ {f} : ~Finalizing(g) /\ ~Deciding(g)
    BY <1>2, OnceParts DEF TakeTurns, Deciding, Finalizing
  <1>6. BegunCovered' /\ SectionStarts'
    BY <1>1, <1>3, OnceParts DEF BegunCovered, SectionStarts, Ok
  <1>7. BehindLog' /\ RowFirst'
    <2>1. BehindLog'
      BY <1>1, BehindKept DEF Published
    <2>2. RowFirst'
      BY <1>1, OnceParts DEF RowFirst
    <2>. QED BY <2>1, <2>2
  <1>8. TakeTurns'
    <2>1. finals' = 0 => finals = 0
      BY SMTT(20), OnceParts DEF Published
    <2>. QED BY <1>1, <1>2, <1>5, <2>1 DEF TakeTurns
  <1>9. NoneDecides'
    <2>1. pc'[f] = "published"
      BY DEF Published
    <2>2. \A g \in Finalizer : pc'[g] = "saving" /\ change'[g] = "finalize" => answer'[g] = "ok"
      BY <1>1, <2>1, OnceParts DEF NoneDecides
    <2>3. finals' > 0 /\ ~overwritten => answer[f] = "ok"
      <3>1. finals' > 0 /\ ~overwritten => change[f] \in {"oneShot", "finalize"}
        BY SMTT(20), <1>4 DEF Published
      <3>. QED BY <3>1, OnceParts DEF Published, NoneDecides, FinalizerChanges
    <2>. QED BY <1>1, <1>2, <1>4, <1>5, <2>1, <2>2, <2>3 DEF NoneDecides
  <1>10. AtMostOne'
    BY SMTT(20), <1>1, <1>4 DEF Published, AtMostOne
  <1>11. NextSees'
    <2>1. ~overwritten => ~NextToRead'
      BY SMTT(20), <1>1, <1>4, <1>5 DEF Published, NextToRead, Finalizing
    <2>. QED BY <1>1, <2>1 DEF NextSees
  <1>. QED BY <1>6, <1>7, <1>8, <1>9, <1>10, <1>11 DEF OnceFacts

\* A submission or a finalization that only goes on or returns.
LEMMA RequestEnds ==
    ASSUME OnceInv, NEW r \in Request, OnlyRequest(r),
           pc[r] \in {"saving", "published", "returning"}, pc'[r] \in {"returning", "done"},
           pc[r] = "saving" => pc'[r] = "returning",
           change'[r] = change[r],
           lock' = lock \/ (r \in Finalizer /\ pc'[r] = "done" /\ answer[r] = "error" /\ pc[r] = "returning"),
           r \in Finalizer /\ pc[r] # "saving" => answer'[r] = answer[r]
    PROVE  OnceFacts'
  <1>1. CASE r \in Submitter
    BY <1>1, RequestsAssumption, SubmitterMoves, OnceParts DEF SectionStarts
  <1>2. CASE r \in Finalizer
    <2>1. Deciding(r) /\ Finalizing(r) /\ (Deciding(r)' => pc'[r] = "returning")
      BY DEF Deciding, Finalizing
    <2>2. finals > 0 /\ ~overwritten => pc[r] # "saving" /\ answer[r] = "ok"
      BY <1>2, <2>1, OnceParts DEF NoneDecides
    <2>3. Begun
      BY <1>2, <2>1 DEF Begun
    <2>. QED BY <1>2, <2>1, <2>2, <2>3, FinalizerMoves DEF Finalizing
  <1>. QED BY <1>1, <1>2 DEF Request

\* A one-shot submission takes the tx back: nothing of it is in the log.
LEMMA OneShotTakenBack ==
    ASSUME OnceInv, NEW s \in Submitter, PublishFails(s), change[s] = "oneShot", Steady
    PROVE  OnceFacts'
  <1>1. /\ UNCHANGED <<stored, finals, row, overwritten, spentIns, proj, lock, change>>
        /\ cached' = Undefined
        /\ pc[s] = "saving" /\ pc'[s] = "returning"
        /\ \A q \in Request \ {s} : pc'[q] = pc[q] /\ answer'[q] = answer[q]
    BY Types, OnceParts DEF Request, PublishFails, Go, logVars, dbVars, Steady
  <1>2. ~Begun /\ finals = 0
    <2>1. ~Begun
      BY <1>1, OnceParts DEF SectionStarts
    <2>. QED BY SMTT(20), <2>1, OnceParts DEF Begun
  <1>3. /\ \A f \in Finalizer : pc'[f] = pc[f] /\ answer'[f] = answer[f]
        /\ \A u \in Submitter \ {s} : pc'[u] = pc[u] /\ answer'[u] = answer[u]
        /\ \A u \in Submitter \ {s} : ~InSection(u)
    BY <1>1, RequestsAssumption, OnceParts DEF Request, SectionExclusive, InSection
  <1>4. Begun' <=> Begun
    BY <1>1, <1>3 DEF Begun, Deciding, Visible
  <1>5. SectionStarts'
    <2>1. \A u \in Submitter \ {s} :
             /\ pc'[u] \notin {"cacheFree", "fresh"}
             /\ ~(pc'[u] = "saving" /\ change'[u] = "oneShot")
      BY <1>1, <1>3 DEF InSection
    <2>2. \A u \in Submitter \ {s} :
             /\ pc'[u] = "saving" /\ change'[u] = "accept" => Ok(u)'
             /\ change'[u] # "finalize"
      BY <1>1, <1>3, OnceParts DEF SectionStarts, Ok
    <2>. QED BY <1>1, <2>1, <2>2 DEF SectionStarts
  <1>6. BegunCovered' /\ RowFirst'
    BY <1>1, <1>2, <1>4, OnceParts DEF BegunCovered, RowFirst
  <1>7. BehindLog' /\ AtMostOne'
    BY <1>1, DatabaseKept
  <1>8. TakeTurns' /\ NoneDecides'
    BY <1>1, <1>3, TurnsKept
  <1>9. NextSees'
    BY SMTT(20), <1>1, <1>2 DEF NextSees
  <1>. QED BY <1>5, <1>6, <1>7, <1>8, <1>9 DEF OnceFacts

\* A step that leaves the requests and the log alone, as the facts see it.
LEMMA SameRequests ==
    ASSUME UNCHANGED <<stored, finals, pc>>
    PROVE  /\ Begun' <=> Begun
           /\ \A f \in Finalizer : (Deciding(f)' <=> Deciding(f)) /\ (Finalizing(f)' <=> Finalizing(f))
  BY DEF Begun, Deciding, Finalizing, Visible

\* The projection of the log starts with what the log replays to.
LEMMA DispatchOnce ==
    ASSUME Steady, OnceInv, NEW r \in Request, Dispatch(r)
    PROVE  OnceFacts'
  <1>1. /\ UNCHANGED <<stored, finals, row, overwritten, spentIns, cached, lock, change, answer>>
        /\ pc[r] = "published" /\ pc'[r] = "returning"
        /\ \A q \in Request \ {r} : pc'[q] = pc[q] /\ proj'[q] = proj[q]
        /\ proj'[r] = [step |-> "row", tx |-> stored]
    BY Types, OnceParts DEF Dispatch, Go, logVars, dbVars, redisVars, Steady
  <1>2. /\ \A f \in Finalizer : (Deciding(f)' <=> Deciding(f)) /\ (Finalizing(f)' <=> Finalizing(f))
        /\ NextToRead' <=> NextToRead
        /\ Begun' <=> Begun
    <2>1. \A f \in Finalizer : (Deciding(f)' <=> Deciding(f)) /\ (Finalizing(f)' <=> Finalizing(f))
      BY <1>1 DEF Deciding, Finalizing, Request
    <2>. QED BY <1>1, <2>1 DEF NextToRead, Begun, Visible, Request
  <1>3. BegunCovered' /\ SectionStarts'
    BY <1>1, <1>2, OnceParts DEF BegunCovered, SectionStarts, Ok, Request
  <1>4. BehindLog' /\ AtMostOne'
    <2>1. \A q \in Request : proj'[q].tx \in {Undefined, stored', proj[q].tx}
      BY SMTT(20), <1>1
    <2>. QED BY <1>1, <2>1, BehindKept, OnceParts DEF AtMostOne
  <1>5. RowFirst'
    <2>1. proj'[r].step = "row"
      BY <1>1
    <2>. QED BY <1>1, <2>1, OnceParts DEF RowFirst
  <1>6. TakeTurns' /\ NoneDecides'
    BY <1>1, <1>2, OnceParts DEF TakeTurns, NoneDecides, Request
  <1>7. NextSees'
    <2>1. proj'[r].tx = stored
      BY SMTT(20), <1>1
    <2>. QED BY <1>1, <1>2, <2>1, OnceParts DEF NextSees, Visible
  <1>. QED BY <1>3, <1>4, <1>5, <1>6, <1>7 DEF OnceFacts

\* A save keeps the facts about the single finalization.
LEMMA SaveOnce ==
    ASSUME Steady, OnceInv, NEW r \in Request, SaveStep(r)
    PROVE  OnceFacts'
  <1>0. TypeOK /\ "redis" \notin faults /\ (r \in Finalizer => change[r] # "oneShot")
    BY OnceParts DEF FinalizerChanges, Steady
  <1>1. CASE Publish(r)
    BY <1>1, PublishEffect, SubmitterPublishes, FinalizerPublishes DEF Request
  <1>2. CASE PublishFails(r) /\ change[r] = "oneShot"
    BY <1>0, <1>2, OneShotTakenBack DEF Request
  <1>3. CASE PublishFails(r) /\ change[r] # "oneShot"
    <2>1. /\ OnlyRequest(r) /\ lock' = lock /\ change'[r] = change[r]
          /\ pc[r] = "saving" /\ pc'[r] = "returning"
      BY <1>0, <1>3, Types DEF PublishFails, OnlyRequest, Go, logVars, dbVars
    <2>. QED BY <2>1, RequestEnds
  <1>4. CASE Dispatch(r)
    BY <1>4, DispatchOnce
  <1>5. CASE DispatchFails(r)
    <2>1. /\ OnlyRequest(r) /\ lock' = lock /\ change'[r] = change[r] /\ answer'[r] = answer[r]
          /\ pc[r] = "published" /\ pc'[r] = "returning"
      BY <1>0, <1>5, Types DEF DispatchFails, OnlyRequest, Go, logVars, dbVars, redisVars
    <2>. QED BY <2>1, RequestEnds
  <1>6. CASE Return(r)
    <2>1. /\ OnlyRequest(r) /\ change'[r] = change[r] /\ answer'[r] = answer[r]
          /\ pc[r] = "returning" /\ pc'[r] = "done"
          /\ lock' = lock \/ (r \in Finalizer /\ answer[r] = "error")
      BY <1>0, <1>6, Types DEF Return, OnlyRequest, Go, logVars, dbVars
    <2>. QED BY <2>1, RequestEnds
  <1>. QED BY <1>1, <1>2, <1>3, <1>4, <1>5, <1>6 DEF SaveStep

\* A step of the projection of r: the requests and the log stay as they are.
OnlyProjection(r) ==
    /\ UNCHANGED <<stored, finals, pc, change, answer>>
    /\ \A q \in Request \ {r} : proj'[q] = proj[q]

\* It ends, or keeps its tx.
LEMMA ThenOnce ==
    ASSUME OnceInv, NEW r \in Request, proj[r].step # "none", NEW step \in ProjectionStage, Then(r, step)
    PROVE  /\ \A q \in Request \ {r} : proj'[q] = proj[q]
           /\ proj'[r].step = step
           /\ proj'[r].tx = IF step = "none" THEN Undefined ELSE proj[r].tx
  BY Types, OnceParts DEF Then, Idle

\* What stays true while a projection writes to the database.
LEMMA ProjectionMoves ==
    ASSUME OnceInv, NEW r \in Request, OnlyProjection(r), UNCHANGED <<cached, lock>>,
           spentIns => spentIns',
           proj[r].step # "none",
           proj'[r].step \in {"none", "spend", "create", "remove"},
           proj'[r].tx \in {Undefined, proj[r].tx},
           \/ row' = row
           \/ proj[r].step = "row" /\ row' = proj[r].tx,
           overwritten' <=> overwritten \/ (row = Finalized /\ row' # Finalized),
           proj'[r].tx = Finalized /\ proj'[r].step # "none" => row' = Finalized \/ overwritten
    PROVE  OnceFacts'
  <1>1. /\ UNCHANGED <<stored, finals, pc, change, answer, cached, lock>>
        /\ \A q \in Request \ {r} : proj'[q] = proj[q]
    BY DEF OnlyProjection
  <1>2. /\ Begun' <=> Begun
        /\ \A f \in Finalizer : (Deciding(f)' <=> Deciding(f)) /\ (Finalizing(f)' <=> Finalizing(f))
    BY <1>1, SameRequests
  <1>3. BegunCovered' /\ SectionStarts'
    BY <1>1, <1>2, OnceParts DEF BegunCovered, SectionStarts, Ok
  <1>4. BehindLog' /\ AtMostOne'
    <2>1. \A q \in Request : proj'[q].tx \in {Undefined, stored', proj[q].tx}
      BY <1>1
    <2>. QED BY <1>1, <2>1, BehindKept, OnceParts DEF AtMostOne
  <1>5. RowFirst'
    <2>1. row = Finalized \/ overwritten => row' = Finalized \/ overwritten'
      OBVIOUS
    <2>2. proj'[r].step # "unlock"
      OBVIOUS
    <2>. QED BY <1>1, <2>1, <2>2, OnceParts DEF RowFirst
  <1>6. TakeTurns' /\ NoneDecides'
    BY <1>1, TurnsKept
  <1>7. NextSees'
    <2>1. NextToRead' <=> NextToRead
      BY SMTT(20), <1>1 DEF NextToRead
    <2>2. SUFFICES ASSUME finals > 0, NextToRead, ~overwritten, ~overwritten'
                   PROVE  /\ stored = Finalized /\ cached # Accepted
                          /\ \/ row' = Finalized
                             \/ /\ ~Visible(row')
                                /\ \A q \in Request :
                                      proj'[q].step = "row" /\ Visible(proj'[q].tx)
                                         => proj'[q].tx = Finalized
      BY <1>1, <2>1 DEF NextSees, Visible
    <2>3. /\ stored = Finalized /\ cached # Accepted
          /\ \/ row = Finalized
             \/ /\ ~Visible(row)
                /\ \A q \in Request :
                      proj[q].step = "row" /\ Visible(proj[q].tx) => proj[q].tx = Finalized
      BY <2>2, OnceParts DEF NextSees
    <2>4. \A q \in Request : proj'[q].step = "row" => proj'[q] = proj[q]
      BY <1>1
    <2>. QED BY <2>2, <2>3, <2>4
  <1>. QED BY <1>3, <1>4, <1>5, <1>6, <1>7 DEF OnceFacts

\* The handler removes the tx from the cache once its inputs are marked spent.
LEMMA RemovesOnce ==
    ASSUME Steady, OnceInv, NEW r \in Request, HandlerRemoves(r)
    PROVE  OnceFacts'
  <1>1. /\ UNCHANGED <<stored, finals, pc, change, answer, row, overwritten, spentIns, lock>>
        /\ proj[r].step = "remove"
        /\ cached' = IF proj[r].tx \in {Accepted, Finalized} THEN Undefined ELSE cached
        /\ Then(r, IF proj[r].tx = Finalized THEN "unlock" ELSE "none")
    BY DEF HandlerRemoves, logVars, dbVars, requestVars, Steady
  <1>2. /\ \A q \in Request \ {r} : proj'[q] = proj[q]
        /\ \/ proj'[r].step = "none" /\ proj'[r].tx = Undefined
           \/ proj'[r].step = "unlock" /\ proj'[r].tx = Finalized /\ proj[r].tx = Finalized
    BY <1>1, ThenOnce DEF ProjectionStage
  <1>3. proj[r].tx \in {Accepted, Finalized} => spentIns /\ Begun
    <2>1. Visible(Accepted) /\ Visible(Finalized)
      BY DEF Visible, Accepted, Finalized
    <2>. QED BY <1>1, <2>1, OnceParts DEF SpentBeforeRemoved, BehindLog, Begun
  <1>4. /\ Begun' <=> Begun
        /\ \A f \in Finalizer : (Deciding(f)' <=> Deciding(f)) /\ (Finalizing(f)' <=> Finalizing(f))
    BY <1>1, SameRequests
  <1>5. BegunCovered' /\ SectionStarts'
    BY <1>1, <1>3, <1>4, OnceParts DEF BegunCovered, SectionStarts, Ok
  <1>6. BehindLog' /\ AtMostOne'
    <2>1. \A q \in Request : proj'[q].tx \in {Undefined, stored', proj[q].tx}
      BY <1>2
    <2>. QED BY <1>1, <2>1, BehindKept, OnceParts DEF AtMostOne
  <1>7. RowFirst'
    BY <1>1, <1>2, OnceParts DEF RowFirst
  <1>8. TakeTurns' /\ NoneDecides'
    BY <1>1, TurnsKept
  <1>9. NextSees'
    BY <1>1, <1>2, TxValues, OnceParts DEF NextSees, NextToRead, Visible
  <1>. QED BY <1>5, <1>6, <1>7, <1>8, <1>9 DEF OnceFacts

\* It unlocks when the database and the cache show the tx finalized to who comes next.
LEMMA UnlocksOnce ==
    ASSUME Steady, OnceInv, NEW r \in Request, HandlerUnlocks(r)
    PROVE  OnceFacts'
  <1>1. /\ UNCHANGED <<stored, finals, pc, change, answer, row, overwritten, spentIns, cached>>
        /\ proj[r].step = "unlock" /\ Then(r, "none")
    BY DEF HandlerUnlocks, logVars, dbVars, requestVars, Steady
  <1>2. /\ \A q \in Request \ {r} : proj'[q] = proj[q]
        /\ proj'[r].step = "none" /\ proj'[r].tx = Undefined
    BY <1>1, ThenOnce DEF ProjectionStage
  <1>3. /\ stored = Finalized /\ cached = Undefined /\ (row = Finalized \/ overwritten)
        /\ finals > 0 /\ ~(finals = 0)
    <2>1. cached = Undefined /\ (row = Finalized \/ overwritten) /\ proj[r].tx = Finalized
      BY <1>1, OnceParts DEF RowFirst
    <2>2. stored = Finalized
      BY <2>1, OnceParts DEF BehindLog
    <2>3. finals > 0
      BY <2>2, OnceParts DEF BehindLog, Finalized
    <2>. QED BY SMTT(20), <2>1, <2>2, <2>3, OnceParts
  <1>4. /\ Begun' <=> Begun
        /\ \A f \in Finalizer : (Deciding(f)' <=> Deciding(f)) /\ (Finalizing(f)' <=> Finalizing(f))
    BY <1>1, SameRequests
  <1>5. BegunCovered' /\ SectionStarts'
    BY <1>1, <1>4, OnceParts DEF BegunCovered, SectionStarts, Ok
  <1>6. BehindLog' /\ AtMostOne'
    <2>1. \A q \in Request : proj'[q].tx \in {Undefined, stored', proj[q].tx}
      BY <1>2
    <2>. QED BY <1>1, <2>1, BehindKept, OnceParts DEF AtMostOne
  <1>7. RowFirst'
    BY <1>1, <1>2, OnceParts DEF RowFirst
  <1>8. TakeTurns' /\ NoneDecides'
    BY <1>1, <1>3, <1>4, OnceParts DEF TakeTurns, NoneDecides
  <1>9. NextSees'
    BY <1>1, <1>2, <1>3, TxValues DEF NextSees
  <1>. QED BY <1>5, <1>6, <1>7, <1>8, <1>9 DEF OnceFacts

\* A projection keeps the facts about the single finalization.
LEMMA ProjectionOnce ==
    ASSUME Steady, OnceInv, NEW r \in Request, ProjectionStep(r)
    PROVE  OnceFacts'
  <1>0. \A step \in {"spend", "create", "remove"} :
           proj[r].tx = Finalized /\ proj[r].step = step => row = Finalized \/ overwritten
    BY OnceParts DEF RowFirst
  <1>1. CASE ProjectRow(r)
    <2>1. /\ UNCHANGED <<stored, finals, pc, change, answer, cached, lock, spentIns>>
          /\ proj[r].step = "row" /\ (row' = row \/ row' = proj[r].tx)
          /\ proj[r].tx = Finalized => row' = Finalized
          /\ overwritten' <=> overwritten \/ (row = Finalized /\ row' # Finalized)
          /\ Then(r, IF proj[r].tx \in {Accepted, Finalized} THEN "spend" ELSE "remove")
      <3>1. Finalized.stage = "finalized"
        BY DEF Finalized
      <3>. QED BY <1>1, <3>1 DEF ProjectRow, logVars, redisVars, requestVars
    <2>2. /\ OnlyProjection(r) /\ proj'[r].step \in {"spend", "remove"} /\ proj'[r].tx = proj[r].tx
      BY <2>1, ThenOnce DEF OnlyProjection, ProjectionStage
    <2>. QED BY <2>1, <2>2, ProjectionMoves
  <1>2. CASE ProjectSpend(r)
    <2>1. /\ UNCHANGED <<stored, finals, pc, change, answer, cached, lock, row, overwritten>>
          /\ proj[r].step = "spend" /\ spentIns'
          /\ Then(r, IF proj[r].tx = Finalized THEN "create" ELSE "remove")
      BY <1>2 DEF ProjectSpend, logVars, redisVars, requestVars
    <2>2. /\ OnlyProjection(r) /\ proj'[r].step \in {"create", "remove"} /\ proj'[r].tx = proj[r].tx
      BY <2>1, ThenOnce DEF OnlyProjection, ProjectionStage
    <2>. QED BY <1>0, <2>1, <2>2, ProjectionMoves
  <1>3. CASE ProjectCreate(r)
    <2>1. /\ UNCHANGED <<stored, finals, pc, change, answer, cached, lock, row, overwritten, spentIns>>
          /\ proj[r].step = "create" /\ (Then(r, "remove") \/ Then(r, "none"))
      BY <1>3 DEF ProjectCreate, logVars, redisVars, requestVars
    <2>2. /\ OnlyProjection(r) /\ proj'[r].step \in {"remove", "none"}
          /\ proj'[r].tx \in {Undefined, proj[r].tx}
      BY <2>1, ThenOnce DEF OnlyProjection, ProjectionStage
    <2>3. proj'[r].tx = Finalized => proj[r].tx = Finalized
      BY <2>2 DEF Undefined, Finalized
    <2>. QED BY <1>0, <2>1, <2>2, <2>3, ProjectionMoves
  <1>4. CASE ProjectionFails(r)
    <2>1. /\ UNCHANGED <<stored, finals, pc, change, answer, cached, lock, row, overwritten, spentIns>>
          /\ proj[r].step # "none" /\ Then(r, "none")
      BY <1>4 DEF ProjectionFails, logVars, dbVars, redisVars, requestVars
    <2>2. /\ OnlyProjection(r) /\ proj'[r].step = "none" /\ proj'[r].tx = Undefined
      BY <2>1, ThenOnce DEF OnlyProjection, ProjectionStage
    <2>. QED BY <2>1, <2>2, ProjectionMoves
  <1>. QED BY <1>1, <1>2, <1>3, <1>4, RemovesOnce, UnlocksOnce DEF ProjectionStep

\* A restart keeps the facts about the single finalization: what is lost has not decided.
LEMMA CrashOnce ==
    ASSUME OnceInv, Crash
    PROVE  OnceFacts'
  <1>1. /\ UNCHANGED <<stored, finals, row, overwritten, spentIns, cached, lock, change>>
        /\ \A q \in Request : pc'[q] \in {"idle", "done"}
        /\ \A q \in Request : proj'[q].step = "none" /\ proj'[q].tx = Undefined
    BY DEF Crash, logVars, dbVars, redisVars, Idle
  <1>2. /\ Begun' => Begun
        /\ NextToRead' => NextToRead
        /\ \A f \in Finalizer : ~Deciding(f)' /\ ~Finalizing(f)'
    <2>1. \A f \in Finalizer : ~Deciding(f)' /\ ~Finalizing(f)'
      BY <1>1 DEF Deciding, Finalizing, Request
    <2>. QED BY <1>1, <2>1 DEF Begun, NextToRead, Visible, Request
  <1>3. BegunCovered' /\ SectionStarts'
    BY <1>1, <1>2, OnceParts DEF BegunCovered, SectionStarts, Request
  <1>4. BehindLog' /\ AtMostOne'
    BY <1>1, BehindKept, OnceParts DEF AtMostOne
  <1>5. RowFirst'
    BY <1>1 DEF RowFirst
  <1>6. TakeTurns' /\ NoneDecides'
    BY <1>1, <1>2 DEF TakeTurns, NoneDecides, Request
  <1>7. NextSees'
    BY <1>1, <1>2, OnceParts DEF NextSees, Visible
  <1>. QED BY <1>3, <1>4, <1>5, <1>6, <1>7 DEF OnceFacts

\* So does a step that none of them speaks of.
LEMMA OnceKept ==
    ASSUME OnceFacts,
           UNCHANGED <<stored, finals, pc, change, answer, row, overwritten, spentIns, cached, lock, proj>>
    PROVE  OnceFacts'
  <1>1. /\ Begun' <=> Begun
        /\ \A f \in Finalizer : (Deciding(f)' <=> Deciding(f)) /\ (Finalizing(f)' <=> Finalizing(f))
    BY SameRequests
  <1>2. BegunCovered' /\ SectionStarts'
    BY <1>1 DEF OnceFacts, BegunCovered, SectionStarts, Ok
  <1>3. BehindLog' /\ RowFirst' /\ AtMostOne'
    BY DEF OnceFacts, BehindLog, RowFirst, Visible, AtMostOne
  <1>4. TakeTurns' /\ NoneDecides'
    BY <1>1 DEF OnceFacts, TakeTurns, NoneDecides
  <1>5. NextSees'
    BY DEF OnceFacts, NextSees, NextToRead, Visible
  <1>. QED BY <1>2, <1>3, <1>4, <1>5 DEF OnceFacts

\* Every step keeps them.
LEMMA OnceStep ==
    ASSUME Steady, OnceInv, [Next]_vars
    PROVE  OnceFacts'
  <1>1. CASE \E s \in Submitter : SubmitStep(s)
    BY <1>1, SubmitOnce
  <1>2. CASE \E f \in Finalizer : FinalizeStep(f)
    BY <1>2, FinalizeOnce
  <1>3. CASE \E r \in Request : SaveStep(r) \/ ProjectionStep(r)
    BY <1>3, SaveOnce, ProjectionOnce
  <1>4. CASE SpendOutputs \/ Unroll \/ UNCHANGED vars
    <2>1. UNCHANGED <<stored, finals, pc, change, answer, row, overwritten, spentIns, cached, lock, proj>>
      BY <1>4 DEF SpendOutputs, Unroll, vars, logVars, dbVars, redisVars, requestVars
    <2>. QED BY <2>1, OnceKept DEF OnceInv
  <1>5. CASE Crash
    BY <1>5, CrashOnce
  <1>6. ~LockExpires
    BY DEF LockExpires, Steady
  <1>. QED BY <1>1, <1>2, <1>3, <1>4, <1>5, <1>6 DEF Next, Step

\* They hold when the server starts with empty stores.
LEMMA OnceInit ==
    ASSUME Init
    PROVE  OnceFacts
  <1>1. /\ stored = Undefined /\ finals = 0 /\ row = Undefined
        /\ \A r \in Request : pc[r] = "idle" /\ change[r] = "fail"
        /\ \A r \in Request : proj[r].step = "none" /\ proj[r].tx = Undefined
    BY DEF Init, Idle
  <1>2. \A f \in Finalizer : ~Deciding(f) /\ ~Finalizing(f)
    BY <1>1 DEF Deciding, Finalizing, Request
  <1>3. ~Begun
    BY SMTT(20), <1>1, <1>2 DEF Begun, Visible, Undefined
  <1>4. BegunCovered /\ SectionStarts
    BY <1>1, <1>3 DEF BegunCovered, SectionStarts, Request
  <1>5. BehindLog /\ RowFirst /\ AtMostOne
    <2>1. Undefined.stage \notin {"accepted", "finalized"} /\ Undefined # Finalized
      BY DEF Undefined, Finalized
    <2>2. BehindLog
      BY <1>1, <2>1 DEF BehindLog, Visible
    <2>3. RowFirst
      BY <1>1 DEF RowFirst
    <2>. QED BY SMTT(20), <1>1, <2>2, <2>3 DEF AtMostOne
  <1>6. TakeTurns /\ NoneDecides /\ NextSees
    BY SMTT(20), <1>1, <1>2 DEF TakeTurns, NoneDecides, NextSees, Request
  <1>. QED BY <1>4, <1>5, <1>6 DEF OnceFacts

\* OnceUnlessOverwritten holds for any number of requests: the lock and the reads under it
\* let one request append the Finalized event, although clients finalize early, the server
\* restarts, saves and projections fail and projections overtake each other.  A second
\* Finalized event has one cause, a projection that writes an older stage over the row.
THEOREM FinalizedAgainOnlyIfOverwritten == Spec => []OnceUnlessOverwritten
  <1>1. Init => OnceInv
    BY TypeInit, CoveredInit, OnceInit DEF OnceInv, CoveredInv, CoveredFacts
  <1>2. (Steady => OnceInv) /\ [Next]_vars => (Steady => OnceInv)'
    <2>1. [Next]_vars /\ Steady' => Steady
      BY DEF Next, vars, Steady
    <2>2. Steady /\ OnceInv /\ [Next]_vars => OnceInv'
      BY OnceStep, CoveredStep, TypeStep DEF OnceInv, CoveredInv, CoveredFacts
    <2>. QED BY <2>1, <2>2
  <1>3. (Steady => OnceInv) => OnceUnlessOverwritten
    BY DEF OnceInv, OnceFacts, AtMostOne, Steady, OnceUnlessOverwritten
  <1>. QED BY <1>1, <1>2, <1>3, PTL DEF Spec
=============================================================================
