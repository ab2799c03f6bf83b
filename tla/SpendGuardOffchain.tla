------------------------ MODULE SpendGuardOffchain ------------------------
(***************************************************************************)
(* TypeOK is an invariant of SpendGuard, and two offchain txs never spend  *)
(* the same vtxo, whatever else fails.                                     *)
(*                                                                         *)
(* OffchainInv is the inductive invariant.  It says that a tx the server   *)
(* signed is in the cache until the database has its inputs spent          *)
(* (OffchainVisible, which the handler of the projected events needs       *)
(* OffchainHandled to preserve), and what the holder of offchainTxMu       *)
(* therefore knows once it has read the cache and then the database        *)
(* (OffchainKnows).  No claim, no reservation and no step of the round     *)
(* loop appears in it, which is why no hypothesis on Faults is needed.     *)
(***************************************************************************)
EXTENDS SpendGuard, TLAPS

\* Most leaves are first-order: Zenon is tried before SMT.
USE Zenon, SMT

\* What the assumptions say of an offchain tx: it spends vtxos, at least one.
LEMMA OffchainTxKind ==
    ASSUME NEW t \in OffchainTx
    PROVE  /\ t \in Request /\ t \in Spender /\ t # NoOne
           /\ t \notin Intent /\ t \notin OnchainTx /\ t \notin Batch
           /\ Inputs[t] \subseteq Vtxo /\ Inputs[t] \subseteq Outpoint /\ Inputs[t] # {}
  BY SpendersAssumption, InputsAssumption DEF Request, Spender

\* What they say of an intent.
LEMMA IntentKind ==
    ASSUME NEW i \in Intent
    PROVE  /\ i \in Request /\ i # NoOne
           /\ i \notin OffchainTx /\ i \notin OnchainTx /\ i \notin Batch
           /\ Inputs[i] \subseteq Outpoint /\ Inputs[i] # {}
  BY SpendersAssumption, InputsAssumption DEF Request

\* What they say of an onchain tx to cosign.
LEMMA OnchainTxKind ==
    ASSUME NEW x \in OnchainTx
    PROVE  /\ x \in Request /\ x \in Spender /\ x # NoOne
           /\ x \notin OffchainTx /\ x \notin Intent /\ x \notin Batch
           /\ Inputs[x] \subseteq Outpoint /\ Inputs[x] # {}
  BY SpendersAssumption, InputsAssumption DEF Request, Spender

\* A batch is no request: it has its own place among the spenders.
LEMMA BatchKind ==
    ASSUME NEW b \in Batch
    PROVE  /\ b \in Spender /\ b \in Nat /\ b # 0 /\ b \in 0 .. MaxBatch
           /\ b \notin Request /\ b \notin OffchainTx /\ b \notin Intent /\ b \notin OnchainTx
           /\ b < MaxBatch => b + 1 \in Batch
  BY SMT, SpendersAssumption DEF Request, Spender, Batch

\* The outpoints a set of intents spends.
LEMMA IntentsInputs == ASSUME NEW S \in SUBSET Intent PROVE InputsOf(S) \subseteq Outpoint
  BY IntentKind DEF InputsOf

\* Batches are numbered from 1; 0 stands for none.
LEMMA BatchRange == MaxBatch \in Nat /\ 0 \in 0 .. MaxBatch /\ Batch \subseteq 0 .. MaxBatch /\ Batch \subseteq Nat
  BY SMT, SpendersAssumption DEF Batch

\* The next batch exists below the bound.
LEMMA FirstBatch == ASSUME NEW n \in 0 .. MaxBatch PROVE n \in Nat /\ (n # 0 => n \in Batch) /\ (n < MaxBatch => n + 1 \in Batch)
  BY SMT, SpendersAssumption DEF Batch

\* Every step keeps the types: one case per action.
LEMMA TypeStep == TypeOK /\ [Next]_vars => TypeOK'
<1> SUFFICES ASSUME TypeOK, [Next]_vars PROVE TypeOK'
  OBVIOUS
<1> USE BatchRange DEF TypeOK, RequestStep, LoopStep, redisVars, dbVars, requestVars,
        loopVars, projVars, historyVars
<1>1. ASSUME NEW t \in OffchainTx, SubmitOffchainTx(t) PROVE TypeOK'
  BY <1>1, OffchainTxKind DEF SubmitOffchainTx, Go, InOffCache, InClaims
<1>2. ASSUME NEW t \in OffchainTx, SubmitReadsCache(t) PROVE TypeOK'
  BY SMT, <1>2, OffchainTxKind DEF SubmitReadsCache, Go, Return, InOffCache
<1>3. ASSUME NEW t \in OffchainTx, SubmitReadsClaims(t) PROVE TypeOK'
  BY <1>3, OffchainTxKind DEF SubmitReadsClaims, Go, Return, InClaims
<1>4. ASSUME NEW t \in OffchainTx, SubmitReadsDb(t) PROVE TypeOK'
  BY <1>4, OffchainTxKind DEF SubmitReadsDb, Go, Return
<1>5. ASSUME NEW t \in OffchainTx, SubmitAdds(t) PROVE TypeOK'
  BY SMT, <1>5, OffchainTxKind DEF SubmitAdds, Go, Sign
<1>6. ASSUME NEW t \in OffchainTx, SubmitSavesOneShot(t) PROVE TypeOK'
  BY SMT, <1>6, OffchainTxKind DEF SubmitSavesOneShot, Return, Go, Sign
<1>7. ASSUME NEW t \in OffchainTx, SubmitSaves(t) PROVE TypeOK'
  BY <1>7, OffchainTxKind DEF SubmitSaves, Return, Go
<1>8. ASSUME NEW i \in Intent, RegisterIntent(i) PROVE TypeOK'
  BY <1>8, IntentKind DEF RegisterIntent, Go, InOffCache
<1>9. ASSUME NEW i \in Intent, RegisterReadsReserved(i) PROVE TypeOK'
  BY SMT, <1>9, IntentKind DEF RegisterReadsReserved, Go, Return, InReserved
<1>10. ASSUME NEW i \in Intent, RegisterReadsUtxos(i) PROVE TypeOK'
  BY <1>10, IntentKind DEF RegisterReadsUtxos, Go, Return, InUtxos
<1>11. ASSUME NEW i \in Intent, RegisterReadsCache(i) PROVE TypeOK'
  BY SMT, <1>11, IntentKind DEF RegisterReadsCache, Go, Return, InOffCache
<1>12. ASSUME NEW i \in Intent, RegisterReadsDb(i) PROVE TypeOK'
  BY <1>12, IntentKind DEF RegisterReadsDb, Go, Return
<1>13. ASSUME NEW i \in Intent, RegisterReadsReservedVtxos(i) PROVE TypeOK'
  BY <1>13, IntentKind DEF RegisterReadsReservedVtxos, Go, Return, InReserved
<1>14. ASSUME NEW i \in Intent, RegisterReadsUtxoVtxos(i) PROVE TypeOK'
  BY <1>14, IntentKind DEF RegisterReadsUtxoVtxos, Go, Return, InUtxos
<1>15. ASSUME NEW i \in Intent, RegisterPushes(i) PROVE TypeOK'
  BY SMT, <1>15, IntentKind DEF RegisterPushes, Return, Go, InClaims
<1>16. ASSUME NEW i \in Intent, DeleteIntent(i) PROVE TypeOK'
  BY <1>16, IntentKind DEF DeleteIntent
<1>17. ASSUME NEW x \in OnchainTx, CosignReserves(x) PROVE TypeOK'
  BY <1>17, OnchainTxKind DEF CosignReserves, Go, InReserved
<1>18. ASSUME NEW x \in OnchainTx, CosignReadsUtxos(x) PROVE TypeOK'
  BY <1>18, OnchainTxKind DEF CosignReadsUtxos, Go, CosignFails, Return, InUtxos
<1>19. ASSUME NEW x \in OnchainTx, CosignReadsCache(x) PROVE TypeOK'
  BY SMT, <1>19, OnchainTxKind DEF CosignReadsCache, Go, CosignFails, Return, InOffCache
<1>20. ASSUME NEW x \in OnchainTx, CosignReadsClaims(x) PROVE TypeOK'
  BY <1>20, OnchainTxKind DEF CosignReadsClaims, Go, CosignFails, Return, InClaims
<1>21. ASSUME NEW x \in OnchainTx, CosignReadsDb(x) PROVE TypeOK'
  BY <1>21, OnchainTxKind DEF CosignReadsDb, Go, CosignFails, Return
<1>22. ASSUME NEW x \in OnchainTx, CosignBroadcasts(x) PROVE TypeOK'
  BY SMT, <1>22, OnchainTxKind DEF CosignBroadcasts, Go, Sign, CosignFails, Return
<1>23. ASSUME NEW x \in OnchainTx, CosignSaves(x) PROVE TypeOK'
  BY <1>23, OnchainTxKind DEF CosignSaves, Return, Go, CosignFails
<1>24. ASSUME NEW t \in OffchainTx, ProjectOffchainTx(t) PROVE TypeOK'
  BY <1>24, OffchainTxKind DEF ProjectOffchainTx
<1>25. ASSUME NEW t \in OffchainTx, RemoveOffchainTx(t) PROVE TypeOK'
  BY <1>25, OffchainTxKind DEF RemoveOffchainTx
<1>26. ASSUME NEW x \in OnchainTx, ProjectOnchainTx(x) PROVE TypeOK'
  BY <1>26, OnchainTxKind DEF ProjectOnchainTx, InUtxos
<1>27. ASSUME NEW x \in OnchainTx, UnlockUtxos(x) PROVE TypeOK'
  BY <1>27, OnchainTxKind DEF UnlockUtxos
<1>28. ASSUME NEW b \in Batch, SettleVtxos(b) PROVE TypeOK'
  BY <1>28, BatchKind DEF SettleVtxos
<1>29. ASSUME NEW b \in Batch, AddBoardingUtxos(b) PROVE TypeOK'
  BY <1>29, BatchKind DEF AddBoardingUtxos, InUtxos
<1>30. ASSUME NEW b \in Batch, MarkProjected(b) PROVE TypeOK'
  BY <1>30, BatchKind DEF MarkProjected
<1>31. ASSUME NEW s \in Spender, ProjectionFails(s) PROVE TypeOK'
  BY <1>31 DEF ProjectionFails
<1>32. ASSUME NEW o \in Vtxo, UnrollVtxo(o) PROVE TypeOK'
  BY <1>32, InputsAssumption DEF UnrollVtxo
<1>33. ASSUME NEW o \in Vtxo, OwnerExits(o) PROVE TypeOK'
  BY <1>33, InputsAssumption DEF OwnerExits
<1>34. ASSUME NEW o \in Vtxo, TrackOnchainSpend(o) PROVE TypeOK'
  BY <1>34, InputsAssumption DEF TrackOnchainSpend
<1>35. ASSUME WaitForProjections PROVE TypeOK'
  BY <1>35, FirstBatch DEF WaitForProjections
<1>36. ASSUME HoldRegistrations PROVE TypeOK'
  BY <1>36 DEF HoldRegistrations
<1>37. ASSUME NEW b \in Batch, ReleaseClaims(b) PROVE TypeOK'
  BY SMT, <1>37, BatchKind DEF ReleaseClaims
<1>38. ASSUME StartRegistration PROVE TypeOK'
  BY <1>38, FirstBatch DEF StartRegistration
<1>39. ASSUME DenyRound PROVE TypeOK'
  BY <1>39 DEF DenyRound
<1>40. ASSUME NEW S \in SUBSET Intent, PopIntents(S) PROVE TypeOK'
  BY <1>40, IntentsInputs DEF PopIntents
<1>41. ASSUME NEW S \in SUBSET Intent, ConfirmIntents(S) PROVE TypeOK'
  BY <1>41, IntentsInputs DEF ConfirmIntents
<1>42. ASSUME AbandonBatch PROVE TypeOK'
  BY <1>42 DEF AbandonBatch
<1>43. ASSUME BroadcastCommitment PROVE TypeOK'
  BY SMT, <1>43, BatchKind, IntentsInputs DEF BroadcastCommitment, Sign, BoardsOf
<1>44. ASSUME EndRound PROVE TypeOK'
  BY <1>44 DEF EndRound
<1>45. ASSUME TrackBatch PROVE TypeOK'
  BY <1>45 DEF TrackBatch
<1>46. ASSUME SaveBatch PROVE TypeOK'
  BY <1>46, BatchKind DEF SaveBatch
<1>47. ASSUME Crash PROVE TypeOK'
  BY <1>47 DEF Crash
<1>48. ASSUME DeleteAllIntents PROVE TypeOK'
  BY <1>48 DEF DeleteAllIntents
<1>49. CASE UNCHANGED vars
  BY <1>49 DEF vars
<1> QED
  BY <1>1, <1>2, <1>3, <1>4, <1>5, <1>6, <1>7, <1>8, <1>9, <1>10, <1>11, <1>12, <1>13,
     <1>14, <1>15, <1>16, <1>17, <1>18, <1>19, <1>20, <1>21, <1>22, <1>23, <1>24, <1>25,
     <1>26, <1>27, <1>28, <1>29, <1>30, <1>31, <1>32, <1>33, <1>34, <1>35, <1>36, <1>37,
     <1>38, <1>39, <1>40, <1>41, <1>42, <1>43, <1>44, <1>45, <1>46, <1>47, <1>48, <1>49
     DEF Next, SubmitSteps, RegisterSteps, CosignSteps, ProjectionSteps, LoopSteps

\* The initial state has the types.
LEMMA TypeInit == Init => TypeOK
  BY BatchRange DEF Init, TypeOK, RequestStep, LoopStep

\* The variables of the stores, of the handlers of SubmitOffchainTx, RegisterIntent and
\* CosignOnchainTx, of the projections and of the round loop keep their types.
THEOREM TypeCorrect == Spec => []TypeOK
  BY TypeInit, TypeStep, PTL DEF Spec

-----------------------------------------------------------------------------
(* The cache, the database and offchainTxMu.                               *)

\* A set of outpoints the cache does not include meets the inputs of no cached tx.
LEMMA CacheMiss ==
    ASSUME NEW S, ~InOffCache(S)
    PROVE  \A t \in offCache : Inputs[t] \cap S = {}
  BY DEF InOffCache, InputsOf

\* Initially nothing is signed, cached or read.
LEMMA OffchainInit == Init => OffchainInv
  BY TypeInit, OffchainTxKind DEF Init, OffchainInv, MutexHeld, OffLocked, OffchainSigned,
     OffchainVisible, OffchainHandled, OffchainPending, OffchainKnows, OffchainSpentOnce

\* The types the cases below rely on.
LEMMA OffchainTypes ==
    ASSUME OffchainInv
    PROVE  /\ pc \in [Request -> RequestStep]
           /\ spentBy \in [Outpoint -> SUBSET Spender]
           /\ loop # "startRound" => roundId \in Batch
  BY DEF OffchainInv, TypeOK

-----------------------------------------------------------------------------
(* Steps that are no step of an offchain tx.                               *)

\* What such a step leaves alone; it may only add to the vtxos marked spent.
OffchainUntouched ==
    /\ offCache' = offCache
    /\ spent \subseteq spent'
    /\ \A t \in OffchainTx :
          /\ pc'[t] = pc[t]
          /\ t \in projecting' <=> t \in projecting
          /\ t \in handling' <=> t \in handling
    /\ \A o \in Outpoint : \A t \in OffchainTx : t \in spentBy'[o] <=> t \in spentBy[o]

\* It preserves the invariant if it follows the discipline of the mutex.
LEMMA OffchainFrame ==
    ASSUME OffchainInv, TypeOK', MutexHeld', OffchainUntouched
    PROVE  OffchainInv'
<1>1. OffchainSigned'
  BY DEF OffchainInv, OffchainUntouched, OffchainSigned
<1>2. OffchainVisible'
  BY DEF OffchainInv, OffchainUntouched, OffchainVisible
<1>3. OffchainHandled'
  BY DEF OffchainInv, OffchainUntouched, OffchainHandled
<1>4. OffchainPending'
  BY DEF OffchainInv, OffchainUntouched, OffchainPending
<1>5. OffchainKnows'
  BY OffchainTxKind DEF OffchainInv, OffchainUntouched, OffchainKnows
<1>6. OffchainSpentOnce'
  BY DEF OffchainInv, OffchainUntouched, OffchainSpentOnce
<1> QED
  BY <1>1, <1>2, <1>3, <1>4, <1>5, <1>6 DEF OffchainInv

\* The round loop, claims, reservations: nothing of a request or a signature changes.
LEMMA OtherStep ==
    ASSUME OffchainInv, TypeOK',
           UNCHANGED <<pc, offchainTxMu, offCache, spent, projecting, handling, spentBy>>
    PROVE  OffchainInv'
<1>1. MutexHeld'
  BY DEF OffchainInv, MutexHeld
<1>2. OffchainUntouched
  BY DEF OffchainUntouched
<1> QED
  BY <1>1, <1>2, OffchainFrame

-----------------------------------------------------------------------------
(* The discipline of offchainTxMu.                                         *)

\* Request r goes to a step, and takes the mutex, keeps what it has, or gives it back.
MovesTo(r, step) ==
    /\ step \in RequestStep
    /\ Go(r, step)
    /\ \/ offchainTxMu = NoOne /\ offchainTxMu' = r
       \/ offchainTxMu' = offchainTxMu /\ (step \in OffLocked => pc[r] \in OffLocked)
       \/ offchainTxMu \in {NoOne, r} /\ offchainTxMu' = NoOne /\ step \notin OffLocked

\* A request that returns gives it back.
LEMMA ReturnMoves ==
    ASSUME NEW r \in Request, Return(r)
    PROVE  MovesTo(r, "idle")
  BY SpendersAssumption DEF Return, MovesTo, RequestStep, OffLocked

\* Requests that move so exclude each other.
LEMMA MutexKept ==
    ASSUME OffchainInv, NEW r \in Request, NEW step, MovesTo(r, step)
    PROVE  MutexHeld'
<1>1. /\ pc'[r] = step
      /\ \A q \in Request : q # r => pc'[q] = pc[q]
  BY OffchainTypes DEF MovesTo, Go
<1>2. /\ \A q \in Request : pc[q] \in OffLocked => offchainTxMu = q
      /\ NoOne \notin Request
  BY SpendersAssumption DEF OffchainInv, MutexHeld
<1> QED
  BY <1>1, <1>2 DEF MovesTo, MutexHeld

\* A step of RegisterIntent or CosignOnchainTx.
LEMMA OtherRequestMoves ==
    ASSUME OffchainInv, TypeOK', NEW r \in Request \ OffchainTx, NEW step, MovesTo(r, step),
           UNCHANGED <<offCache, spent, handling>>,
           \A t \in OffchainTx : t \in projecting' <=> t \in projecting,
           \A o \in Outpoint : \A t \in OffchainTx : t \in spentBy'[o] <=> t \in spentBy[o]
    PROVE  OffchainInv'
<1>1. \A t \in OffchainTx : pc'[t] = pc[t]
  BY OffchainTypes, OffchainTxKind DEF MovesTo, Go
<1>2. OffchainUntouched
  BY <1>1 DEF OffchainUntouched
<1> QED
  BY <1>2, MutexKept, OffchainFrame

-----------------------------------------------------------------------------
(* RegisterIntent and CosignOnchainTx.                                     *)

\* Only the holder of the mutex makes the steps under it.
LEMMA MutexFact ==
    ASSUME OffchainInv, NEW r \in Request, pc[r] \in OffLocked
    PROVE  offchainTxMu = r
  BY DEF OffchainInv, MutexHeld

\* A registration takes no vtxo from an offchain tx and gives none back.
LEMMA RegisterKeepsOffchain ==
    ASSUME OffchainInv, TypeOK', NEW i \in Intent,
           RegisterIntent(i) \/ RegisterSteps(i) \/ DeleteIntent(i)
    PROVE  OffchainInv'
<1>0. i \in Request \ OffchainTx
  BY IntentKind
<1>1. CASE RegisterIntent(i)
  <2>1. \E step : MovesTo(i, step)
    BY <1>0, <1>1 DEF RegisterIntent, MovesTo, RequestStep, OffLocked
  <2>2. UNCHANGED <<offCache, spent, handling, projecting, spentBy>>
    BY <1>0, <1>1 DEF RegisterIntent, redisVars, dbVars, projVars, historyVars
  <2> QED
    BY <1>0, <2>1, <2>2, OtherRequestMoves
<1>2. CASE RegisterReadsReserved(i)
  <2>1. \E step : MovesTo(i, step)
    BY <1>0, <1>2, ReturnMoves DEF RegisterReadsReserved, MovesTo, RequestStep,
       OffLocked
  <2>2. UNCHANGED <<offCache, spent, handling, projecting, spentBy>>
    BY <1>0, <1>2 DEF RegisterReadsReserved, redisVars, dbVars, projVars, historyVars
  <2> QED
    BY <1>0, <2>1, <2>2, OtherRequestMoves
<1>3. CASE RegisterReadsUtxos(i)
  <2>1. \E step : MovesTo(i, step)
    BY <1>0, <1>3, ReturnMoves DEF RegisterReadsUtxos, MovesTo, RequestStep, OffLocked
  <2>2. UNCHANGED <<offCache, spent, handling, projecting, spentBy>>
    BY <1>0, <1>3 DEF RegisterReadsUtxos, redisVars, dbVars, projVars, historyVars
  <2> QED
    BY <1>0, <2>1, <2>2, OtherRequestMoves
<1>4. CASE RegisterReadsCache(i)
  <2>1. \E step : MovesTo(i, step)
    BY <1>0, <1>4, ReturnMoves DEF RegisterReadsCache, MovesTo, RequestStep, OffLocked
  <2>2. UNCHANGED <<offCache, spent, handling, projecting, spentBy>>
    BY <1>0, <1>4 DEF RegisterReadsCache, redisVars, dbVars, projVars, historyVars
  <2> QED
    BY <1>0, <2>1, <2>2, OtherRequestMoves
<1>5. CASE RegisterReadsDb(i)
  <2>1. \E step : MovesTo(i, step)
    BY <1>0, <1>5, ReturnMoves DEF RegisterReadsDb, MovesTo, RequestStep, OffLocked
  <2>2. UNCHANGED <<offCache, spent, handling, projecting, spentBy>>
    BY <1>0, <1>5 DEF RegisterReadsDb, redisVars, dbVars, projVars, historyVars
  <2> QED
    BY <1>0, <2>1, <2>2, OtherRequestMoves
<1>6. CASE RegisterReadsReservedVtxos(i)
  <2>1. \E step : MovesTo(i, step)
    BY <1>0, <1>6, ReturnMoves DEF RegisterReadsReservedVtxos, MovesTo, RequestStep,
       OffLocked
  <2>2. UNCHANGED <<offCache, spent, handling, projecting, spentBy>>
    BY <1>0, <1>6 DEF RegisterReadsReservedVtxos, redisVars, dbVars, projVars,
       historyVars
  <2> QED
    BY <1>0, <2>1, <2>2, OtherRequestMoves
<1>7. CASE RegisterReadsUtxoVtxos(i)
  <2>1. \E step : MovesTo(i, step)
    BY <1>0, <1>7, ReturnMoves DEF RegisterReadsUtxoVtxos, MovesTo, RequestStep,
       OffLocked
  <2>2. UNCHANGED <<offCache, spent, handling, projecting, spentBy>>
    BY <1>0, <1>7 DEF RegisterReadsUtxoVtxos, redisVars, dbVars, projVars, historyVars
  <2> QED
    BY <1>0, <2>1, <2>2, OtherRequestMoves
<1>8. CASE RegisterPushes(i)
  <2>1. \E step : MovesTo(i, step)
    BY <1>0, <1>8, ReturnMoves DEF RegisterPushes, MovesTo, RequestStep, OffLocked
  <2>2. UNCHANGED <<offCache, spent, handling, projecting, spentBy>>
    BY <1>0, <1>8 DEF RegisterPushes, dbVars, projVars, historyVars
  <2> QED
    BY <1>0, <2>1, <2>2, OtherRequestMoves
<1>9. CASE DeleteIntent(i)
  BY <1>9, OtherStep DEF DeleteIntent, dbVars, requestVars, projVars, historyVars
<1> QED
  BY <1>1, <1>2, <1>3, <1>4, <1>5, <1>6, <1>7, <1>8, <1>9 DEF RegisterSteps

\* Neither does a cosign request: what it signs is no offchain tx.
LEMMA CosignKeepsOffchain ==
    ASSUME OffchainInv, TypeOK', NEW x \in OnchainTx,
           CosignReserves(x) \/ CosignSteps(x)
    PROVE  OffchainInv'
<1>0. x \in Request \ OffchainTx
  BY OnchainTxKind
<1>1. CASE CosignReserves(x)
  <2>1. \E step : MovesTo(x, step)
    BY <1>0, <1>1 DEF CosignReserves, MovesTo, RequestStep, OffLocked
  <2>2. UNCHANGED <<offCache, spent, handling, projecting, spentBy>>
    BY <1>0, <1>1 DEF CosignReserves, dbVars, projVars, historyVars
  <2> QED
    BY <1>0, <2>1, <2>2, OtherRequestMoves
<1>2. CASE CosignReadsUtxos(x)
  <2>1. \E step : MovesTo(x, step)
    BY <1>0, <1>2, ReturnMoves DEF CosignReadsUtxos, CosignFails, MovesTo, RequestStep,
       OffLocked
  <2>2. UNCHANGED <<offCache, spent, handling, projecting, spentBy>>
    BY <1>0, <1>2 DEF CosignReadsUtxos, dbVars, projVars, historyVars
  <2> QED
    BY <1>0, <2>1, <2>2, OtherRequestMoves
<1>3. CASE CosignReadsCache(x)
  <2>1. \E step : MovesTo(x, step)
    BY <1>0, <1>3, ReturnMoves DEF CosignReadsCache, CosignFails, MovesTo, RequestStep,
       OffLocked
  <2>2. UNCHANGED <<offCache, spent, handling, projecting, spentBy>>
    BY <1>0, <1>3 DEF CosignReadsCache, dbVars, projVars, historyVars
  <2> QED
    BY <1>0, <2>1, <2>2, OtherRequestMoves
<1>4. CASE CosignReadsClaims(x)
  <2>1. \E step : MovesTo(x, step)
    BY <1>0, <1>4, ReturnMoves DEF CosignReadsClaims, CosignFails, MovesTo, RequestStep,
       OffLocked
  <2>2. UNCHANGED <<offCache, spent, handling, projecting, spentBy>>
    BY <1>0, <1>4 DEF CosignReadsClaims, dbVars, projVars, historyVars
  <2> QED
    BY <1>0, <2>1, <2>2, OtherRequestMoves
<1>5. CASE CosignReadsDb(x)
  <2>1. \E step : MovesTo(x, step)
    BY <1>0, <1>5, ReturnMoves, MutexFact DEF CosignReadsDb, CosignFails, MovesTo,
       RequestStep, OffLocked
  <2>2. UNCHANGED <<offCache, spent, handling, projecting, spentBy>>
    BY <1>0, <1>5 DEF CosignReadsDb, dbVars, projVars, historyVars
  <2> QED
    BY <1>0, <2>1, <2>2, OtherRequestMoves
<1>6. CASE CosignBroadcasts(x)
  <2>1. \E step : MovesTo(x, step)
    BY <1>0, <1>6, ReturnMoves DEF CosignBroadcasts, CosignFails, MovesTo, RequestStep,
       OffLocked
  <2>2. /\ UNCHANGED <<offCache, spent, handling>>
        /\ \A t \in OffchainTx : t \in projecting' <=> t \in projecting
        /\ \A o \in Outpoint : \A t \in OffchainTx : t \in spentBy'[o] <=> t \in spentBy[o]
    BY <1>0, <1>6 DEF CosignBroadcasts, Sign, dbVars, projVars
  <2> QED
    BY <1>0, <2>1, <2>2, OtherRequestMoves
<1>7. CASE CosignSaves(x)
  <2>1. \E step : MovesTo(x, step)
    BY <1>0, <1>7, ReturnMoves DEF CosignSaves, CosignFails, MovesTo, RequestStep,
       OffLocked
  <2>2. /\ UNCHANGED <<offCache, spent, handling>>
        /\ \A t \in OffchainTx : t \in projecting' <=> t \in projecting
        /\ \A o \in Outpoint : \A t \in OffchainTx : t \in spentBy'[o] <=> t \in spentBy[o]
    BY <1>0, <1>7 DEF CosignSaves, dbVars, historyVars
  <2> QED
    BY <1>0, <2>1, <2>2, OtherRequestMoves
<1> QED
  BY <1>1, <1>2, <1>3, <1>4, <1>5, <1>6, <1>7 DEF CosignSteps

-----------------------------------------------------------------------------
(* SubmitOffchainTx.                                                       *)

\* The request goes to a step and moves nothing else.
LEMMA SubmitMoves ==
    ASSUME OffchainInv, TypeOK', NEW t \in OffchainTx, NEW step, MovesTo(t, step),
           UNCHANGED <<offCache, spent, projecting, handling, spentBy>>,
           step \in {"offCacheRead", "claimsRead", "dbRead"} =>
              /\ pc[t] \in {"offCacheRead", "claimsRead"} \/ t \notin offCache
              /\ \A o \in Inputs[t] : \A u \in OffchainTx : u \in spentBy[o] => o \in spent,
           step = "dbRead" => Inputs[t] \cap spent = {},
           step \notin {"added", "answered"}
    PROVE  OffchainInv'
<1>1. /\ pc'[t] = step
      /\ \A u \in OffchainTx : u # t => pc'[u] = pc[u]
  BY OffchainTypes, OffchainTxKind DEF MovesTo, Go
<1>2. MutexHeld'
  BY OffchainTxKind, MutexKept
<1>3. OffchainSigned' /\ OffchainVisible' /\ OffchainHandled' /\ OffchainSpentOnce'
  BY DEF OffchainInv, OffchainSigned, OffchainVisible, OffchainHandled, OffchainSpentOnce
<1>4. OffchainPending'
  <2>1. t \in handling => Inputs[t] \subseteq spent /\ Inputs[t] # {}
    BY OffchainTxKind DEF OffchainInv, OffchainHandled
  <2> QED
    BY <1>1, <2>1 DEF OffchainInv, OffchainPending
<1>5. OffchainKnows'
  BY <1>1 DEF OffchainInv, OffchainKnows
<1> QED
  BY <1>2, <1>3, <1>4, <1>5 DEF OffchainInv

\* The signature for t: no other offchain tx has one of its inputs, and t is cached.
LEMMA SubmitSigns ==
    ASSUME OffchainInv, TypeOK', NEW t \in OffchainTx, NEW step, MovesTo(t, step),
           pc[t] \in {"dbRead", "added"}, step \in {"idle", "answered"},
           Sign(t, Inputs[t]), offCache' = offCache \cup {t},
           projecting' = projecting \/ (projecting' = projecting \cup {t} /\ step = "idle"),
           UNCHANGED <<spent, handling>>
    PROVE  OffchainInv'
<1>1. /\ pc'[t] = step
      /\ \A u \in OffchainTx : u # t => pc'[u] = pc[u]
  BY OffchainTypes, OffchainTxKind DEF MovesTo, Go
<1>2. MutexHeld'
  BY OffchainTxKind, MutexKept
<1>3. \A o \in Outpoint :
          /\ o \in Inputs[t] => spentBy'[o] = spentBy[o] \cup {t}
          /\ o \notin Inputs[t] => spentBy'[o] = spentBy[o]
  BY DEF Sign
<1>4. \A o \in Inputs[t] : \A u \in OffchainTx : u \notin spentBy[o]
  BY DEF OffchainInv, OffchainKnows
<1>5. \A u \in OffchainTx : u # t => pc[u] \notin OffLocked
  <2>1. offchainTxMu = t
    BY OffchainTxKind, MutexFact DEF OffLocked
  <2> QED
    BY <2>1, OffchainTxKind, MutexFact
<1>6. OffchainSigned'
  BY SMT, <1>3 DEF OffchainInv, OffchainSigned
<1>7. OffchainVisible'
  BY <1>3 DEF OffchainInv, OffchainVisible
<1>8. OffchainHandled'
  BY DEF OffchainInv, OffchainHandled
<1>9. OffchainPending'
  BY <1>1 DEF OffchainInv, OffchainPending
<1>10. OffchainKnows'
  BY <1>1, <1>5 DEF OffchainInv, OffchainKnows, OffLocked
<1>11. OffchainSpentOnce'
  BY <1>3, <1>4 DEF OffchainInv, OffchainSpentOnce
<1> QED
  BY <1>2, <1>6, <1>7, <1>8, <1>9, <1>10, <1>11 DEF OffchainInv

\* A one-shot tx enters the cache before it is saved.
LEMMA SubmitAddsOneShot ==
    ASSUME OffchainInv, TypeOK', NEW t \in OffchainTx, pc[t] = "dbRead", Go(t, "added"),
           offCache' = offCache \cup {t},
           UNCHANGED <<offchainTxMu, spent, projecting, handling, spentBy>>
    PROVE  OffchainInv'
<1>1. /\ pc'[t] = "added"
      /\ \A u \in OffchainTx : u # t => pc'[u] = pc[u]
  BY OffchainTypes, OffchainTxKind DEF Go
<1>2. MutexHeld'
  <2>1. MovesTo(t, "added")
    BY DEF MovesTo, RequestStep, OffLocked
  <2> QED
    BY <2>1, OffchainTxKind, MutexKept
<1>3. OffchainSigned' /\ OffchainVisible' /\ OffchainHandled' /\ OffchainSpentOnce'
  BY DEF OffchainInv, OffchainSigned, OffchainVisible, OffchainHandled, OffchainSpentOnce
<1>4. OffchainPending'
  BY <1>1 DEF OffchainInv, OffchainPending
<1>5. OffchainKnows'
  BY <1>1 DEF OffchainInv, OffchainKnows
<1> QED
  BY <1>2, <1>3, <1>4, <1>5 DEF OffchainInv

\* It leaves the cache if it cannot be saved: nothing was signed for it yet.
LEMMA SubmitWithdraws ==
    ASSUME OffchainInv, TypeOK', NEW t \in OffchainTx, pc[t] = "added", MovesTo(t, "idle"),
           offCache' = offCache \ {t}, UNCHANGED <<spent, projecting, handling, spentBy>>
    PROVE  OffchainInv'
<1>1. /\ pc'[t] = "idle"
      /\ \A u \in OffchainTx : u # t => pc'[u] = pc[u]
  BY OffchainTypes, OffchainTxKind DEF MovesTo, Go
<1>2. MutexHeld'
  BY OffchainTxKind, MutexKept
<1>3. OffchainVisible'
  <2>1. \A o \in Outpoint : t \notin spentBy[o]
    BY DEF OffchainInv, OffchainSigned, OffchainKnows
  <2> QED
    BY <2>1 DEF OffchainInv, OffchainVisible
<1>4. OffchainSigned' /\ OffchainHandled' /\ OffchainSpentOnce'
  BY DEF OffchainInv, OffchainSigned, OffchainHandled, OffchainSpentOnce
<1>5. OffchainPending'
  BY <1>1 DEF OffchainInv, OffchainPending
<1>6. OffchainKnows'
  BY <1>1 DEF OffchainInv, OffchainKnows
<1> QED
  BY <1>2, <1>3, <1>4, <1>5, <1>6 DEF OffchainInv

\* The events of a tx that was answered are saved, or lost.
LEMMA SubmitLogs ==
    ASSUME OffchainInv, TypeOK', NEW t \in OffchainTx, pc[t] = "answered", MovesTo(t, "idle"),
           projecting' = projecting \cup {t} \/ projecting' = projecting,
           UNCHANGED <<offCache, spent, handling, spentBy>>
    PROVE  OffchainInv'
<1>1. /\ pc'[t] = "idle"
      /\ \A u \in OffchainTx : u # t => pc'[u] = pc[u]
  BY OffchainTypes, OffchainTxKind DEF MovesTo, Go
<1>2. MutexHeld'
  BY OffchainTxKind, MutexKept
<1>3. OffchainSigned' /\ OffchainVisible' /\ OffchainHandled' /\ OffchainSpentOnce'
  BY DEF OffchainInv, OffchainSigned, OffchainVisible, OffchainHandled, OffchainSpentOnce
<1>4. OffchainPending'
  BY <1>1 DEF OffchainInv, OffchainPending
<1>5. OffchainKnows'
  BY <1>1 DEF OffchainInv, OffchainKnows
<1> QED
  BY <1>2, <1>3, <1>4, <1>5 DEF OffchainInv

\* Each step of the handler is one of the two, or the save of a tx that is cached, or
\* the withdrawal of one that nothing was signed for.
LEMMA SubmitKeepsOffchain ==
    ASSUME OffchainInv, TypeOK', NEW t \in OffchainTx,
           SubmitOffchainTx(t) \/ SubmitSteps(t)
    PROVE  OffchainInv'
<1> USE DEF redisVars, dbVars, projVars, historyVars
<1>0. t \in Request
  BY OffchainTxKind
<1>1. CASE SubmitOffchainTx(t)
  <2>1. MovesTo(t, "validated")
    BY <1>1 DEF SubmitOffchainTx, MovesTo, RequestStep, OffLocked
  <2> QED
    BY <1>1, <2>1, SubmitMoves DEF SubmitOffchainTx
<1>2. CASE SubmitReadsCache(t)
  <2>1. CASE InOffCache(Inputs[t])
    BY <1>0, <1>2, <2>1, ReturnMoves, SubmitMoves DEF SubmitReadsCache
  <2>2. CASE ~InOffCache(Inputs[t])
    <3>1. MovesTo(t, "offCacheRead")
      BY <1>2, <2>2 DEF SubmitReadsCache, MovesTo, RequestStep
    <3>2. t \notin offCache
      BY SMT, <2>2, CacheMiss, OffchainTxKind
    <3>3. \A o \in Inputs[t] : \A u \in OffchainTx : u \in spentBy[o] => o \in spent
      BY <2>2, CacheMiss, OffchainTxKind DEF OffchainInv, OffchainVisible, OffchainSigned
    <3> QED
      BY <1>2, <3>1, <3>2, <3>3, SubmitMoves DEF SubmitReadsCache
  <2> QED
    BY <2>1, <2>2
<1>3. CASE SubmitReadsClaims(t)
  <2>1. \A o \in Inputs[t] : \A u \in OffchainTx : u \in spentBy[o] => o \in spent
    BY <1>3 DEF SubmitReadsClaims, OffchainInv, OffchainKnows
  <2>2. MovesTo(t, "claimsRead") \/ MovesTo(t, "idle")
    BY <1>0, <1>3, ReturnMoves DEF SubmitReadsClaims, MovesTo, RequestStep, OffLocked
  <2> QED
    BY <1>3, <2>1, <2>2, SubmitMoves DEF SubmitReadsClaims
<1>4. CASE SubmitReadsDb(t)
  <2>1. \A o \in Inputs[t] : \A u \in OffchainTx : u \in spentBy[o] => o \in spent
    BY <1>4 DEF SubmitReadsDb, OffchainInv, OffchainKnows
  <2>2. \/ MovesTo(t, "dbRead") /\ Inputs[t] \cap spent = {}
        \/ MovesTo(t, "idle")
    BY <1>0, <1>4, ReturnMoves DEF SubmitReadsDb, MovesTo, RequestStep, OffLocked
  <2> QED
    BY <1>4, <2>1, <2>2, SubmitMoves DEF SubmitReadsDb
<1>5. CASE SubmitAdds(t)
  <2>1. CASE t \in OneShot
    BY <1>5, <2>1, SubmitAddsOneShot DEF SubmitAdds
  <2>2. CASE t \notin OneShot
    <3>1. MovesTo(t, "answered")
      BY <1>0, <1>5, <2>2, MutexFact DEF SubmitAdds, MovesTo, RequestStep, OffLocked
    <3> QED
      BY <1>5, <2>2, <3>1, SubmitSigns DEF SubmitAdds
  <2> QED
    BY <2>1, <2>2
<1>6. CASE SubmitSavesOneShot(t)
  <2>1. MovesTo(t, "idle")
    BY <1>0, <1>6, ReturnMoves DEF SubmitSavesOneShot
  <2>2. t \in offCache
    BY <1>6 DEF SubmitSavesOneShot, OffchainInv, OffchainPending
  <2>3. CASE projecting' = projecting \cup {t} /\ Sign(t, Inputs[t]) /\ UNCHANGED offCache
    BY <1>6, <2>1, <2>2, <2>3, SubmitSigns DEF SubmitSavesOneShot
  <2>4. CASE offCache' = offCache \ {t} /\ UNCHANGED <<projecting, spentBy>>
    BY <1>6, <2>1, <2>4, SubmitWithdraws DEF SubmitSavesOneShot
  <2> QED
    BY <1>6, <2>3, <2>4 DEF SubmitSavesOneShot
<1>7. CASE SubmitSaves(t)
  <2>1. MovesTo(t, "idle")
    BY <1>0, <1>7, ReturnMoves DEF SubmitSaves
  <2> QED
    BY <1>7, <2>1, SubmitLogs DEF SubmitSaves
<1> QED
  BY <1>1, <1>2, <1>3, <1>4, <1>5, <1>6, <1>7 DEF SubmitSteps

-----------------------------------------------------------------------------
(* Projections, the scanner, the round loop.                               *)

\* The projection of an offchain tx marks its inputs before its handler is called.
LEMMA ProjectOffchainKeeps ==
    ASSUME OffchainInv, TypeOK', NEW t \in OffchainTx, ProjectOffchainTx(t)
    PROVE  OffchainInv'
<1> USE DEF redisVars, requestVars, historyVars, ProjectOffchainTx
<1>1. MutexHeld'
  BY DEF OffchainInv, MutexHeld
<1>2. OffchainSigned' /\ OffchainVisible' /\ OffchainHandled' /\ OffchainSpentOnce'
  BY DEF OffchainInv, OffchainSigned, OffchainVisible, OffchainHandled, OffchainSpentOnce
<1>3. OffchainPending'
  BY DEF OffchainInv, OffchainPending
<1>4. OffchainKnows'
  BY DEF OffchainInv, OffchainKnows
<1> QED
  BY <1>1, <1>2, <1>3, <1>4 DEF OffchainInv

\* The handler removes from the cache a tx whose inputs are marked.
LEMMA RemoveOffchainKeeps ==
    ASSUME OffchainInv, TypeOK', NEW t \in OffchainTx, RemoveOffchainTx(t)
    PROVE  OffchainInv'
<1> USE DEF dbVars, requestVars, historyVars, RemoveOffchainTx
<1>1. MutexHeld'
  BY DEF OffchainInv, MutexHeld
<1>2. OffchainVisible'
  BY DEF OffchainInv, OffchainVisible, OffchainSigned, OffchainHandled
<1>3. OffchainSigned' /\ OffchainHandled' /\ OffchainSpentOnce'
  BY DEF OffchainInv, OffchainSigned, OffchainHandled, OffchainSpentOnce
<1>4. OffchainPending'
  BY DEF OffchainInv, OffchainPending
<1>5. OffchainKnows'
  BY DEF OffchainInv, OffchainKnows
<1> QED
  BY <1>1, <1>2, <1>3, <1>4, <1>5 DEF OffchainInv

\* The projections of the others mark more vtxos spent at most.
LEMMA ProjectionsKeepOffchain ==
    ASSUME OffchainInv, TypeOK', ProjectionSteps
    PROVE  OffchainInv'
<1> USE DEF redisVars, requestVars, historyVars, OffchainUntouched
<1>0. UNCHANGED <<pc, offchainTxMu>> => MutexHeld'
  BY DEF OffchainInv, MutexHeld
<1>1. ASSUME NEW x \in OnchainTx, ProjectOnchainTx(x) PROVE OffchainInv'
  BY <1>0, <1>1, OffchainFrame, OffchainTxKind, OnchainTxKind DEF ProjectOnchainTx
<1>2. ASSUME NEW x \in OnchainTx, UnlockUtxos(x) PROVE OffchainInv'
  BY <1>0, <1>2, OffchainFrame, OffchainTxKind, OnchainTxKind DEF UnlockUtxos, dbVars
<1>3. ASSUME NEW b \in Batch, SettleVtxos(b) PROVE OffchainInv'
  BY <1>0, <1>3, OffchainFrame, OffchainTxKind, BatchKind DEF SettleVtxos
<1>4. ASSUME NEW b \in Batch, AddBoardingUtxos(b) PROVE OffchainInv'
  BY <1>0, <1>4, OffchainFrame, OffchainTxKind, BatchKind DEF AddBoardingUtxos
<1>5. ASSUME NEW b \in Batch, MarkProjected(b) PROVE OffchainInv'
  BY <1>0, <1>5, OffchainFrame, OffchainTxKind, BatchKind DEF MarkProjected, dbVars
<1> QED
  BY <1>1, <1>2, <1>3, <1>4, <1>5,
     ProjectOffchainKeeps, RemoveOffchainKeeps DEF ProjectionSteps

\* A failed projection only forgets an event.
LEMMA ProjectionFailsKeeps ==
    ASSUME OffchainInv, TypeOK', NEW s \in Spender, ProjectionFails(s)
    PROVE  OffchainInv'
<1> USE DEF redisVars, dbVars, requestVars, historyVars, ProjectionFails
<1>1. MutexHeld'
  BY DEF OffchainInv, MutexHeld
<1>2. OffchainSigned' /\ OffchainVisible' /\ OffchainHandled' /\ OffchainSpentOnce'
  BY DEF OffchainInv, OffchainSigned, OffchainVisible, OffchainHandled, OffchainSpentOnce
<1>3. OffchainPending'
  BY DEF OffchainInv, OffchainPending
<1>4. OffchainKnows'
  BY DEF OffchainInv, OffchainKnows
<1> QED
  BY <1>1, <1>2, <1>3, <1>4 DEF OffchainInv

\* What the scanner sees is nothing of an offchain tx.
LEMMA ScannerKeepsOffchain ==
    ASSUME OffchainInv, TypeOK', NEW o \in Vtxo,
           UnrollVtxo(o) \/ OwnerExits(o) \/ TrackOnchainSpend(o)
    PROVE  OffchainInv'
  BY OtherStep DEF UnrollVtxo, OwnerExits, TrackOnchainSpend, redisVars, dbVars, requestVars,
     projVars, historyVars

\* The round loop signs for batches only.
LEMMA LoopKeepsOffchain ==
    ASSUME OffchainInv, TypeOK', LoopSteps
    PROVE  OffchainInv'
<1> USE DEF redisVars, dbVars, requestVars, projVars, historyVars
<1>0. UNCHANGED <<pc, offchainTxMu>> => MutexHeld'
  BY DEF OffchainInv, MutexHeld
<1>1. CASE WaitForProjections
  BY <1>1, OtherStep DEF WaitForProjections
<1>2. CASE HoldRegistrations
  BY <1>2, OtherStep DEF HoldRegistrations
<1>3. ASSUME NEW b \in Batch, ReleaseClaims(b) PROVE OffchainInv'
  BY <1>3, OtherStep DEF ReleaseClaims
<1>4. CASE StartRegistration
  BY <1>4, OtherStep DEF StartRegistration
<1>5. CASE DenyRound
  BY <1>5, OtherStep DEF DenyRound
<1>6. ASSUME NEW S \in SUBSET Intent, PopIntents(S) PROVE OffchainInv'
  BY <1>6, OtherStep DEF PopIntents
<1>7. ASSUME NEW S \in SUBSET Intent, ConfirmIntents(S) PROVE OffchainInv'
  BY <1>7, OtherStep DEF ConfirmIntents
<1>8. CASE AbandonBatch
  BY <1>8, OtherStep DEF AbandonBatch
<1>9. CASE BroadcastCommitment
  <2>1. roundId \notin OffchainTx
    BY <1>9, OffchainTypes, BatchKind DEF BroadcastCommitment
  <2>2. OffchainUntouched
    BY <1>9, <2>1 DEF BroadcastCommitment, Sign, OffchainUntouched
  <2> QED
    BY <1>0, <1>9, <2>2, OffchainFrame DEF BroadcastCommitment
<1>10. CASE EndRound
  BY <1>10, OtherStep DEF EndRound
<1>11. CASE TrackBatch
  BY <1>11, OtherStep DEF TrackBatch
<1>12. CASE SaveBatch
  <2>1. roundId \notin OffchainTx
    BY <1>12, OffchainTypes, BatchKind DEF SaveBatch
  <2>2. OffchainUntouched
    BY <1>12, <2>1 DEF SaveBatch, OffchainUntouched
  <2> QED
    BY <1>0, <1>12, <2>2, OffchainFrame DEF SaveBatch
<1> QED
  BY <1>1, <1>2, <1>3, <1>4, <1>5, <1>6, <1>7, <1>8, <1>9, <1>10, <1>11, <1>12 DEF LoopSteps

\* A restart forgets every request and every event not yet projected.
LEMMA CrashKeepsOffchain ==
    ASSUME OffchainInv, TypeOK', Crash
    PROVE  OffchainInv'
<1>1. \A r \in Request : pc'[r] = "idle"
  BY DEF Crash
<1>2. MutexHeld'
  BY <1>1 DEF MutexHeld, OffLocked
<1>3. OffchainSigned' /\ OffchainVisible' /\ OffchainHandled' /\ OffchainSpentOnce'
  BY DEF OffchainInv, OffchainSigned, OffchainVisible, OffchainHandled, OffchainSpentOnce,
     Crash, redisVars, dbVars, historyVars
<1>4. OffchainPending' /\ OffchainKnows'
  BY <1>1, OffchainTxKind DEF OffchainPending, OffchainKnows, Crash
<1> QED
  BY <1>2, <1>3, <1>4 DEF OffchainInv

-----------------------------------------------------------------------------
\* Every step preserves the invariant.
LEMMA OffchainStep == OffchainInv /\ [Next]_vars => OffchainInv'
<1> SUFFICES ASSUME OffchainInv, [Next]_vars PROVE OffchainInv'
  OBVIOUS
<1>1. TypeOK'
  BY TypeStep DEF OffchainInv
<1>2. CASE DeleteAllIntents \/ UNCHANGED vars
  BY <1>1, <1>2, OtherStep DEF DeleteAllIntents, vars, redisVars, dbVars, requestVars,
     loopVars, projVars, historyVars
<1>3. CASE Next /\ ~DeleteAllIntents
  BY <1>1, <1>3, SubmitKeepsOffchain, RegisterKeepsOffchain, CosignKeepsOffchain,
     ProjectionsKeepOffchain, ProjectionFailsKeeps, ScannerKeepsOffchain,
     LoopKeepsOffchain, CrashKeepsOffchain DEF Next
<1> QED
  BY <1>2, <1>3

\* SubmitOffchainTx never gives its signature for a vtxo to a second ark tx: for every
\* number of requests, intents and batches, and with every fault of the model, the
\* operator's deletion of all the intents and the lost saves included.
THEOREM OffchainNeverTwice == Spec => []OffchainSpentOnce
<1>1. OffchainInv => OffchainSpentOnce
  BY DEF OffchainInv
<1> QED
  BY <1>1, OffchainInit, OffchainStep, PTL DEF Spec
=============================================================================
