------------------------- MODULE SpendGuardSpends -------------------------
(***************************************************************************)
(* No outpoint is spent twice, by whatever kind of request, and the server *)
(* implements the ledger of SpendLedger.                                   *)
(*                                                                         *)
(* IndInv is the inductive invariant.  It says where each kind of spend is *)
(* visible until the database has it (OffchainVisible, BatchVisible,       *)
(* CosignedVisible), that what leaves the live store is in the database by *)
(* then (HandledRecorded, which needs the order of the round loop of       *)
(* RoundOrder and the lock of ReadersHeld), who owns claims and            *)
(* reservations (QueueClaims, ReservationsHeld), and what a request knows  *)
(* after each of its reads (SubmitKnows, RegisterKnows, CosignKnows): the  *)
(* last read before a signature leaves no other spender possible.          *)
(*                                                                         *)
(* It does not survive the faults of NotTolerated, hence the hypothesis    *)
(* on Faults.                                                              *)
(***************************************************************************)
EXTENDS SpendGuardOffchain

\* Most leaves are first-order: Zenon is tried before SMT.
USE Zenon, SMT

-----------------------------------------------------------------------------
(* What the steps of each actor change, and what they leave alone.         *)

\* SubmitOffchainTx writes the cache, the log and its signature.
LEMMA SubmitEffects ==
    ASSUME TypeOK, NEW t \in OffchainTx, SubmitOffchainTx(t) \/ SubmitSteps(t)
    PROVE  /\ UNCHANGED <<queue, claims, takenBy, reserved, roundId, roundEnded, accepted,
                          spent, unrolled, utxos, boards, readers, loop, selected, inflight,
                          projected, releasing, settling, handling, chain, batchInputs>>
           /\ \A r \in Request : r # t => pc'[r] = pc[r]
           /\ \A s \in Spender : s # t => (s \in projecting' <=> s \in projecting)
           /\ \/ UNCHANGED spentBy
              \/ pc[t] \in {"dbRead", "added"} /\ Sign(t, Inputs[t])
<1>0. readers \ {t} = readers /\ t \in Request /\ pc \in [Request -> RequestStep]
  BY OffchainTxKind DEF TypeOK
<1> USE <1>0 DEF redisVars, dbVars, loopVars, projVars, historyVars, Go, Return
<1>1. CASE SubmitOffchainTx(t)
  BY <1>1 DEF SubmitOffchainTx
<1>2. CASE SubmitReadsCache(t)
  BY <1>2 DEF SubmitReadsCache
<1>3. CASE SubmitReadsClaims(t)
  BY <1>3 DEF SubmitReadsClaims
<1>4. CASE SubmitReadsDb(t)
  BY <1>4 DEF SubmitReadsDb
<1>5. CASE SubmitAdds(t)
  BY <1>5 DEF SubmitAdds
<1>6. CASE SubmitSavesOneShot(t)
  BY <1>6 DEF SubmitSavesOneShot
<1>7. CASE SubmitSaves(t)
  BY <1>7 DEF SubmitSaves
<1> QED
  BY <1>1, <1>2, <1>3, <1>4, <1>5, <1>6, <1>7 DEF SubmitSteps

\* RegisterIntent and DeleteIntent write the queue and the claims.
LEMMA RegisterEffects ==
    ASSUME TypeOK, NEW i \in Intent, RegisterIntent(i) \/ RegisterSteps(i) \/ DeleteIntent(i)
    PROVE  /\ UNCHANGED <<offCache, reserved, roundId, roundEnded, accepted, spent, unrolled,
                          utxos, loop, selected, inflight, projected, releasing, projecting,
                          settling, handling, chain, batchInputs, spentBy>>
           /\ \A r \in Request : r # i => pc'[r] = pc[r]
           /\ UNCHANGED <<queue, claims, takenBy>> \/ RegisterPushes(i) \/ DeleteIntent(i)
           /\ UNCHANGED boards \/ RegisterIntent(i)
<1> USE IntentKind DEF redisVars, dbVars, requestVars, loopVars, projVars, historyVars, TypeOK, Go, Return
<1>1. CASE RegisterIntent(i)
  BY <1>1 DEF RegisterIntent
<1>2. CASE RegisterReadsReserved(i)
  BY <1>2 DEF RegisterReadsReserved
<1>3. CASE RegisterReadsUtxos(i)
  BY <1>3 DEF RegisterReadsUtxos
<1>4. CASE RegisterReadsCache(i)
  BY <1>4 DEF RegisterReadsCache
<1>5. CASE RegisterReadsDb(i)
  BY <1>5 DEF RegisterReadsDb
<1>6. CASE RegisterReadsReservedVtxos(i)
  BY <1>6 DEF RegisterReadsReservedVtxos
<1>7. CASE RegisterReadsUtxoVtxos(i)
  BY <1>7 DEF RegisterReadsUtxoVtxos
<1>8. CASE RegisterPushes(i)
  BY <1>8 DEF RegisterPushes
<1>9. CASE DeleteIntent(i)
  BY <1>9 DEF DeleteIntent
<1> QED
  BY <1>1, <1>2, <1>3, <1>4, <1>5, <1>6, <1>7, <1>8, <1>9 DEF RegisterSteps

\* CosignOnchainTx writes the reservations, the log, the chain and its signature.
LEMMA CosignEffects ==
    ASSUME TypeOK, NEW x \in OnchainTx, CosignReserves(x) \/ CosignSteps(x)
    PROVE  /\ UNCHANGED <<offCache, queue, claims, takenBy, roundId, roundEnded, accepted, spent,
                          unrolled, utxos, boards, readers, loop, selected, inflight, projected,
                          releasing, settling, handling, batchInputs>>
           /\ \A r \in Request : r # x => pc'[r] = pc[r]
           /\ \A s \in Spender : s # x => (s \in projecting' <=> s \in projecting)
           /\ \/ UNCHANGED <<spentBy, chain>>
              \/ CosignBroadcasts(x) /\ Sign(x, Inputs[x]) /\ Inputs[x] \cap chain = {}
                 /\ pc'[x] = "broadcast" /\ chain' = chain \cup Inputs[x] /\ UNCHANGED reserved
<1>0. readers \ {x} = readers /\ x \in Request /\ pc \in [Request -> RequestStep]
  BY OnchainTxKind DEF TypeOK
<1> USE <1>0 DEF redisVars, dbVars, loopVars, projVars, historyVars, Go, Return, CosignFails
<1>1. CASE CosignReserves(x)
  BY <1>1 DEF CosignReserves
<1>2. CASE CosignReadsUtxos(x)
  BY <1>2 DEF CosignReadsUtxos
<1>3. CASE CosignReadsCache(x)
  BY <1>3 DEF CosignReadsCache
<1>4. CASE CosignReadsClaims(x)
  BY <1>4 DEF CosignReadsClaims
<1>5. CASE CosignReadsDb(x)
  BY <1>5 DEF CosignReadsDb
<1>6. CASE CosignBroadcasts(x)
  BY <1>6 DEF CosignBroadcasts
<1>7. CASE CosignSaves(x)
  BY <1>7 DEF CosignSaves
<1> QED
  BY <1>1, <1>2, <1>3, <1>4, <1>5, <1>6, <1>7 DEF CosignSteps

\* Projections only add to the database; their handlers clean up the live store.
ProjectionStep == ProjectionSteps \/ \E s \in Spender : ProjectionFails(s)

\* They touch neither the claims nor the requests nor the loop.
LEMMA ProjectionEffects ==
    ASSUME TypeOK, ProjectionStep
    PROVE  /\ UNCHANGED <<queue, claims, takenBy, roundId, roundEnded, unrolled, pc, boards,
                          offchainTxMu, cosignMu, readers, loop, selected, inflight, releasing,
                          chain, batchInputs, spentBy>>
           /\ spent \subseteq spent' /\ utxos \subseteq utxos'
           /\ projecting' \cup settling' \cup handling' \subseteq projecting \cup settling \cup handling
<1> USE DEF redisVars, requestVars, dbVars, loopVars, historyVars, TypeOK
<1>1. CASE \E t \in OffchainTx : ProjectOffchainTx(t) \/ RemoveOffchainTx(t)
  BY <1>1 DEF ProjectOffchainTx, RemoveOffchainTx
<1>2. CASE \E x \in OnchainTx : ProjectOnchainTx(x) \/ UnlockUtxos(x)
  BY <1>2 DEF ProjectOnchainTx, UnlockUtxos
<1>3. CASE \E b \in Batch : SettleVtxos(b) \/ AddBoardingUtxos(b) \/ MarkProjected(b)
  BY <1>3 DEF SettleVtxos, AddBoardingUtxos, MarkProjected
<1>4. CASE \E s \in Spender : ProjectionFails(s)
  BY <1>4 DEF ProjectionFails
<1> QED
  BY <1>1, <1>2, <1>3, <1>4 DEF ProjectionStep, ProjectionSteps

\* The scanner marks vtxos unrolled or spent onchain; their owners spend them.
ScannerStep == \E o \in Vtxo : UnrollVtxo(o) \/ OwnerExits(o) \/ TrackOnchainSpend(o)

\* They touch nothing but the marks, the cosigned utxos and the chain, and only add to them.
LEMMA ScannerEffects ==
    ASSUME ScannerStep
    PROVE  /\ UNCHANGED <<offCache, queue, claims, takenBy, reserved, roundId, roundEnded, accepted,
                          spent, pc, boards, offchainTxMu, cosignMu, readers, loop, selected,
                          inflight, projected, releasing, projecting, settling, handling,
                          batchInputs, spentBy>>
           /\ unrolled \subseteq unrolled' /\ utxos \subseteq utxos' /\ chain \subseteq chain'
  BY DEF ScannerStep, UnrollVtxo, OwnerExits, TrackOnchainSpend, redisVars, requestVars, dbVars,
     loopVars, projVars, historyVars

\* The round loop writes neither the database nor what belongs to a request.
LEMMA LoopEffects ==
    ASSUME LoopSteps
    PROVE  /\ UNCHANGED <<offCache, reserved, accepted, spent, unrolled, utxos, pc, boards,
                          offchainTxMu, cosignMu, readers, settling, handling>>
           /\ UNCHANGED <<spentBy, chain, batchInputs>> \/ BroadcastCommitment
           /\ UNCHANGED projecting \/ SaveBatch
           /\ \/ UNCHANGED <<queue, claims, takenBy>>
              \/ \E b \in Batch : ReleaseClaims(b)
              \/ \E S \in SUBSET Intent : PopIntents(S)
  BY DEF LoopSteps, WaitForProjections, HoldRegistrations, ReleaseClaims, StartRegistration,
     DenyRound, PopIntents, ConfirmIntents, AbandonBatch, BroadcastCommitment, EndRound,
     TrackBatch, SaveBatch, redisVars, requestVars, dbVars, projVars, historyVars

\* A restart loses what the process held in memory.
LEMMA CrashEffects ==
    ASSUME Crash
    PROVE  /\ UNCHANGED <<offCache, queue, claims, takenBy, reserved, roundId, roundEnded, accepted,
                          spent, unrolled, utxos, boards, chain, batchInputs, spentBy>>
           /\ \A r \in Request : pc'[r] = "idle"
           /\ loop' = "startRound" /\ selected' = {} /\ readers' = {}
           /\ inflight' = {} /\ projected' = {} /\ releasing' = {}
           /\ projecting' = {} /\ settling' = {} /\ handling' = {}
  BY DEF Crash, redisVars, dbVars, historyVars

\* What a signature changes.
LEMMA SignAdds ==
    ASSUME TypeOK, NEW s, NEW S, Sign(s, S)
    PROVE  \A o \in Outpoint : \A u : u \in spentBy'[o] <=> u \in spentBy[o] \/ (u = s /\ o \in S)
  BY DEF Sign, TypeOK

\* SubmitOffchainTx signs for its own tx only, for the inputs it has checked.
LEMMA SubmitSigned ==
    ASSUME TypeOK, NEW t \in OffchainTx, SubmitOffchainTx(t) \/ SubmitSteps(t), NEW o \in Outpoint
    PROVE  /\ \A s : s # t => (s \in spentBy'[o] <=> s \in spentBy[o])
           /\ \/ spentBy'[o] = spentBy[o]
              \/ o \in Inputs[t] /\ pc[t] \in {"dbRead", "added"}
<1>1. CASE UNCHANGED spentBy
  BY <1>1
<1>2. CASE pc[t] \in {"dbRead", "added"} /\ Sign(t, Inputs[t])
  <2>1. o \notin Inputs[t] => spentBy'[o] = spentBy[o]
    BY <1>2 DEF Sign
  <2> QED
    BY <1>2, <2>1, SignAdds
<1> QED
  BY <1>1, <1>2, SubmitEffects

\* CosignOnchainTx signs for its own tx only, for the inputs it has locked.
LEMMA CosignSigned ==
    ASSUME TypeOK, NEW x \in OnchainTx, CosignReserves(x) \/ CosignSteps(x), NEW o \in Outpoint
    PROVE  /\ \A s : s # x => (s \in spentBy'[o] <=> s \in spentBy[o])
           /\ chain \subseteq chain'
           /\ \/ spentBy'[o] = spentBy[o]
              \/ /\ o \in Inputs[x] /\ pc[x] = "locked" /\ pc'[x] = "broadcast"
                 /\ o \notin chain /\ o \in chain' /\ UNCHANGED reserved
<1>1. CASE UNCHANGED <<spentBy, chain>>
  BY <1>1
<1>2. CASE CosignBroadcasts(x) /\ Sign(x, Inputs[x]) /\ Inputs[x] \cap chain = {}
           /\ pc'[x] = "broadcast" /\ chain' = chain \cup Inputs[x] /\ UNCHANGED reserved
  <2>1. o \notin Inputs[x] => spentBy'[o] = spentBy[o]
    BY <1>2 DEF Sign
  <2>2. pc[x] = "locked"
    BY <1>2 DEF CosignBroadcasts
  <2> QED
    BY SMT, <1>2, <2>1, <2>2, SignAdds
<1> QED
  BY <1>1, <1>2, CosignEffects

\* The commitment tx of the batch in progress is signed for the inputs of its intents.
LEMMA CommitmentSigned ==
    ASSUME TypeOK, BroadcastCommitment, NEW o \in Outpoint
    PROVE  /\ roundId \in Batch
           /\ \A s : s # roundId => (s \in spentBy'[o] <=> s \in spentBy[o])
           /\ \/ spentBy'[o] = spentBy[o]
              \/ \E i \in selected : o \in Inputs[i]
           /\ o \in batchInputs'[roundId] <=> \E i \in selected : o \in Inputs[i]
           /\ \A b \in Batch : b # roundId => batchInputs'[b] = batchInputs[b]
<1>1. Sign(roundId, InputsOf(selected)) /\ roundId \in Batch
  BY DEF BroadcastCommitment, TypeOK
<1>2. o \in InputsOf(selected) <=> \E i \in selected : o \in Inputs[i]
  BY DEF InputsOf
<1>3. o \notin InputsOf(selected) => spentBy'[o] = spentBy[o]
  BY <1>1 DEF Sign
<1>4. /\ batchInputs'[roundId] = InputsOf(selected)
      /\ \A b \in Batch : b # roundId => batchInputs'[b] = batchInputs[b]
  BY <1>1 DEF BroadcastCommitment, TypeOK
<1> QED
  BY <1>1, <1>2, <1>3, <1>4, SignAdds

-----------------------------------------------------------------------------
(* One lemma per conjunct of the invariant.                                *)

\* The faults the server copes with are none of those it does not.
LEMMA ToleratedFaults ==
    ASSUME Faults \subseteq Tolerated
    PROVE  "unendedBroadcast" \notin Faults /\ "cosignSave" \notin Faults /\ "deleteAll" \notin Faults
  BY DEF Tolerated

\* A registration is in the read side of the lock that the round loop takes to write.
LEMMA ReadersHeldStep ==
    ASSUME IndInv, Faults \subseteq Tolerated, Next
    PROVE  ReadersHeld'
<1>0. TypeOK /\ ReadersHeld
  BY DEF IndInv, OffchainInv
<1>1. ASSUME NEW t \in OffchainTx, SubmitOffchainTx(t) \/ SubmitSteps(t) PROVE ReadersHeld'
  BY <1>0, <1>1, SubmitEffects, OffchainTxKind, IntentKind DEF ReadersHeld
<1>2. ASSUME NEW i \in Intent, RegisterIntent(i) \/ RegisterSteps(i) \/ DeleteIntent(i)
      PROVE  ReadersHeld'
  <2>1. /\ pc'[i] # "idle" => i \in readers'
        /\ \A j \in Intent : j # i => (j \in readers' <=> j \in readers) /\ pc'[j] = pc[j]
        /\ loop = "held" => readers' = {}
    BY <1>0, <1>2, IntentKind
    DEF TypeOK, ReadersHeld, RegisterIntent, RegisterSteps, DeleteIntent, RegisterReadsReserved,
        RegisterReadsUtxos, RegisterReadsCache, RegisterReadsDb, RegisterReadsReservedVtxos,
        RegisterReadsUtxoVtxos, RegisterPushes, Return, Go, requestVars
  <2> QED
    BY <1>0, <1>2, <2>1, RegisterEffects DEF ReadersHeld
<1>3. ASSUME NEW x \in OnchainTx, CosignReserves(x) \/ CosignSteps(x) PROVE ReadersHeld'
  BY <1>0, <1>3, CosignEffects, OnchainTxKind, IntentKind DEF ReadersHeld
<1>4. CASE ProjectionStep \/ ScannerStep
  BY <1>0, <1>4, ProjectionEffects, ScannerEffects DEF ReadersHeld
<1>5. CASE LoopSteps
  <2>1. loop' = "held" => readers = {}
    BY <1>0, <1>5
    DEF ReadersHeld, LoopSteps, WaitForProjections, HoldRegistrations, ReleaseClaims,
        StartRegistration, DenyRound, PopIntents, ConfirmIntents, AbandonBatch,
        BroadcastCommitment, EndRound, TrackBatch, SaveBatch
  <2> QED
    BY <1>0, <1>5, <2>1, LoopEffects DEF ReadersHeld
<1>6. CASE Crash
  BY <1>6, CrashEffects, IntentKind DEF ReadersHeld
<1> QED
  BY <1>1, <1>2, <1>3, <1>4, <1>5, <1>6, ToleratedFaults
  DEF Next, ProjectionStep, ScannerStep, DeleteAllIntents

\* A batch signs, ends, and only then is tracked, projected and released.
LEMMA RoundOrderStep ==
    ASSUME IndInv, Faults \subseteq Tolerated, Next
    PROVE  RoundOrder'
<1>0. TypeOK /\ RoundOrder /\ roundId \in Nat /\ Batch \subseteq Nat
  BY BatchRange, FirstBatch DEF IndInv, OffchainInv, TypeOK
<1>1. ASSUME NEW t \in OffchainTx, SubmitOffchainTx(t) \/ SubmitSteps(t) PROVE RoundOrder'
  BY SMT, <1>0, <1>1, SubmitEffects, SubmitSigned, BatchKind DEF RoundOrder
<1>2. ASSUME NEW i \in Intent, RegisterIntent(i) \/ RegisterSteps(i) \/ DeleteIntent(i)
      PROVE  RoundOrder'
  BY <1>0, <1>2, RegisterEffects DEF RoundOrder
<1>3. ASSUME NEW x \in OnchainTx, CosignReserves(x) \/ CosignSteps(x) PROVE RoundOrder'
  BY SMT, <1>0, <1>3, CosignEffects, CosignSigned, BatchKind DEF RoundOrder
<1>4. CASE ProjectionStep \/ ScannerStep
  BY <1>0, <1>4, ProjectionEffects, ScannerEffects DEF RoundOrder
<1>5. CASE LoopSteps
  <2>1. /\ UNCHANGED <<settling, handling>>
        /\ UNCHANGED spentBy \/ BroadcastCommitment
        /\ UNCHANGED projecting \/ SaveBatch
    BY <1>5, LoopEffects
  <2>2. CASE BroadcastCommitment
    <3>1. UNCHANGED <<roundId, roundEnded, inflight, releasing, projecting>> /\ loop = "finalization"
          /\ loop' = "broadcast" /\ selected' = {}
      BY <2>2 DEF BroadcastCommitment, redisVars, projVars
    <3> QED
      BY <1>0, <2>1, <2>2, <3>1, CommitmentSigned DEF RoundOrder
  <2>3. CASE SaveBatch
    BY <1>0, <2>1, <2>3 DEF RoundOrder, SaveBatch, redisVars, historyVars
  <2>4. CASE StartRegistration
    <3>1. /\ loop' = "registration" /\ roundEnded' = "no" /\ roundId' = roundId + 1
          /\ loop = "held" \/ loop = "startRound"
          /\ UNCHANGED <<selected, releasing, projecting, settling, handling, inflight, spentBy>>
          /\ loop = "startRound" \/ releasing = {}
      BY <2>4 DEF StartRegistration, historyVars, projVars
    <3>2. releasing' = {} /\ selected' = {}
      BY <1>0, <3>1 DEF RoundOrder
    <3>3. \A b \in Batch : b < roundId \/ b = roundId => b < roundId'
      BY SMT, <1>0, <3>1
    <3> QED
      BY <1>0, <3>1, <3>2, <3>3 DEF RoundOrder
  <2>5. CASE WaitForProjections \/ HoldRegistrations \/ \E b \in Batch : ReleaseClaims(b)
    BY <1>0, <2>1, <2>5
    DEF RoundOrder, WaitForProjections, HoldRegistrations, ReleaseClaims, redisVars, historyVars, projVars
  <2>6. CASE DenyRound \/ AbandonBatch \/ EndRound \/ TrackBatch
    BY <1>0, <2>1, <2>6, ToleratedFaults
    DEF RoundOrder, DenyRound, AbandonBatch, EndRound, TrackBatch, redisVars, historyVars, projVars
  <2>7. CASE \E S \in SUBSET Intent : PopIntents(S) \/ ConfirmIntents(S)
    BY <1>0, <2>1, <2>7
    DEF RoundOrder, PopIntents, ConfirmIntents, redisVars, historyVars, projVars
  <2> QED
    BY <1>5, <2>2, <2>3, <2>4, <2>5, <2>6, <2>7 DEF LoopSteps
<1>6. CASE Crash
  <2>1. loop # "broadcast"
    BY <1>6, ToleratedFaults DEF Crash
  <2> QED
    BY <1>0, <1>6, <2>1, CrashEffects DEF RoundOrder
<1> QED
  BY <1>1, <1>2, <1>3, <1>4, <1>5, <1>6, ToleratedFaults
  DEF Next, ProjectionStep, ScannerStep, DeleteAllIntents

\* Every spender the server signed for is recorded with the inputs it signed.
LEMMA SignedInputsStep ==
    ASSUME IndInv, Faults \subseteq Tolerated, Next
    PROVE  SignedInputs'
<1>0. TypeOK /\ SignedInputs /\ RoundOrder
  BY DEF IndInv, OffchainInv
<1>1. ASSUME NEW t \in OffchainTx, SubmitOffchainTx(t) \/ SubmitSteps(t) PROVE SignedInputs'
  BY <1>0, <1>1, SubmitEffects, SubmitSigned, OffchainTxKind DEF SignedInputs
<1>2. ASSUME NEW i \in Intent, RegisterIntent(i) \/ RegisterSteps(i) \/ DeleteIntent(i)
      PROVE  SignedInputs'
  BY <1>0, <1>2, RegisterEffects DEF SignedInputs
<1>3. ASSUME NEW x \in OnchainTx, CosignReserves(x) \/ CosignSteps(x) PROVE SignedInputs'
  BY <1>0, <1>3, CosignEffects, CosignSigned, OnchainTxKind DEF SignedInputs
<1>4. CASE ProjectionStep \/ ScannerStep
  BY <1>0, <1>4, ProjectionEffects, ScannerEffects DEF SignedInputs
<1>5. CASE LoopSteps /\ ~BroadcastCommitment
  BY <1>0, <1>5, LoopEffects DEF SignedInputs
<1>6. CASE BroadcastCommitment
  <2>1. \A o \in Outpoint : roundId \notin spentBy[o]
    BY SMT, <1>0, <1>6, BatchRange DEF BroadcastCommitment, RoundOrder, TypeOK
  <2>2. roundId \notin Request
    BY <1>0, <1>6, CommitmentSigned, BatchKind DEF BroadcastCommitment, TypeOK
  <2> QED
    BY SMT, <1>0, <1>6, <2>1, <2>2, CommitmentSigned DEF SignedInputs
<1>7. CASE Crash
  BY <1>0, <1>7, CrashEffects DEF SignedInputs
<1> QED
  BY <1>1, <1>2, <1>3, <1>4, <1>5, <1>6, <1>7, ToleratedFaults
  DEF Next, ProjectionStep, ScannerStep, DeleteAllIntents

-----------------------------------------------------------------------------
(* Claims.                                                                 *)

\* Push claims inputs nobody claims.
LEMMA PushEffects ==
    ASSUME TypeOK, NEW i \in Intent, RegisterPushes(i)
    PROVE  \/ UNCHANGED <<queue, claims, takenBy>>
           \/ /\ queue' = queue \cup {i}
              /\ \A o \in Outpoint :
                    /\ o \in claims' <=> o \in claims \/ o \in Inputs[i]
                    /\ takenBy'[o] = IF o \in Inputs[i] THEN 0 ELSE takenBy[o]
                    /\ o \in Inputs[i] => o \notin claims
  BY IntentKind DEF RegisterPushes, InClaims, TypeOK

\* Deleting an intent gives its claims back.
LEMMA DeleteEffects ==
    ASSUME TypeOK, NEW i \in Intent, DeleteIntent(i)
    PROVE  /\ i \in queue /\ queue' = queue \ {i} /\ UNCHANGED <<takenBy, pc, readers, boards>>
           /\ \A o \in Outpoint : o \in claims' <=> o \in claims /\ o \notin Inputs[i]
  BY DEF DeleteIntent, requestVars

\* The claims of a batch are released while registrations are held.
LEMMA ReleaseEffects ==
    ASSUME TypeOK, NEW b \in Batch, ReleaseClaims(b)
    PROVE  /\ loop = "held" /\ b \in releasing /\ UNCHANGED <<queue, roundId, roundEnded, loop, selected>>
           /\ \/ UNCHANGED <<claims, takenBy>>
              \/ \A o \in Outpoint :
                    /\ o \in claims' <=> o \in claims /\ takenBy[o] # b
                    /\ takenBy'[o] = IF takenBy[o] = b THEN 0 ELSE takenBy[o]
  BY DEF ReleaseClaims, TypeOK

\* The claims of the intents a batch takes are from then on those of the batch.
LEMMA PopEffects ==
    ASSUME TypeOK, NEW S \in SUBSET Intent, PopIntents(S)
    PROVE  /\ loop = "registration" /\ loop' = "confirmation" /\ S \subseteq queue
           /\ queue' = queue \ S /\ selected' = S /\ UNCHANGED <<claims, roundId, roundEnded>>
           /\ \A o \in Outpoint :
                 takenBy'[o] = IF \E i \in S : o \in Inputs[i] THEN roundId ELSE takenBy[o]
<1>1. \A o : o \in InputsOf(S) <=> \E i \in S : o \in Inputs[i]
  BY DEF InputsOf
<1> QED
  BY <1>1 DEF PopIntents

\* What is recorded stays recorded.
LEMMA RecordedStays ==
    ASSUME NEW o, Recorded(o), spent \subseteq spent', utxos \subseteq utxos'
    PROVE  Recorded(o)'
  BY DEF Recorded

\* The database only grows.
LEMMA DatabaseGrows ==
    ASSUME TypeOK, Faults \subseteq Tolerated, Next
    PROVE  spent \subseteq spent' /\ utxos \subseteq utxos' /\ unrolled \subseteq unrolled'
<1>1. ASSUME NEW t \in OffchainTx, SubmitOffchainTx(t) \/ SubmitSteps(t)
      PROVE  UNCHANGED <<spent, utxos, unrolled>>
  BY <1>1, SubmitEffects
<1>2. ASSUME NEW i \in Intent, RegisterIntent(i) \/ RegisterSteps(i) \/ DeleteIntent(i)
      PROVE  UNCHANGED <<spent, utxos, unrolled>>
  BY <1>2, RegisterEffects
<1>3. ASSUME NEW x \in OnchainTx, CosignReserves(x) \/ CosignSteps(x)
      PROVE  UNCHANGED <<spent, utxos, unrolled>>
  BY <1>3, CosignEffects
<1> QED
  BY <1>1, <1>2, <1>3, ProjectionEffects, ScannerEffects, LoopEffects, CrashEffects, ToleratedFaults
  DEF Next, ProjectionStep, ScannerStep, DeleteAllIntents

\* What a batch spent is claimed for it until the database has it.
LEMMA BatchVisibleStep ==
    ASSUME IndInv, Faults \subseteq Tolerated, Next
    PROVE  BatchVisible'
<1>0. /\ TypeOK /\ BatchVisible /\ QueueClaims /\ HandledRecorded
      /\ \A o \in Outpoint : Recorded(o) => Recorded(o)'
  BY DatabaseGrows, RecordedStays DEF IndInv, OffchainInv
<1>1. ASSUME NEW t \in OffchainTx, SubmitOffchainTx(t) \/ SubmitSteps(t) PROVE BatchVisible'
  BY SMT, <1>0, <1>1, SubmitEffects, SubmitSigned, BatchKind DEF BatchVisible
<1>2. ASSUME NEW i \in Intent, RegisterIntent(i) \/ RegisterSteps(i) \/ DeleteIntent(i)
      PROVE  BatchVisible'
  <2>1. UNCHANGED spentBy
    BY <1>0, <1>2, RegisterEffects
  <2>2. CASE UNCHANGED <<queue, claims, takenBy>>
    BY <1>0, <2>1, <2>2 DEF BatchVisible
  <2>3. CASE RegisterPushes(i)
    BY <1>0, <2>1, <2>3, PushEffects DEF BatchVisible
  <2>4. CASE DeleteIntent(i)
    BY <1>0, <2>1, <2>4, DeleteEffects, BatchKind DEF BatchVisible, QueueClaims
  <2> QED
    BY <1>0, <1>2, <2>2, <2>3, <2>4, RegisterEffects
<1>3. ASSUME NEW x \in OnchainTx, CosignReserves(x) \/ CosignSteps(x) PROVE BatchVisible'
  BY SMT, <1>0, <1>3, CosignEffects, CosignSigned, BatchKind DEF BatchVisible
<1>4. CASE ProjectionStep \/ ScannerStep
  BY <1>0, <1>4, ProjectionEffects, ScannerEffects DEF BatchVisible
<1>5. CASE LoopSteps
  <2>1. CASE BroadcastCommitment
    <3>1. UNCHANGED <<claims, takenBy>>
      BY <2>1 DEF BroadcastCommitment, redisVars
    <3> QED
      BY SMT, <1>0, <2>1, <3>1, CommitmentSigned DEF BatchVisible, QueueClaims
  <2>2. ASSUME NEW b \in Batch, ReleaseClaims(b) PROVE BatchVisible'
    <3>1. UNCHANGED spentBy
      BY <2>2 DEF ReleaseClaims, historyVars
    <3> QED
      BY <1>0, <2>2, <3>1, ReleaseEffects DEF BatchVisible, HandledRecorded
  <2>3. ASSUME NEW S \in SUBSET Intent, PopIntents(S) PROVE BatchVisible'
    <3>1. UNCHANGED spentBy
      BY <2>3 DEF PopIntents, historyVars
    <3> QED
      BY SMT, <1>0, <2>3, <3>1, PopEffects, BatchKind DEF BatchVisible, QueueClaims
  <2>4. CASE UNCHANGED <<spentBy, claims, takenBy>>
    BY <1>0, <2>4 DEF BatchVisible
  <2> QED
    BY <1>5, <2>1, <2>2, <2>3, <2>4, LoopEffects
<1>6. CASE Crash
  BY <1>0, <1>6, CrashEffects DEF BatchVisible
<1> QED
  BY <1>1, <1>2, <1>3, <1>4, <1>5, <1>6, ToleratedFaults
  DEF Next, ProjectionStep, ScannerStep, DeleteAllIntents

\* A handler runs, and claims are released, only for what the database has.
LEMMA HandledRecordedStep ==
    ASSUME IndInv, Faults \subseteq Tolerated, Next
    PROVE  HandledRecorded'
<1>0. /\ TypeOK /\ HandledRecorded /\ SignedInputs /\ RoundOrder
      /\ \A o \in Outpoint : Recorded(o) => Recorded(o)'
      /\ spent \subseteq spent' /\ utxos \subseteq utxos'
  BY DatabaseGrows, RecordedStays DEF IndInv, OffchainInv
<1>1. ASSUME NEW t \in OffchainTx, SubmitOffchainTx(t) \/ SubmitSteps(t) PROVE HandledRecorded'
  BY <1>0, <1>1, SubmitEffects, SubmitSigned, BatchKind DEF HandledRecorded
<1>2. ASSUME NEW i \in Intent, RegisterIntent(i) \/ RegisterSteps(i) \/ DeleteIntent(i)
      PROVE  HandledRecorded'
  BY <1>0, <1>2, RegisterEffects DEF HandledRecorded
<1>3. ASSUME NEW x \in OnchainTx, CosignReserves(x) \/ CosignSteps(x) PROVE HandledRecorded'
  BY SMT, <1>0, <1>3, CosignEffects, CosignSigned, BatchKind DEF HandledRecorded
<1>4. CASE ScannerStep
  BY <1>0, <1>4, ScannerEffects DEF HandledRecorded
<1>5. CASE ProjectionStep
  <2>0. UNCHANGED <<spentBy, releasing>>
    BY <1>0, <1>5, ProjectionEffects
  <2>1. ASSUME NEW t \in OffchainTx, ProjectOffchainTx(t) \/ RemoveOffchainTx(t) PROVE HandledRecorded'
    <3>1. /\ UNCHANGED <<settling, projected>>
          /\ \A s : s # t => (s \in handling' <=> s \in handling)
      BY <2>1 DEF ProjectOffchainTx, RemoveOffchainTx, loopVars
    <3> QED
      BY <1>0, <2>0, <3>1, OffchainTxKind DEF HandledRecorded
  <2>2. ASSUME NEW x \in OnchainTx, ProjectOnchainTx(x) \/ UnlockUtxos(x) PROVE HandledRecorded'
    <3>1. /\ UNCHANGED <<settling, projected>>
          /\ \A s : s # x => (s \in handling' <=> s \in handling)
          /\ x \in handling' => Inputs[x] \subseteq utxos'
      BY <1>0, <2>2 DEF ProjectOnchainTx, UnlockUtxos, loopVars, HandledRecorded
    <3> QED
      BY <1>0, <2>0, <3>1, OnchainTxKind DEF HandledRecorded
  <2>3. ASSUME NEW b \in Batch, SettleVtxos(b) PROVE HandledRecorded'
    <3>1. /\ UNCHANGED <<handling, projected>>
          /\ \A s : s # b => (s \in settling' <=> s \in settling)
          /\ batchInputs[b] \cap Vtxo \subseteq spent'
      BY <2>3 DEF SettleVtxos, loopVars
    <3> QED
      BY <1>0, <2>0, <3>1 DEF HandledRecorded, SignedInputs
  <2>4. ASSUME NEW b \in Batch, AddBoardingUtxos(b) PROVE HandledRecorded'
    <3>1. /\ UNCHANGED projected /\ b \in settling
          /\ settling' \subseteq settling
          /\ \A s : s # b => (s \in handling' <=> s \in handling)
          /\ b \in handling' => b \in handling \/ batchInputs[b] \ Vtxo \subseteq utxos'
      BY <2>4 DEF AddBoardingUtxos, loopVars
    <3>2. ASSUME NEW o \in Outpoint, b \in spentBy[o], b \in handling' PROVE Recorded(o)'
      BY <1>0, <3>1, <3>2 DEF HandledRecorded, SignedInputs, Recorded
    <3>3. \A x \in OnchainTx : x # b
      BY BatchKind
    <3> QED
      BY <1>0, <2>0, <3>1, <3>2, <3>3 DEF HandledRecorded
  <2>5. ASSUME NEW b \in Batch, MarkProjected(b) PROVE HandledRecorded'
    <3>1. /\ UNCHANGED settling /\ b \in handling /\ handling' \subseteq handling
          /\ projected' \subseteq projected \cup {b}
      BY <2>5 DEF MarkProjected
    <3> QED
      BY <1>0, <2>0, <3>1 DEF HandledRecorded
  <2>6. ASSUME NEW s \in Spender, ProjectionFails(s) PROVE HandledRecorded'
    <3>1. UNCHANGED <<handling, projected>> /\ settling' \subseteq settling
      BY <2>6 DEF ProjectionFails, loopVars
    <3> QED
      BY <1>0, <2>0, <3>1 DEF HandledRecorded
  <2> QED
    BY <1>5, <2>1, <2>2, <2>3, <2>4, <2>5, <2>6 DEF ProjectionStep, ProjectionSteps
<1>6. CASE LoopSteps
  <2>0. UNCHANGED <<settling, handling>>
    BY <1>6, LoopEffects
  <2>1. CASE BroadcastCommitment
    <3>1. loop = "finalization" /\ UNCHANGED <<projected, releasing>>
      BY <2>1 DEF BroadcastCommitment
    <3>2. roundId \in Batch /\ roundId \notin settling \cup handling \cup projected \cup releasing
      BY SMT, <1>0, <2>1, <3>1, CommitmentSigned, BatchRange DEF RoundOrder, TypeOK
    <3> QED
      BY <1>0, <2>0, <2>1, <3>1, <3>2, CommitmentSigned DEF HandledRecorded
  <2>2. CASE HoldRegistrations
    <3>1. /\ loop = "waited" /\ UNCHANGED <<projected, spentBy>>
          /\ releasing' = IF roundEnded = "no" THEN releasing \cup {roundId} ELSE releasing
      BY <2>2 DEF HoldRegistrations, historyVars
    <3>2. \A o \in Outpoint : roundEnded = "no" => roundId \notin spentBy[o]
      BY SMT, <1>0, <3>1, BatchRange DEF RoundOrder, TypeOK
    <3> QED
      BY <1>0, <2>0, <3>1, <3>2 DEF HandledRecorded
  <2>3. CASE WaitForProjections
    BY <1>0, <2>0, <2>3 DEF HandledRecorded, WaitForProjections, historyVars
  <2>4. CASE ~BroadcastCommitment /\ ~HoldRegistrations /\ ~WaitForProjections
    <3>1. UNCHANGED <<projected, spentBy>> /\ releasing' \subseteq releasing
      BY <1>6, <2>4
      DEF LoopSteps, ReleaseClaims, StartRegistration, DenyRound, PopIntents, ConfirmIntents,
          AbandonBatch, EndRound, TrackBatch, SaveBatch, historyVars
    <3> QED
      BY <1>0, <2>0, <3>1 DEF HandledRecorded
  <2> QED
    BY <2>1, <2>2, <2>3, <2>4
<1>7. CASE Crash
  BY <1>0, <1>7, CrashEffects DEF HandledRecorded
<1> QED
  BY <1>1, <1>2, <1>3, <1>4, <1>5, <1>6, <1>7, ToleratedFaults
  DEF Next, ProjectionStep, ScannerStep, DeleteAllIntents

\* A vtxo that an intent claims, queued or in a batch, is unspent.
LEMMA QueueClaimsStep ==
    ASSUME IndInv, Faults \subseteq Tolerated, Next
    PROVE  QueueClaims'
<1>0. /\ TypeOK /\ QueueClaims /\ RoundOrder /\ SubmitKnows /\ RegisterKnows /\ CosignKnows
      /\ SignedInputs
      /\ queue \subseteq Intent /\ selected \subseteq Intent
  BY DEF IndInv, OffchainInv, TypeOK
<1>1. ASSUME NEW t \in OffchainTx, SubmitOffchainTx(t) \/ SubmitSteps(t) PROVE QueueClaims'
  <2>1. ASSUME NEW o \in Outpoint, o \in claims PROVE spentBy'[o] = spentBy[o]
    BY <1>0, <1>1, <2>1, SubmitSigned DEF SubmitKnows
  <2> QED
    BY SMT, <1>0, <1>1, <2>1, SubmitEffects, IntentKind DEF QueueClaims
<1>2. ASSUME NEW i \in Intent, RegisterIntent(i) \/ RegisterSteps(i) \/ DeleteIntent(i)
      PROVE  QueueClaims'
  <2>0. UNCHANGED <<spentBy, selected, roundId>>
    BY <1>0, <1>2, RegisterEffects
  <2>1. CASE UNCHANGED <<queue, claims, takenBy>>
    BY <1>0, <2>0, <2>1 DEF QueueClaims
  <2>2. CASE RegisterPushes(i) /\ ~UNCHANGED <<queue, claims, takenBy>>
    <3>1. /\ queue' = queue \cup {i}
          /\ \A o \in Outpoint : /\ o \in claims' <=> o \in claims \/ o \in Inputs[i]
                                 /\ takenBy'[o] = IF o \in Inputs[i] THEN 0 ELSE takenBy[o]
                                 /\ o \in Inputs[i] => o \notin claims
      BY <1>0, <2>2, PushEffects
    <3>2. ASSUME NEW o \in Inputs[i] \cap Vtxo PROVE spentBy[o] = {}
      <4>1. pc[i] = "utxosRead" /\ o \in Outpoint
        BY <2>2, IntentKind DEF RegisterPushes
      <4>2. \A s \in spentBy[o] : s \in OffchainTx \cup OnchainTx \cup Batch
        BY <1>0, <4>1 DEF TypeOK, Spender
      <4> QED
        BY <1>0, <3>1, <3>2, <4>1, <4>2 DEF RegisterKnows
    <3>3. ASSUME NEW j \in queue \cup selected, j # i, NEW o \in Inputs[j] PROVE o \notin Inputs[i]
      BY <1>0, <3>1, <3>3, IntentKind DEF QueueClaims
    <3>4. \A j \in Intent : \A o \in Inputs[j] : o \in Outpoint
      BY IntentKind
    <3>6. i \notin selected
      <4>1. PICK o \in Inputs[i] : o \in Outpoint
        BY IntentKind
      <4> QED
        BY <1>0, <3>1, <4>1 DEF QueueClaims
    <3> QED
      BY SMT, <1>0, <2>0, <3>1, <3>2, <3>3, <3>4, <3>6 DEF QueueClaims
  <2>3. CASE DeleteIntent(i)
    <3>1. \A j \in Intent : \A o \in Inputs[j] : o \in Outpoint
      BY IntentKind
    <3>2. \A j \in selected : roundId # 0
      BY <1>0, BatchKind DEF RoundOrder, TypeOK
    <3> QED
      BY SMT, <1>0, <2>0, <2>3, <3>1, <3>2, DeleteEffects DEF QueueClaims
  <2> QED
    BY <1>0, <1>2, <2>1, <2>2, <2>3, RegisterEffects
<1>3. ASSUME NEW x \in OnchainTx, CosignReserves(x) \/ CosignSteps(x) PROVE QueueClaims'
  <2>1. ASSUME NEW o \in Vtxo, o \in claims PROVE spentBy'[o] = spentBy[o]
    BY <1>0, <1>3, <2>1, CosignSigned DEF CosignKnows, TypeOK
  <2> QED
    BY SMT, <1>0, <1>3, <2>1, CosignEffects, IntentKind DEF QueueClaims
<1>4. CASE ProjectionStep \/ ScannerStep
  BY <1>0, <1>4, ProjectionEffects, ScannerEffects DEF QueueClaims
<1>5. CASE LoopSteps
  <2>0. \A j \in Intent : \A o \in Inputs[j] : o \in Outpoint
    BY IntentKind
  <2>1. CASE BroadcastCommitment
    <3>1. UNCHANGED <<queue, claims, takenBy, roundId>> /\ selected' = {}
      BY <2>1 DEF BroadcastCommitment, redisVars
    <3>2. ASSUME NEW j \in queue, NEW o \in Inputs[j] PROVE spentBy'[o] = spentBy[o]
      <4>1. roundId # 0
        BY <1>0, <2>0, <2>1, BatchKind, CommitmentSigned, <3>2
      <4> QED
        BY SMT, <1>0, <2>0, <2>1, <3>2, <4>1, CommitmentSigned DEF QueueClaims
    <3> QED
      BY SMT, <1>0, <3>1, <3>2 DEF QueueClaims
  <2>2. ASSUME NEW b \in Batch, ReleaseClaims(b) PROVE QueueClaims'
    <3>1. UNCHANGED spentBy /\ selected = {}
      BY <1>0, <2>2 DEF ReleaseClaims, historyVars, RoundOrder
    <3> QED
      BY SMT, <1>0, <2>0, <2>2, <3>1, ReleaseEffects, BatchKind DEF QueueClaims
  <2>3. ASSUME NEW S \in SUBSET Intent, PopIntents(S) PROVE QueueClaims'
    <3>1. UNCHANGED spentBy
      BY <2>3 DEF PopIntents, historyVars
    <3>2. ASSUME NEW i \in queue \ S, NEW o \in Inputs[i] PROVE takenBy'[o] = 0
      BY SMT, <1>0, <2>0, <2>3, <3>2, PopEffects DEF QueueClaims
    <3> QED
      BY SMT, <1>0, <2>0, <2>3, <3>1, <3>2, PopEffects DEF QueueClaims
  <2>4. CASE UNCHANGED <<spentBy, queue, claims, takenBy>>
    <3>1. \/ selected' = {}
          \/ selected' \subseteq selected /\ roundId' = roundId
      BY <1>5, <1>0, <2>4
      DEF LoopSteps, WaitForProjections, HoldRegistrations, ReleaseClaims, StartRegistration,
          DenyRound, PopIntents, ConfirmIntents, AbandonBatch, BroadcastCommitment, EndRound,
          TrackBatch, SaveBatch, redisVars, RoundOrder
    <3> QED
      BY <1>0, <2>4, <3>1 DEF QueueClaims
  <2> QED
    BY <1>5, <2>1, <2>2, <2>3, <2>4, LoopEffects
<1>6. CASE Crash
  BY <1>0, <1>6, CrashEffects DEF QueueClaims
<1> QED
  BY <1>1, <1>2, <1>3, <1>4, <1>5, <1>6, ToleratedFaults
  DEF Next, ProjectionStep, ScannerStep, DeleteAllIntents

\* What is spent onchain is spent once: the network saw every signed spend of a boarding
\* utxo, and a commitment tx spends onchain every boarding input of its intents.
LEMMA ChainSpendsStep ==
    ASSUME IndInv, Faults \subseteq Tolerated, Next
    PROVE  ChainSpends'
<1>0. TypeOK /\ ChainSpends /\ Vtxo \subseteq Outpoint
  BY InputsAssumption DEF IndInv, OffchainInv
<1>1. ASSUME NEW t \in OffchainTx, SubmitOffchainTx(t) \/ SubmitSteps(t) PROVE ChainSpends'
  <2>1. \A o \in Outpoint \ Vtxo : spentBy'[o] = spentBy[o]
    BY <1>0, <1>1, SubmitSigned, OffchainTxKind
  <2> QED
    BY <1>0, <1>1, <2>1, SubmitEffects, OffchainTxKind, IntentKind DEF ChainSpends
<1>2. ASSUME NEW i \in Intent, RegisterIntent(i) \/ RegisterSteps(i) \/ DeleteIntent(i)
      PROVE  ChainSpends'
  <2>0. /\ UNCHANGED <<spentBy, chain, selected>>
        /\ \A j \in Intent : j # i => pc'[j] = pc[j]
    BY <1>0, <1>2, RegisterEffects, IntentKind
  <2>1. CASE RegisterIntent(i)
    <3>1. /\ UNCHANGED queue
          /\ \A j \in Intent : boards'[j] = IF j = i THEN (Inputs[i] \ Vtxo) \cup (Inputs[i] \cap unrolled)
                                            ELSE boards[j]
      BY <1>0, <2>1 DEF RegisterIntent, redisVars, TypeOK
    <3> QED
      BY <1>0, <2>0, <3>1 DEF ChainSpends
  <2>2. CASE ~RegisterIntent(i)
    <3>1. UNCHANGED boards
      BY <1>0, <1>2, <2>2, RegisterEffects
    <3>2. \A j \in queue' : j \in queue \/ (j = i /\ pc[i] # "idle")
      <4>1. ASSUME RegisterPushes(i) PROVE pc[i] # "idle"
        BY <4>1 DEF RegisterPushes
      <4> QED
        BY <1>0, <1>2, <4>1, RegisterEffects, PushEffects, DeleteEffects
    <3>3. pc'[i] # "idle" => pc[i] # "idle"
      BY <1>0, <1>2, <2>2
      DEF RegisterSteps, DeleteIntent, RegisterReadsReserved, RegisterReadsUtxos,
          RegisterReadsCache, RegisterReadsDb, RegisterReadsReservedVtxos,
          RegisterReadsUtxoVtxos, RegisterPushes, requestVars
    <3> QED
      BY <1>0, <2>0, <3>1, <3>2, <3>3 DEF ChainSpends
  <2> QED
    BY <2>1, <2>2
<1>3. ASSUME NEW x \in OnchainTx, CosignReserves(x) \/ CosignSteps(x) PROVE ChainSpends'
  BY SMT, <1>0, <1>3, CosignEffects, CosignSigned, OnchainTxKind, IntentKind DEF ChainSpends
<1>4. CASE ProjectionStep \/ ScannerStep
  BY <1>0, <1>4, ProjectionEffects, ScannerEffects DEF ChainSpends
<1>5. CASE LoopSteps
  <2>1. UNCHANGED <<pc, boards>> /\ queue' \cup selected' \subseteq queue \cup selected
    BY <1>5, LoopEffects
    DEF LoopSteps, WaitForProjections, HoldRegistrations, ReleaseClaims, StartRegistration,
        DenyRound, PopIntents, ConfirmIntents, AbandonBatch, BroadcastCommitment, EndRound,
        TrackBatch, SaveBatch, redisVars
  <2>2. ASSUME NEW o \in Outpoint \ Vtxo, spentBy'[o] # {} PROVE o \in chain'
    <3>1. CASE UNCHANGED <<spentBy, chain>>
      BY <1>0, <2>2, <3>1 DEF ChainSpends
    <3>2. CASE BroadcastCommitment
      <4>1. chain' = chain \cup UNION {boards[i] : i \in selected}
        BY <3>2 DEF BroadcastCommitment, BoardsOf
      <4>2. CASE \E i \in selected : o \in Inputs[i]
        BY <1>0, <2>2, <4>1, <4>2 DEF ChainSpends, TypeOK
      <4>3. CASE spentBy'[o] = spentBy[o]
        BY <1>0, <2>2, <4>1, <4>3 DEF ChainSpends
      <4> QED
        BY <1>0, <2>2, <3>2, <4>2, <4>3, CommitmentSigned
    <3> QED
      BY <1>5, <3>1, <3>2, LoopEffects
  <2> QED
    BY <1>0, <2>1, <2>2 DEF ChainSpends
<1>6. CASE Crash
  BY <1>0, <1>6, CrashEffects, IntentKind DEF ChainSpends
<1> QED
  BY <1>1, <1>2, <1>3, <1>4, <1>5, <1>6, ToleratedFaults
  DEF Next, ProjectionStep, ScannerStep, DeleteAllIntents

-----------------------------------------------------------------------------
(* Reservations.                                                           *)

\* A cosign request reserves, goes on with its reservation, fails or hands it over to the
\* projection of its events.
LEMMA CosignMoves ==
    ASSUME TypeOK, Faults \subseteq Tolerated, NEW x \in OnchainTx, CosignReserves(x) \/ CosignSteps(x)
    PROVE  \/ /\ pc[x] = "idle" /\ pc'[x] = "reserved" /\ UNCHANGED <<projecting, spentBy>>
              /\ reserved' = reserved \cup Inputs[x] /\ reserved \cap Inputs[x] = {}
           \/ /\ pc[x] \in Unsigned /\ pc'[x] \in Unsigned \cup {"broadcast"}
              /\ UNCHANGED <<projecting, reserved>>
           \/ /\ pc[x] \in Unsigned /\ pc'[x] = "idle" /\ UNCHANGED <<projecting, spentBy>>
              /\ reserved' = reserved \ Inputs[x]
           \/ /\ pc[x] = "broadcast" /\ pc'[x] = "idle" /\ UNCHANGED <<reserved, spentBy>>
              /\ projecting' = projecting \cup {x}
<1>0. x \in Request /\ pc \in [Request -> RequestStep] /\ "cosignSave" \notin Faults
  BY OnchainTxKind, ToleratedFaults DEF TypeOK
<1> USE <1>0 DEF Unsigned, Go, Return, CosignFails, projVars, historyVars
<1>1. CASE CosignReserves(x)
  BY <1>1 DEF CosignReserves, InReserved
<1>2. CASE CosignReadsUtxos(x)
  BY <1>2 DEF CosignReadsUtxos
<1>3. CASE CosignReadsCache(x)
  BY <1>3 DEF CosignReadsCache
<1>4. CASE CosignReadsClaims(x)
  BY <1>4 DEF CosignReadsClaims
<1>5. CASE CosignReadsDb(x)
  BY <1>5 DEF CosignReadsDb
<1>6. CASE CosignBroadcasts(x)
  BY <1>6 DEF CosignBroadcasts
<1>7. CASE CosignSaves(x)
  BY <1>7 DEF CosignSaves
<1> QED
  BY <1>1, <1>2, <1>3, <1>4, <1>5, <1>6, <1>7 DEF CosignSteps

\* What the steps of the other actors leave alone.
ReservationsUntouched ==
    /\ reserved' = reserved /\ utxos \subseteq utxos' /\ unrolled \subseteq unrolled'
    /\ \A x \in OnchainTx :
          /\ pc'[x] = pc[x]
          /\ x \in projecting' <=> x \in projecting
          /\ x \in handling' <=> x \in handling
    /\ \A o \in Outpoint : \A x \in OnchainTx : x \in spentBy'[o] <=> x \in spentBy[o]

\* Then the reservations are held as before.
LEMMA ReservationsFrame ==
    ASSUME ReservationsHeld, CosignedVisible, ReservationsUntouched
    PROVE  ReservationsHeld' /\ CosignedVisible'
<1>1. \A x \in OnchainTx : Reserves(x)' <=> Reserves(x)
  BY DEF ReservationsUntouched, Reserves
<1>2. ReservationsHeld'
  BY <1>1 DEF ReservationsHeld, ReservationsUntouched
<1>3. CosignedVisible'
  BY <1>1 DEF CosignedVisible, ReservationsUntouched
<1> QED
  BY <1>2, <1>3

\* The steps of the other actors that leave the reservations alone.
LEMMA ReservationsOthers ==
    ASSUME TypeOK, Faults \subseteq Tolerated,
           \/ \E t \in OffchainTx : \/ SubmitOffchainTx(t) \/ SubmitSteps(t)
                                    \/ ProjectOffchainTx(t) \/ RemoveOffchainTx(t)
           \/ \E i \in Intent : RegisterIntent(i) \/ RegisterSteps(i) \/ DeleteIntent(i)
           \/ \E b \in Batch : SettleVtxos(b) \/ AddBoardingUtxos(b) \/ MarkProjected(b)
           \/ ScannerStep \/ LoopSteps
    PROVE  ReservationsUntouched
<1>0. \A x \in OnchainTx : x \in Request /\ x \in Spender /\ x \notin OffchainTx /\ x \notin Intent /\ x \notin Batch
  BY OnchainTxKind
<1>1. ASSUME NEW t \in OffchainTx, SubmitOffchainTx(t) \/ SubmitSteps(t) PROVE ReservationsUntouched
  BY <1>0, <1>1, SubmitEffects, SubmitSigned DEF ReservationsUntouched
<1>2. ASSUME NEW t \in OffchainTx, ProjectOffchainTx(t) \/ RemoveOffchainTx(t) PROVE ReservationsUntouched
  BY <1>0, <1>2
  DEF ReservationsUntouched, ProjectOffchainTx, RemoveOffchainTx, redisVars, dbVars, requestVars,
      historyVars
<1>3. ASSUME NEW i \in Intent, RegisterIntent(i) \/ RegisterSteps(i) \/ DeleteIntent(i)
      PROVE  ReservationsUntouched
  BY <1>0, <1>3, RegisterEffects DEF ReservationsUntouched
<1>4. ASSUME NEW b \in Batch, SettleVtxos(b) \/ AddBoardingUtxos(b) \/ MarkProjected(b)
      PROVE  ReservationsUntouched
  BY <1>0, <1>4
  DEF ReservationsUntouched, SettleVtxos, AddBoardingUtxos, MarkProjected, redisVars, dbVars,
      requestVars, historyVars
<1>5. CASE ScannerStep
  BY <1>5, ScannerEffects DEF ReservationsUntouched
<1>6. CASE LoopSteps
  <2>1. \A x \in OnchainTx : x \in projecting' <=> x \in projecting
    <3>1. ASSUME SaveBatch PROVE roundId \in Batch /\ projecting' \subseteq projecting \cup {roundId}
                                 /\ projecting \subseteq projecting'
      BY <3>1 DEF SaveBatch, TypeOK
    <3> QED
      BY <1>0, <1>6, <3>1, LoopEffects
  <2>2. \A o \in Outpoint : \A x \in OnchainTx : x \in spentBy'[o] <=> x \in spentBy[o]
    BY <1>0, <1>6, LoopEffects, CommitmentSigned
  <2> QED
    BY <1>6, <2>1, <2>2, LoopEffects DEF ReservationsUntouched
<1> QED
  BY <1>1, <1>2, <1>3, <1>4, <1>5, <1>6

\* A cosign request keeps its reservation, and those of the others.
LEMMA CosignReservations ==
    ASSUME IndInv, Faults \subseteq Tolerated, NEW x \in OnchainTx, CosignReserves(x) \/ CosignSteps(x)
    PROVE  ReservationsHeld' /\ CosignedVisible'
<1>0. /\ TypeOK /\ ReservationsHeld /\ CosignedVisible /\ SignedInputs /\ CosignKnows
      /\ Inputs[x] # {} /\ \A y \in OnchainTx : Inputs[y] \subseteq Outpoint /\ y \in Request
  BY OnchainTxKind DEF IndInv, OffchainInv
<1>1. /\ UNCHANGED <<utxos, unrolled, handling>>
      /\ \A y \in OnchainTx : y # x => pc'[y] = pc[y] /\ (y \in projecting' <=> y \in projecting)
  BY <1>0, CosignEffects, OnchainTxKind
<1>2. \A y \in OnchainTx : y # x => (Reserves(y)' <=> Reserves(y))
  BY <1>1 DEF Reserves
<1>3. CASE /\ pc[x] = "idle" /\ pc'[x] = "reserved" /\ UNCHANGED <<projecting, spentBy>>
           /\ reserved' = reserved \cup Inputs[x] /\ reserved \cap Inputs[x] = {}
  <2>1. ~Reserves(x)
    BY <1>0, <1>3 DEF ReservationsHeld
  <2>2. Reserves(x)' /\ x \notin projecting \cup handling
    BY <1>3, <2>1 DEF Reserves, Unsigned
  <2>3. ReservationsHeld'
    BY <1>0, <1>1, <1>2, <1>3, <2>1, <2>2 DEF ReservationsHeld
  <2>4. CosignedVisible'
    BY <1>0, <1>1, <1>2, <1>3, <2>1, <2>2 DEF CosignedVisible, SignedInputs
  <2> QED
    BY <2>3, <2>4
<1>4. CASE /\ pc[x] \in Unsigned /\ pc'[x] \in Unsigned \cup {"broadcast"}
           /\ UNCHANGED <<projecting, reserved>>
  <2>1. Reserves(x) /\ Reserves(x)'
    BY <1>4 DEF Reserves
  <2>2. ReservationsHeld'
    BY <1>0, <1>1, <1>2, <1>4, <2>1 DEF ReservationsHeld
  <2>3. ASSUME NEW o \in Outpoint, spentBy'[o] = spentBy[o], NEW y \in OnchainTx, y \in spentBy[o]
        PROVE  /\ o \in Vtxo => o \in unrolled'
               /\ pc'[y] \in Unsigned => o \in utxos'
               /\ o \in utxos' \/ (o \in reserved' /\ \A z \in OnchainTx : Reserves(z)' /\ z # y => o \notin Inputs[z])
    BY <1>0, <1>1, <1>2, <1>4, <2>1, <2>3 DEF CosignedVisible
  <2>4. ASSUME NEW o \in Inputs[x], pc[x] = "locked", pc'[x] = "broadcast",
               NEW y \in OnchainTx, y \in spentBy'[o]
        PROVE  /\ o \in Vtxo => o \in unrolled'
               /\ pc'[y] \in Unsigned => o \in utxos'
               /\ o \in utxos' \/ (o \in reserved' /\ \A z \in OnchainTx : Reserves(z)' /\ z # y => o \notin Inputs[z])
    <3>1. CASE y = x
      BY <1>0, <1>1, <1>2, <1>4, <2>1, <2>4, <3>1 DEF ReservationsHeld, CosignKnows, Unsigned
    <3>2. CASE y # x
      BY <1>0, <1>1, <1>2, <1>4, <2>1, <2>4, <3>2, CosignSigned DEF CosignedVisible
    <3> QED
      BY <3>1, <3>2
  <2>5. CosignedVisible'
    BY <1>0, <2>3, <2>4, CosignSigned DEF CosignedVisible
  <2> QED
    BY <2>2, <2>5
<1>5. CASE /\ pc[x] \in Unsigned /\ pc'[x] = "idle" /\ UNCHANGED <<projecting, spentBy>>
           /\ reserved' = reserved \ Inputs[x]
  <2>1. Reserves(x) /\ ~Reserves(x)'
    BY <1>0, <1>1, <1>5 DEF Reserves, ReservationsHeld, Unsigned
  <2>2. ReservationsHeld'
    BY <1>0, <1>1, <1>2, <1>5, <2>1 DEF ReservationsHeld, Unsigned
  <2>3. CosignedVisible'
    BY <1>0, <1>1, <1>2, <1>5, <2>1 DEF CosignedVisible, Unsigned
  <2> QED
    BY <2>2, <2>3
<1>6. CASE /\ pc[x] = "broadcast" /\ pc'[x] = "idle" /\ UNCHANGED <<reserved, spentBy>>
           /\ projecting' = projecting \cup {x}
  <2>1. Reserves(x) /\ Reserves(x)'
    BY <1>6 DEF Reserves
  <2>2. ReservationsHeld'
    BY <1>0, <1>1, <1>2, <1>6, <2>1 DEF ReservationsHeld, Unsigned
  <2>3. CosignedVisible'
    BY <1>0, <1>1, <1>2, <1>6, <2>1 DEF CosignedVisible, Unsigned
  <2> QED
    BY <2>2, <2>3
<1> QED
  BY <1>0, <1>3, <1>4, <1>5, <1>6, CosignMoves

\* The reservation of a cosign request is its own until its handler runs, which is after
\* the database has its inputs.
LEMMA ReservationsStep ==
    ASSUME IndInv, Faults \subseteq Tolerated, Next
    PROVE  ReservationsHeld' /\ CosignedVisible'
<1>0. TypeOK /\ ReservationsHeld /\ CosignedVisible /\ HandledRecorded /\ SignedInputs
  BY DEF IndInv, OffchainInv
<1>1. ASSUME ReservationsUntouched PROVE ReservationsHeld' /\ CosignedVisible'
  BY <1>0, <1>1, ReservationsFrame
<1>2. ASSUME NEW x \in OnchainTx, ProjectOnchainTx(x) PROVE ReservationsHeld' /\ CosignedVisible'
  <2>1. /\ UNCHANGED <<reserved, pc, spentBy, unrolled>> /\ utxos \subseteq utxos'
        /\ x \in projecting /\ x \notin projecting'
        /\ handling \subseteq handling' /\ handling' \subseteq handling \cup {x}
        /\ \A y : y # x => (y \in projecting' <=> y \in projecting)
    BY <1>2 DEF ProjectOnchainTx, redisVars, requestVars, historyVars
  <2>2. Reserves(x) /\ \A y \in OnchainTx : Reserves(y)' => Reserves(y)
    BY <2>1 DEF Reserves
  <2>3. ReservationsHeld'
    BY <1>0, <2>1, <2>2 DEF ReservationsHeld
  <2>4. CosignedVisible'
    BY <1>0, <2>1, <2>2 DEF CosignedVisible
  <2> QED
    BY <2>3, <2>4
<1>3. ASSUME NEW x \in OnchainTx, UnlockUtxos(x) PROVE ReservationsHeld' /\ CosignedVisible'
  <2>1. /\ UNCHANGED <<pc, spentBy, unrolled, utxos, projecting>> /\ x \in handling
        /\ handling' = handling \ {x} /\ reserved' = reserved \ Inputs[x]
    BY <1>3 DEF UnlockUtxos, dbVars, requestVars, historyVars
  <2>2. /\ Reserves(x) /\ ~Reserves(x)'
        /\ \A y \in OnchainTx : y # x => (Reserves(y)' <=> Reserves(y))
    BY <1>0, <2>1 DEF Reserves, ReservationsHeld
  <2>3. ReservationsHeld'
    BY <1>0, <2>1, <2>2 DEF ReservationsHeld
  <2>4. Inputs[x] \subseteq utxos
    BY <1>0, <2>1 DEF HandledRecorded
  <2>5. CosignedVisible'
    BY <1>0, <2>1, <2>2, <2>4 DEF CosignedVisible
  <2> QED
    BY <2>3, <2>5
<1>4. ASSUME NEW s \in Spender, ProjectionFails(s) PROVE ReservationsHeld' /\ CosignedVisible'
  <2>1. /\ UNCHANGED <<reserved, pc, spentBy, unrolled, utxos, handling>>
        /\ projecting' \subseteq projecting
    BY <1>4 DEF ProjectionFails, redisVars, dbVars, requestVars, historyVars
  <2>2. \A y \in OnchainTx : Reserves(y)' => Reserves(y)
    BY <2>1 DEF Reserves
  <2>3. ReservationsHeld'
    BY <1>0, <2>1, <2>2 DEF ReservationsHeld
  <2>4. CosignedVisible'
    BY <1>0, <2>1, <2>2 DEF CosignedVisible
  <2> QED
    BY <2>3, <2>4
<1>5. CASE Crash
  <2>1. \A y \in OnchainTx : ~Reserves(y)' /\ pc'[y] = "idle"
    BY <1>5, CrashEffects, OnchainTxKind DEF Reserves, Unsigned
  <2>2. ReservationsHeld'
    BY <1>5, <2>1, CrashEffects DEF ReservationsHeld, Unsigned
  <2>3. CosignedVisible'
    BY <1>0, <1>5, <2>1, CrashEffects DEF CosignedVisible, Unsigned
  <2> QED
    BY <2>2, <2>3
<1>6. CASE \E x \in OnchainTx : CosignReserves(x) \/ CosignSteps(x)
  BY <1>6, CosignReservations
<1> QED
  BY <1>0, <1>1, <1>2, <1>3, <1>4, <1>5, <1>6, ReservationsOthers, ToleratedFaults
  DEF Next, ProjectionSteps, ScannerStep, DeleteAllIntents

-----------------------------------------------------------------------------
(* What each request knows after the reads it has made.                    *)

\* Two requests never hold offchainTxMu.
LEMMA OneHolder ==
    ASSUME IndInv, NEW q \in Request, NEW r \in Request, pc[q] \in OffLocked, pc[r] \in OffLocked
    PROVE  q = r
  BY DEF IndInv, OffchainInv, MutexHeld

\* The claims that appear are those of a registration under offchainTxMu.
LEMMA NewClaims ==
    ASSUME TypeOK, Faults \subseteq Tolerated, Next, NEW o \in Outpoint, o \in claims', o \notin claims
    PROVE  \E i \in Intent : RegisterPushes(i) /\ pc[i] = "utxosRead" /\ o \in Inputs[i]
<1>1. ASSUME NEW i \in Intent, RegisterIntent(i) \/ RegisterSteps(i) \/ DeleteIntent(i)
      PROVE  RegisterPushes(i) /\ o \in Inputs[i]
  BY <1>1, RegisterEffects, PushEffects, DeleteEffects
<1>2. ASSUME LoopSteps PROVE FALSE
  BY <1>2, LoopEffects, ReleaseEffects, PopEffects
<1>3. ASSUME NEW i \in Intent, RegisterPushes(i) PROVE pc[i] = "utxosRead"
  BY <1>3 DEF RegisterPushes
<1>4. ASSUME NEW t \in OffchainTx, SubmitOffchainTx(t) \/ SubmitSteps(t) PROVE FALSE
  BY <1>4, SubmitEffects
<1>5. ASSUME NEW x \in OnchainTx, CosignReserves(x) \/ CosignSteps(x) PROVE FALSE
  BY <1>5, CosignEffects
<1> QED
  BY <1>1, <1>2, <1>3, <1>4, <1>5, ProjectionEffects, ScannerEffects, CrashEffects, ToleratedFaults
  DEF Next, ProjectionStep, ScannerStep, DeleteAllIntents

\* Who signs, and what the signer has read.
LEMMA NewSigner ==
    ASSUME IndInv, Faults \subseteq Tolerated, Next, NEW o \in Outpoint, NEW s,
           s \in spentBy'[o], s \notin spentBy[o]
    PROVE  /\ \/ /\ s \in OffchainTx /\ o \in Inputs[s]
                 /\ pc[s] \in {"dbRead", "added"} /\ pc'[s] \in {"answered", "idle"}
              \/ /\ s \in OnchainTx /\ o \in Inputs[s] /\ o \notin chain
                 /\ pc[s] = "locked" /\ pc'[s] = "broadcast"
              \/ /\ s \in Batch /\ s = roundId /\ BroadcastCommitment
                 /\ o \in claims /\ takenBy[o] = roundId /\ UNCHANGED <<claims, takenBy>>
                 /\ \E i \in selected : o \in Inputs[i]
           /\ \A u \in spentBy'[o] : u \in spentBy[o] \/ u = s
<1>0. TypeOK /\ QueueClaims
  BY DEF IndInv, OffchainInv
<1>1. ASSUME NEW t \in OffchainTx, SubmitOffchainTx(t) \/ SubmitSteps(t)
      PROVE  /\ s = t /\ o \in Inputs[s] /\ pc[s] \in {"dbRead", "added"}
             /\ pc'[s] \in {"answered", "idle"}
             /\ \A u \in spentBy'[o] : u \in spentBy[o] \/ u = s
  <2>1. /\ s = t /\ o \in Inputs[s] /\ pc[s] \in {"dbRead", "added"}
        /\ \A u \in spentBy'[o] : u \in spentBy[o] \/ u = s
    BY <1>0, <1>1, SubmitSigned
  <2>2. SubmitAdds(t) \/ SubmitSavesOneShot(t)
    BY <1>1, <2>1
    DEF SubmitOffchainTx, SubmitSteps, SubmitReadsCache, SubmitReadsClaims, SubmitReadsDb, SubmitSaves
  <2>3. pc'[t] \in {"answered", "idle"}
    BY <1>0, <2>2, OffchainTxKind DEF SubmitAdds, SubmitSavesOneShot, Return, Go, TypeOK
  <2> QED
    BY <2>1, <2>3
<1>2. ASSUME NEW x \in OnchainTx, CosignReserves(x) \/ CosignSteps(x)
      PROVE  /\ s = x /\ o \in Inputs[s] /\ pc[s] = "locked" /\ pc'[s] = "broadcast" /\ o \notin chain
             /\ \A u \in spentBy'[o] : u \in spentBy[o] \/ u = s
  BY <1>0, <1>2, CosignSigned
<1>3. ASSUME LoopSteps
      PROVE  /\ s \in Batch /\ s = roundId /\ BroadcastCommitment
             /\ o \in claims /\ takenBy[o] = roundId /\ UNCHANGED <<claims, takenBy>>
             /\ \E i \in selected : o \in Inputs[i]
             /\ \A u \in spentBy'[o] : u \in spentBy[o] \/ u = s
  <2>1. BroadcastCommitment
    BY <1>3, LoopEffects
  <2>2. /\ s = roundId /\ roundId \in Batch /\ \E i \in selected : o \in Inputs[i]
        /\ \A u \in spentBy'[o] : u \in spentBy[o] \/ u = s
    BY <1>0, <2>1, CommitmentSigned
  <2> QED
    BY <1>0, <2>1, <2>2 DEF BroadcastCommitment, redisVars, QueueClaims
<1>4. ASSUME NEW i \in Intent, RegisterIntent(i) \/ RegisterSteps(i) \/ DeleteIntent(i) PROVE FALSE
  BY <1>0, <1>4, RegisterEffects
<1> QED
  BY <1>0, <1>1, <1>2, <1>3, <1>4, ProjectionEffects, ScannerEffects, CrashEffects, ToleratedFaults
  DEF Next, ProjectionStep, ScannerStep, DeleteAllIntents

\* A request moves by its own steps, or is forgotten by a restart.
LEMMA OthersStill ==
    ASSUME TypeOK, Faults \subseteq Tolerated, Next, NEW r \in Request
    PROVE  \/ pc'[r] = pc[r] \/ pc'[r] = "idle"
           \/ r \in OffchainTx /\ (SubmitOffchainTx(r) \/ SubmitSteps(r))
           \/ r \in Intent /\ (RegisterIntent(r) \/ RegisterSteps(r) \/ DeleteIntent(r))
           \/ r \in OnchainTx /\ (CosignReserves(r) \/ CosignSteps(r))
<1>1. ASSUME NEW t \in OffchainTx, SubmitOffchainTx(t) \/ SubmitSteps(t), r # t PROVE pc'[r] = pc[r]
  BY <1>1, SubmitEffects
<1>2. ASSUME NEW i \in Intent, RegisterIntent(i) \/ RegisterSteps(i) \/ DeleteIntent(i), r # i
      PROVE  pc'[r] = pc[r]
  BY <1>2, RegisterEffects
<1>3. ASSUME NEW x \in OnchainTx, CosignReserves(x) \/ CosignSteps(x), r # x PROVE pc'[r] = pc[r]
  BY <1>3, CosignEffects
<1> QED
  BY <1>1, <1>2, <1>3, ProjectionEffects, ScannerEffects, LoopEffects, CrashEffects, ToleratedFaults
  DEF Next, ProjectionStep, ScannerStep, DeleteAllIntents

\* How SubmitOffchainTx gets to the steps where it knows its inputs free.
LEMMA SubmitProgress ==
    ASSUME TypeOK, Faults \subseteq Tolerated, Next, NEW t \in OffchainTx,
           pc'[t] \in {"claimsRead", "dbRead", "added"}
    PROVE  \/ pc'[t] = pc[t]
           \/ /\ UNCHANGED <<claims, spent, spentBy>> /\ \A x \in OnchainTx : pc'[x] = pc[x]
              /\ \/ pc'[t] = "claimsRead" /\ pc[t] = "offCacheRead" /\ Inputs[t] \cap claims = {}
                 \/ /\ pc'[t] = "dbRead" /\ pc[t] = "claimsRead"
                    /\ Inputs[t] \cap (spent \cup unrolled) = {}
                 \/ pc'[t] = "added" /\ pc[t] = "dbRead"
<1>0. t \in Request /\ pc \in [Request -> RequestStep]
  BY OffchainTxKind DEF TypeOK
<1>1. CASE SubmitOffchainTx(t) \/ SubmitSteps(t)
  <2>1. UNCHANGED <<claims, spent>> /\ \A x \in OnchainTx : pc'[x] = pc[x]
    BY <1>1, SubmitEffects, OnchainTxKind
  <2>2. /\ UNCHANGED spentBy
        /\ \/ pc'[t] = "claimsRead" /\ pc[t] = "offCacheRead" /\ Inputs[t] \cap claims = {}
           \/ /\ pc'[t] = "dbRead" /\ pc[t] = "claimsRead"
              /\ Inputs[t] \cap (spent \cup unrolled) = {}
           \/ pc'[t] = "added" /\ pc[t] = "dbRead"
    BY <1>0, <1>1
    DEF SubmitOffchainTx, SubmitSteps, SubmitReadsCache, SubmitReadsClaims, SubmitReadsDb, SubmitAdds,
        SubmitSavesOneShot, SubmitSaves, Go, Return, InClaims, historyVars
  <2> QED
    BY <2>1, <2>2
<1> QED
  BY <1>0, <1>1, OthersStill, OffchainTxKind

\* How RegisterIntent gets to the steps under offchainTxMu.
LEMMA RegisterProgress ==
    ASSUME TypeOK, Faults \subseteq Tolerated, Next, NEW i \in Intent,
           pc'[i] \in {"offCacheRead", "dbRead", "reservedRead", "utxosRead"}
    PROVE  \/ pc'[i] = pc[i]
           \/ /\ UNCHANGED <<claims, takenBy, spent, utxos, reserved, spentBy>>
              /\ \A x \in OnchainTx : pc'[x] = pc[x]
              /\ \/ pc'[i] = "offCacheRead" /\ ~InOffCache(Inputs[i] \cap Vtxo)
                 \/ pc'[i] = "dbRead" /\ pc[i] = "offCacheRead" /\ Inputs[i] \cap spent = {}
                 \/ /\ pc'[i] = "reservedRead" /\ pc[i] = "dbRead"
                    /\ Inputs[i] \cap Vtxo \cap reserved = {}
                 \/ /\ pc'[i] = "utxosRead" /\ pc[i] = "reservedRead"
                    /\ Inputs[i] \cap Vtxo \cap utxos = {}
<1>0. i \in Request /\ pc \in [Request -> RequestStep]
  BY IntentKind DEF TypeOK
<1>1. CASE RegisterIntent(i) \/ RegisterSteps(i) \/ DeleteIntent(i)
  <2>1. UNCHANGED <<spent, utxos, reserved, spentBy>> /\ \A x \in OnchainTx : pc'[x] = pc[x]
    BY <1>1, RegisterEffects, OnchainTxKind
  <2>2. \/ pc'[i] = pc[i]
        \/ /\ UNCHANGED <<claims, takenBy>>
           /\ \/ pc'[i] = "offCacheRead" /\ ~InOffCache(Inputs[i] \cap Vtxo)
              \/ pc'[i] = "dbRead" /\ pc[i] = "offCacheRead" /\ Inputs[i] \cap spent = {}
              \/ /\ pc'[i] = "reservedRead" /\ pc[i] = "dbRead"
                 /\ Inputs[i] \cap Vtxo \cap reserved = {}
              \/ /\ pc'[i] = "utxosRead" /\ pc[i] = "reservedRead"
                 /\ Inputs[i] \cap Vtxo \cap utxos = {}
    BY <1>0, <1>1
    DEF RegisterIntent, RegisterSteps, DeleteIntent, RegisterReadsReserved, RegisterReadsUtxos,
        RegisterReadsCache, RegisterReadsDb, RegisterReadsReservedVtxos, RegisterReadsUtxoVtxos,
        RegisterPushes, Go, Return, InReserved, InUtxos, redisVars, requestVars
  <2> QED
    BY <2>1, <2>2
<1> QED
  BY <1>0, <1>1, OthersStill, IntentKind

\* How CosignOnchainTx gets to the steps that follow a read.
LEMMA CosignProgress ==
    ASSUME TypeOK, Faults \subseteq Tolerated, Next, NEW x \in OnchainTx,
           pc'[x] \in {"unsigned", "offCacheRead", "claimsRead", "locked"}
    PROVE  \/ pc'[x] = pc[x]
           \/ /\ UNCHANGED <<claims, spent, unrolled, spentBy>>
              /\ \/ pc'[x] = "unsigned" /\ pc[x] = "reserved" /\ Inputs[x] \cap utxos = {}
                 \/ pc'[x] = "offCacheRead" /\ pc[x] = "unsigned" /\ ~InOffCache(Inputs[x])
                 \/ pc'[x] = "claimsRead" /\ pc[x] = "offCacheRead" /\ Inputs[x] \cap claims = {}
                 \/ /\ pc'[x] = "locked" /\ pc[x] = "claimsRead"
                    /\ Inputs[x] \cap Vtxo \subseteq unrolled \ spent
<1>0. x \in Request /\ pc \in [Request -> RequestStep]
  BY OnchainTxKind DEF TypeOK
<1>1. CASE CosignReserves(x) \/ CosignSteps(x)
  <2>1. UNCHANGED <<claims, spent, unrolled>>
    BY <1>1, CosignEffects
  <2>2. /\ UNCHANGED spentBy
        /\ \/ pc'[x] = "unsigned" /\ pc[x] = "reserved" /\ Inputs[x] \cap utxos = {}
           \/ pc'[x] = "offCacheRead" /\ pc[x] = "unsigned" /\ ~InOffCache(Inputs[x])
           \/ pc'[x] = "claimsRead" /\ pc[x] = "offCacheRead" /\ Inputs[x] \cap claims = {}
           \/ /\ pc'[x] = "locked" /\ pc[x] = "claimsRead"
              /\ Inputs[x] \cap Vtxo \subseteq unrolled \ spent
    BY <1>0, <1>1
    DEF CosignReserves, CosignSteps, CosignReadsUtxos, CosignReadsCache, CosignReadsClaims,
        CosignReadsDb, CosignBroadcasts, CosignSaves, CosignFails, Go, Return, InClaims, InUtxos,
        historyVars
  <2> QED
    BY <2>1, <2>2
<1> QED
  BY <1>0, <1>1, OthersStill, OnchainTxKind

\* A cosign request locks its inputs under offchainTxMu.
LEMMA NewLock ==
    ASSUME TypeOK, Faults \subseteq Tolerated, Next, NEW x \in OnchainTx, pc'[x] = "locked", pc[x] # "locked"
    PROVE  pc[x] = "claimsRead"
  BY CosignProgress

\* A claim taken for a batch stays, unless registrations are held.
LEMMA TakenStays ==
    ASSUME IndInv, Faults \subseteq Tolerated, Next, NEW o \in claims, takenBy[o] # 0, loop # "held"
    PROVE  o \in claims' /\ takenBy'[o] = takenBy[o]
<1>0. TypeOK /\ QueueClaims /\ o \in Outpoint
  BY DEF IndInv, OffchainInv, TypeOK
<1>1. ASSUME NEW i \in Intent, RegisterIntent(i) \/ RegisterSteps(i) \/ DeleteIntent(i)
      PROVE  o \in claims' /\ takenBy'[o] = takenBy[o]
  <2>1. CASE UNCHANGED <<claims, takenBy>>
    BY <2>1
  <2>2. CASE RegisterPushes(i)
    BY <1>0, <2>2, PushEffects
  <2>3. CASE DeleteIntent(i)
    <3>1. o \notin Inputs[i]
      BY <1>0, <2>3, DeleteEffects DEF QueueClaims
    <3> QED
      BY <1>0, <2>3, <3>1, DeleteEffects
  <2> QED
    BY <1>0, <1>1, <2>1, <2>2, <2>3, RegisterEffects
<1>2. CASE LoopSteps
  BY <1>0, <1>2, LoopEffects, ReleaseEffects, PopEffects DEF QueueClaims
<1>3. ASSUME NEW t \in OffchainTx, SubmitOffchainTx(t) \/ SubmitSteps(t) PROVE UNCHANGED <<claims, takenBy>>
  BY <1>0, <1>3, SubmitEffects
<1>4. ASSUME NEW x \in OnchainTx, CosignReserves(x) \/ CosignSteps(x) PROVE UNCHANGED <<claims, takenBy>>
  BY <1>0, <1>4, CosignEffects
<1> QED
  BY SMT, <1>0, <1>1, <1>2, <1>3, <1>4, ProjectionEffects, ScannerEffects, CrashEffects, ToleratedFaults
  DEF Next, ProjectionStep, ScannerStep, DeleteAllIntents

\* What an offchain tx knows of its inputs.
LEMMA SubmitKnowsStep ==
    ASSUME IndInv, Faults \subseteq Tolerated, Next
    PROVE  SubmitKnows'
<1>0. /\ TypeOK /\ SubmitKnows /\ BatchVisible /\ CosignedVisible /\ CosignKnows /\ OffchainKnows
      /\ spent \subseteq spent'
  BY DatabaseGrows DEF IndInv, OffchainInv
<1> SUFFICES ASSUME NEW t \in OffchainTx, NEW o \in Inputs[t],
                    pc'[t] \in {"claimsRead", "dbRead", "added"}
             PROVE  /\ o \notin claims'
                    /\ pc'[t] = "claimsRead" => \A b \in Batch : b \in spentBy'[o] => o \in spent'
                    /\ pc'[t] \in {"dbRead", "added"} =>
                          /\ spentBy'[o] = {}
                          /\ \A x \in OnchainTx : o \in Inputs[x] => pc'[x] # "locked"
  BY DEF SubmitKnows
<1>1. o \in Outpoint /\ o \in Vtxo /\ t \in Request
  BY OffchainTxKind
<1>2. CASE pc'[t] = pc[t]
  <2>0. pc[t] \in OffLocked /\ o \notin claims
    BY <1>0, <1>2 DEF OffLocked, SubmitKnows
  <2>1. o \notin claims'
    <3>1. ASSUME NEW i \in Intent, pc[i] = "utxosRead" PROVE FALSE
      BY <1>1, <2>0, <3>1, OneHolder, IntentKind DEF OffLocked
    <3> QED
      BY <1>0, <1>1, <2>0, <3>1, NewClaims
  <2>2. \A b \in Batch : b \in spentBy'[o] => b \in spentBy[o]
    BY <1>1, <2>0, NewSigner, BatchKind
  <2>3. ASSUME pc'[t] \in {"dbRead", "added"} PROVE spentBy'[o] = {}
    <3>1. spentBy[o] = {} /\ \A x \in OnchainTx : o \in Inputs[x] => pc[x] # "locked"
      BY <1>0, <1>2, <2>3 DEF SubmitKnows
    <3>2. ASSUME NEW s \in spentBy'[o] PROVE FALSE
      <4>1. CASE s \in OffchainTx /\ pc[s] \in {"dbRead", "added"} /\ pc'[s] \in {"answered", "idle"}
        BY <1>1, <2>0, <2>3, <4>1, OneHolder, OffchainTxKind DEF OffLocked
      <4> QED
        BY <1>1, <2>0, <3>1, <3>2, <4>1, NewSigner
    <3> QED
      BY <3>2
  <2>4. ASSUME pc'[t] \in {"dbRead", "added"}, NEW x \in OnchainTx, o \in Inputs[x], pc'[x] = "locked"
        PROVE  FALSE
    <3>1. pc[x] # "locked"
      BY <1>0, <1>2, <2>4 DEF SubmitKnows
    <3>2. pc[x] = "claimsRead"
      BY <1>0, <2>4, <3>1, NewLock
    <3> QED
      BY <1>1, <2>0, <3>2, OneHolder, OnchainTxKind DEF OffLocked
  <2> QED
    BY <1>0, <1>2, <2>1, <2>2, <2>3, <2>4 DEF SubmitKnows
<1>3. CASE /\ UNCHANGED <<claims, spent, spentBy>> /\ \A x \in OnchainTx : pc'[x] = pc[x]
           /\ \/ pc'[t] = "claimsRead" /\ pc[t] = "offCacheRead" /\ Inputs[t] \cap claims = {}
              \/ /\ pc'[t] = "dbRead" /\ pc[t] = "claimsRead"
                 /\ Inputs[t] \cap (spent \cup unrolled) = {}
              \/ pc'[t] = "added" /\ pc[t] = "dbRead"
  <2>1. CASE pc'[t] = "claimsRead" /\ pc[t] = "offCacheRead" /\ Inputs[t] \cap claims = {}
    BY <1>0, <1>1, <1>3, <2>1 DEF BatchVisible, Recorded
  <2>2. CASE pc'[t] = "dbRead" /\ pc[t] = "claimsRead" /\ Inputs[t] \cap (spent \cup unrolled) = {}
    <3>1. \A s \in spentBy[o] : s \in OffchainTx \cup OnchainTx \cup Batch
      BY <1>0, <1>1 DEF TypeOK, Spender
    <3>2. spentBy[o] = {}
      BY <1>0, <1>1, <2>2, <3>1 DEF OffchainKnows, SubmitKnows, CosignedVisible
    <3> QED
      BY <1>0, <1>1, <1>3, <2>2, <3>2 DEF SubmitKnows, CosignKnows
  <2>3. CASE pc'[t] = "added" /\ pc[t] = "dbRead"
    BY <1>0, <1>3, <2>3 DEF SubmitKnows
  <2> QED
    BY <1>3, <2>1, <2>2, <2>3
<1> QED
  BY <1>0, <1>2, <1>3, SubmitProgress

\* What a registration knows of its vtxos.
LEMMA RegisterKnowsStep ==
    ASSUME IndInv, Faults \subseteq Tolerated, Next
    PROVE  RegisterKnows'
<1>0. /\ TypeOK /\ RegisterKnows /\ BatchVisible /\ CosignedVisible /\ ReservationsHeld
      /\ OffchainVisible /\ OffchainSigned /\ ReadersHeld
      /\ spent \subseteq spent' /\ utxos \subseteq utxos'
  BY DatabaseGrows DEF IndInv, OffchainInv
<1> SUFFICES ASSUME NEW i \in Intent, NEW o \in Inputs[i] \cap Vtxo,
                    pc'[i] \in {"offCacheRead", "dbRead", "reservedRead", "utxosRead"}
             PROVE  /\ pc'[i] = "offCacheRead" => \A t \in OffchainTx : t \in spentBy'[o] => o \in spent'
                    /\ pc'[i] \in {"dbRead", "reservedRead", "utxosRead"} =>
                          /\ \A t \in OffchainTx : t \notin spentBy'[o]
                          /\ \A b \in Batch : b \in spentBy'[o] => o \in claims' /\ takenBy'[o] = b
                    /\ pc'[i] = "reservedRead" => \A x \in OnchainTx :
                          o \in Inputs[x] /\ (pc'[x] = "locked" \/ x \in spentBy'[o]) => o \in utxos'
                    /\ pc'[i] = "utxosRead" => \A x \in OnchainTx :
                          x \notin spentBy'[o] /\ (o \in Inputs[x] => pc'[x] # "locked")
  BY SMT DEF RegisterKnows
<1>1. o \in Outpoint /\ i \in Request
  BY IntentKind
<1>2. CASE pc'[i] = pc[i]
  <2>0. pc[i] \in OffLocked /\ loop # "held"
    BY <1>0, <1>2 DEF OffLocked, ReadersHeld
  <2>1. ASSUME NEW t \in OffchainTx, t \in spentBy'[o] PROVE t \in spentBy[o]
    <3>1. ASSUME pc[t] \in {"dbRead", "added"} PROVE FALSE
      BY <1>1, <2>0, <3>1, OneHolder, OffchainTxKind DEF OffLocked
    <3> QED
      BY <1>1, <2>1, <3>1, NewSigner, OffchainTxKind
  <2>2. ASSUME NEW b \in Batch, b \in spentBy'[o], b \notin spentBy[o] PROVE o \in claims' /\ takenBy'[o] = b
    BY <1>1, <2>2, NewSigner, BatchKind
  <2>3. ASSUME NEW b \in Batch, o \in claims, takenBy[o] = b PROVE o \in claims' /\ takenBy'[o] = b
    BY <2>0, <2>3, TakenStays, BatchKind
  <2>4. ASSUME NEW x \in OnchainTx, pc'[x] = "locked" PROVE pc[x] = "locked"
    <3>1. ASSUME pc[x] = "claimsRead" PROVE FALSE
      BY <1>1, <2>0, <3>1, OneHolder, OnchainTxKind DEF OffLocked
    <3> QED
      BY <1>0, <2>4, <3>1, NewLock
  <2>5. ASSUME NEW x \in OnchainTx, x \in spentBy'[o], x \notin spentBy[o]
        PROVE  o \in Inputs[x] /\ pc[x] = "locked"
    BY <1>1, <2>5, NewSigner, OnchainTxKind
  <2>6. pc'[i] = "offCacheRead" => \A t \in OffchainTx : t \in spentBy'[o] => o \in spent'
    BY <1>0, <1>2, <2>1 DEF RegisterKnows
  <2>7. pc'[i] \in {"dbRead", "reservedRead", "utxosRead"} => \A t \in OffchainTx : t \notin spentBy'[o]
    BY <1>0, <1>2, <2>1 DEF RegisterKnows
  <2>8. pc'[i] \in {"dbRead", "reservedRead", "utxosRead"} =>
          \A b \in Batch : b \in spentBy'[o] => o \in claims' /\ takenBy'[o] = b
    BY <1>0, <1>2, <2>2, <2>3 DEF RegisterKnows
  <2>9. pc'[i] = "reservedRead" => \A x \in OnchainTx :
          o \in Inputs[x] /\ (pc'[x] = "locked" \/ x \in spentBy'[o]) => o \in utxos'
    BY <1>0, <1>2, <2>4, <2>5 DEF RegisterKnows
  <2>10. pc'[i] = "utxosRead" => \A x \in OnchainTx :
           x \notin spentBy'[o] /\ (o \in Inputs[x] => pc'[x] # "locked")
    BY <1>0, <1>2, <2>4, <2>5 DEF RegisterKnows
  <2> QED
    BY <2>6, <2>7, <2>8, <2>9, <2>10
<1>3. CASE /\ UNCHANGED <<claims, takenBy, spent, utxos, reserved, spentBy>>
           /\ \A x \in OnchainTx : pc'[x] = pc[x]
           /\ \/ pc'[i] = "offCacheRead" /\ ~InOffCache(Inputs[i] \cap Vtxo)
              \/ pc'[i] = "dbRead" /\ pc[i] = "offCacheRead" /\ Inputs[i] \cap spent = {}
              \/ /\ pc'[i] = "reservedRead" /\ pc[i] = "dbRead"
                 /\ Inputs[i] \cap Vtxo \cap reserved = {}
              \/ /\ pc'[i] = "utxosRead" /\ pc[i] = "reservedRead"
                 /\ Inputs[i] \cap Vtxo \cap utxos = {}
  <2>1. CASE pc'[i] = "offCacheRead" /\ ~InOffCache(Inputs[i] \cap Vtxo)
    <3>1. \A t \in offCache : o \notin Inputs[t]
      BY <2>1, CacheMiss
    <3> QED
      BY <1>0, <1>1, <1>3, <2>1, <3>1 DEF OffchainVisible, OffchainSigned
  <2>2. CASE pc'[i] = "dbRead" /\ pc[i] = "offCacheRead" /\ Inputs[i] \cap spent = {}
    BY <1>0, <1>1, <1>3, <2>2 DEF RegisterKnows, BatchVisible, Recorded
  <2>3. CASE pc'[i] = "reservedRead" /\ pc[i] = "dbRead" /\ Inputs[i] \cap Vtxo \cap reserved = {}
    <3>1. ASSUME NEW x \in OnchainTx, o \in Inputs[x] PROVE pc[x] # "locked"
      BY <1>0, <2>3, <3>1 DEF ReservationsHeld, Reserves, Unsigned
    <3> QED
      BY <1>0, <1>1, <1>3, <2>3, <3>1 DEF RegisterKnows, CosignedVisible
  <2>4. CASE pc'[i] = "utxosRead" /\ pc[i] = "reservedRead" /\ Inputs[i] \cap Vtxo \cap utxos = {}
    <3>1. \A x \in OnchainTx : x \in spentBy[o] => o \in Inputs[x]
      BY <1>1, OnchainTxKind DEF IndInv, SignedInputs
    <3> QED
      BY SMT, <1>0, <1>1, <1>3, <2>4, <3>1 DEF RegisterKnows
  <2> QED
    BY <1>3, <2>1, <2>2, <2>3, <2>4
<1> QED
  BY <1>0, <1>2, <1>3, RegisterProgress

\* What a cosign request knows of its vtxos.
LEMMA CosignKnowsStep ==
    ASSUME IndInv, Faults \subseteq Tolerated, Next
    PROVE  CosignKnows'
<1>0. /\ TypeOK /\ CosignKnows /\ SubmitKnows /\ RegisterKnows /\ BatchVisible /\ CosignedVisible
      /\ ReservationsHeld /\ OffchainVisible /\ OffchainSigned
      /\ spent \subseteq spent' /\ unrolled \subseteq unrolled'
  BY DatabaseGrows DEF IndInv, OffchainInv
<1> SUFFICES ASSUME NEW x \in OnchainTx, NEW o \in Inputs[x] \cap Vtxo,
                    pc'[x] \in {"unsigned", "offCacheRead", "claimsRead", "locked"}
             PROVE  /\ \A y \in OnchainTx : y # x => y \notin spentBy'[o]
                    /\ pc'[x] \in {"offCacheRead", "claimsRead"} =>
                          \A t \in OffchainTx : t \in spentBy'[o] => o \in spent'
                    /\ pc'[x] \in {"claimsRead", "locked"} => o \notin claims'
                    /\ pc'[x] = "claimsRead" => \A b \in Batch : b \in spentBy'[o] => o \in spent'
                    /\ pc'[x] = "locked" =>
                          /\ o \in unrolled'
                          /\ \A s \in OffchainTx \cup Batch : s \notin spentBy'[o]
  BY DEF CosignKnows
<1>1. o \in Outpoint /\ x \in Request
  BY OnchainTxKind
<1>2. CASE pc'[x] = pc[x]
  <2>1. ASSUME NEW y \in OnchainTx, y # x, y \in spentBy'[o], y \notin spentBy[o] PROVE FALSE
    <3>1. o \in Inputs[y] /\ pc[y] = "locked"
      BY <1>1, <2>1, NewSigner, OnchainTxKind
    <3>2. Reserves(x) /\ Reserves(y)
      BY <1>2, <3>1 DEF Reserves, Unsigned
    <3> QED
      BY <1>0, <2>1, <3>1, <3>2 DEF ReservationsHeld
  <2>2. ASSUME NEW t \in OffchainTx, t \in spentBy'[o], t \notin spentBy[o]
        PROVE  pc[x] = "unsigned"
    <3>1. o \in Inputs[t] /\ pc[t] \in {"dbRead", "added"}
      BY <1>1, <2>2, NewSigner, OffchainTxKind
    <3>2. pc[x] \notin OffLocked
      BY <1>1, <3>1, OneHolder, OffchainTxKind, OnchainTxKind DEF OffLocked
    <3> QED
      BY <1>0, <1>2, <3>1, <3>2 DEF OffLocked, SubmitKnows
  <2>3. ASSUME pc[x] \in {"claimsRead", "locked"} PROVE o \notin claims'
    <3>1. o \notin claims
      BY <1>0, <2>3 DEF CosignKnows
    <3>2. ASSUME NEW i \in Intent, pc[i] = "utxosRead", o \in Inputs[i] PROVE FALSE
      <4>1. pc[x] # "locked"
        BY <1>0, <3>2 DEF RegisterKnows
      <4>2. pc[x] \in OffLocked /\ pc[i] \in OffLocked
        BY <2>3, <3>2, <4>1 DEF OffLocked
      <4> QED
        BY <1>1, <4>2, OneHolder, IntentKind
    <3> QED
      BY <1>0, <1>1, <3>1, <3>2, NewClaims
  <2>4. ASSUME NEW b \in Batch, pc[x] \in {"claimsRead", "locked"}, b \in spentBy'[o]
        PROVE  b \in spentBy[o]
    <3>1. o \notin claims
      BY <1>0, <2>4 DEF CosignKnows
    <3> QED
      BY <1>1, <2>4, <3>1, NewSigner, BatchKind
  <2> QED
    BY <1>0, <1>2, <2>1, <2>2, <2>3, <2>4 DEF CosignKnows
<1>3. CASE /\ UNCHANGED <<claims, spent, unrolled, spentBy>>
           /\ \/ pc'[x] = "unsigned" /\ pc[x] = "reserved" /\ Inputs[x] \cap utxos = {}
              \/ pc'[x] = "offCacheRead" /\ pc[x] = "unsigned" /\ ~InOffCache(Inputs[x])
              \/ pc'[x] = "claimsRead" /\ pc[x] = "offCacheRead" /\ Inputs[x] \cap claims = {}
              \/ /\ pc'[x] = "locked" /\ pc[x] = "claimsRead"
                 /\ Inputs[x] \cap Vtxo \subseteq unrolled \ spent
  <2>1. CASE pc'[x] = "unsigned" /\ pc[x] = "reserved" /\ Inputs[x] \cap utxos = {}
    <3>1. Reserves(x)
      BY <2>1 DEF Reserves, Unsigned
    <3> QED
      BY <1>0, <1>1, <1>3, <2>1, <3>1 DEF CosignedVisible
  <2>2. CASE pc'[x] = "offCacheRead" /\ pc[x] = "unsigned" /\ ~InOffCache(Inputs[x])
    <3>1. \A t \in offCache : o \notin Inputs[t]
      BY <2>2, CacheMiss
    <3> QED
      BY <1>0, <1>1, <1>3, <2>2, <3>1 DEF CosignKnows, OffchainVisible, OffchainSigned
  <2>3. CASE pc'[x] = "claimsRead" /\ pc[x] = "offCacheRead" /\ Inputs[x] \cap claims = {}
    BY <1>0, <1>1, <1>3, <2>3 DEF CosignKnows, BatchVisible, Recorded
  <2>4. CASE pc'[x] = "locked" /\ pc[x] = "claimsRead" /\ Inputs[x] \cap Vtxo \subseteq unrolled \ spent
    BY <1>0, <1>1, <1>3, <2>4 DEF CosignKnows
  <2> QED
    BY <1>3, <2>1, <2>2, <2>3, <2>4
<1> QED
  BY <1>0, <1>2, <1>3, CosignProgress

-----------------------------------------------------------------------------
(* The theorems.                                                           *)

\* A signature takes outpoints that are free.
LEMMA SignsFree ==
    ASSUME IndInv, Faults \subseteq Tolerated, Next
    PROVE  \/ UNCHANGED spentBy
           \/ \E s \in Spender : \E S \in SUBSET Outpoint :
                 Sign(s, S) /\ \A o \in S : spentBy[o] \subseteq {s}
<1>0. /\ TypeOK /\ SubmitKnows /\ CosignKnows /\ QueueClaims /\ ChainSpends
      /\ Vtxo \subseteq Outpoint
  BY InputsAssumption DEF IndInv, OffchainInv
<1>1. ASSUME NEW t \in OffchainTx, SubmitOffchainTx(t) \/ SubmitSteps(t), ~UNCHANGED spentBy
      PROVE  Sign(t, Inputs[t]) /\ \A o \in Inputs[t] : spentBy[o] \subseteq {t}
  <2>1. pc[t] \in {"dbRead", "added"} /\ Sign(t, Inputs[t])
    BY <1>0, <1>1, SubmitEffects
  <2> QED
    BY <1>0, <2>1 DEF SubmitKnows
<1>2. ASSUME NEW x \in OnchainTx, CosignReserves(x) \/ CosignSteps(x), ~UNCHANGED spentBy
      PROVE  Sign(x, Inputs[x]) /\ \A o \in Inputs[x] : spentBy[o] \subseteq {x}
  <2>1. CosignBroadcasts(x) /\ Sign(x, Inputs[x]) /\ Inputs[x] \cap chain = {}
    BY <1>0, <1>2, CosignEffects
  <2>2. ASSUME NEW o \in Inputs[x] PROVE spentBy[o] \subseteq {x}
    <3>1. pc[x] = "locked" /\ o \in Outpoint
      BY <2>1, OnchainTxKind DEF CosignBroadcasts
    <3>2. CASE o \notin Vtxo
      BY <1>0, <2>1, <2>2, <3>1, <3>2 DEF ChainSpends
    <3>3. CASE o \in Vtxo
      <4>1. \A s \in spentBy[o] : s \in OffchainTx \cup OnchainTx \cup Batch
        BY <1>0, <3>1 DEF TypeOK, Spender
      <4> QED
        BY <1>0, <2>2, <3>1, <3>3, <4>1 DEF CosignKnows
    <3> QED
      BY SMT, <3>2, <3>3
  <2> QED
    BY <2>1, <2>2
<1>3. ASSUME LoopSteps, ~UNCHANGED spentBy
      PROVE  /\ roundId \in Batch /\ Sign(roundId, InputsOf(selected))
             /\ InputsOf(selected) \subseteq Outpoint
             /\ \A o \in InputsOf(selected) : spentBy[o] \subseteq {roundId}
  <2>1. BroadcastCommitment
    BY <1>3, LoopEffects
  <2>2. /\ roundId \in Batch /\ Sign(roundId, InputsOf(selected)) /\ BoardsOf(selected) \cap chain = {}
        /\ selected \in SUBSET Intent
    BY <1>0, <2>1 DEF BroadcastCommitment, TypeOK
  <2>3. InputsOf(selected) \subseteq Outpoint
    BY <2>2, IntentsInputs
  <2>4. ASSUME NEW o \in InputsOf(selected) PROVE spentBy[o] = {}
    <3>1. PICK i \in selected : o \in Inputs[i]
      BY DEF InputsOf
    <3>2. CASE o \in Vtxo
      BY <1>0, <3>1, <3>2 DEF QueueClaims
    <3>3. CASE o \notin Vtxo
      <4>1. o \in boards[i]
        BY <1>0, <2>2, <3>1, <3>3 DEF ChainSpends
      <4>2. o \notin chain
        BY <2>2, <3>1, <4>1 DEF BoardsOf
      <4> QED
        BY <1>0, <2>3, <3>3, <4>2 DEF ChainSpends
    <3> QED
      BY <3>2, <3>3
  <2> QED
    BY <2>2, <2>3, <2>4
<1>4. ASSUME NEW i \in Intent, RegisterIntent(i) \/ RegisterSteps(i) \/ DeleteIntent(i) PROVE UNCHANGED spentBy
  BY <1>0, <1>4, RegisterEffects
<1>5. CASE ProjectionStep \/ ScannerStep \/ Crash
  BY <1>0, <1>5, ProjectionEffects, ScannerEffects, CrashEffects
<1>6. \/ \E t \in OffchainTx : SubmitOffchainTx(t) \/ SubmitSteps(t)
      \/ \E i \in Intent : RegisterIntent(i) \/ RegisterSteps(i) \/ DeleteIntent(i)
      \/ \E x \in OnchainTx : CosignReserves(x) \/ CosignSteps(x)
      \/ LoopSteps \/ ProjectionStep \/ ScannerStep \/ Crash
  BY ToleratedFaults DEF Next, ProjectionStep, ScannerStep, DeleteAllIntents
<1>7. /\ \A t \in OffchainTx : t \in Spender /\ Inputs[t] \in SUBSET Outpoint
      /\ \A x \in OnchainTx : x \in Spender /\ Inputs[x] \in SUBSET Outpoint
      /\ Batch \subseteq Spender
  BY OffchainTxKind, OnchainTxKind, BatchKind
<1>8. ASSUME NEW t \in OffchainTx, SubmitOffchainTx(t) \/ SubmitSteps(t), ~UNCHANGED spentBy
      PROVE  \E s \in Spender : \E S \in SUBSET Outpoint :
                 Sign(s, S) /\ \A o \in S : spentBy[o] \subseteq {s}
  BY SMT, <1>1, <1>7, <1>8
<1>9. ASSUME NEW x \in OnchainTx, CosignReserves(x) \/ CosignSteps(x), ~UNCHANGED spentBy
      PROVE  \E s \in Spender : \E S \in SUBSET Outpoint :
                 Sign(s, S) /\ \A o \in S : spentBy[o] \subseteq {s}
  BY SMT, <1>2, <1>7, <1>9
<1>10. ASSUME LoopSteps, ~UNCHANGED spentBy
       PROVE  \E s \in Spender : \E S \in SUBSET Outpoint :
                  Sign(s, S) /\ \A o \in S : spentBy[o] \subseteq {s}
  BY <1>3, <1>7, <1>10
<1> QED
  BY <1>4, <1>5, <1>6, <1>8, <1>9, <1>10

\* Initially nothing is signed, claimed or reserved.
LEMMA IndInit == Init => IndInv
<1> SUFFICES ASSUME Init PROVE IndInv
  OBVIOUS
<1>1. OffchainInv
  BY OffchainInit
<1>2. ReadersHeld /\ RoundOrder /\ SignedInputs /\ BatchVisible /\ HandledRecorded
  BY IntentKind DEF Init, ReadersHeld, RoundOrder, SignedInputs, BatchVisible, HandledRecorded
<1>3. QueueClaims /\ ChainSpends /\ ReservationsHeld /\ CosignedVisible
  BY IntentKind, OnchainTxKind
  DEF Init, QueueClaims, ChainSpends, ReservationsHeld, CosignedVisible, Reserves, Unsigned
<1>4. SubmitKnows /\ RegisterKnows /\ CosignKnows /\ NoDoubleSpend
  BY OffchainTxKind, IntentKind, OnchainTxKind DEF Init, SubmitKnows, RegisterKnows, CosignKnows, NoDoubleSpend
<1> QED
  BY <1>1, <1>2, <1>3, <1>4 DEF IndInv

\* Every step keeps the invariant.
LEMMA IndStep ==
    ASSUME Faults \subseteq Tolerated
    PROVE  IndInv /\ [Next]_vars => IndInv'
<1> SUFFICES ASSUME IndInv, [Next]_vars PROVE IndInv'
  OBVIOUS
<1>1. OffchainInv'
  BY OffchainStep DEF IndInv
<1>2. CASE Next
  <2>1. NoDoubleSpend'
    <3>1. CASE UNCHANGED spentBy
      BY <3>1 DEF IndInv, NoDoubleSpend
    <3>2. ASSUME NEW s \in Spender, NEW S \in SUBSET Outpoint, Sign(s, S),
                 \A o \in S : spentBy[o] \subseteq {s}
          PROVE  NoDoubleSpend'
      <4>1. TypeOK /\ NoDoubleSpend
        BY DEF IndInv, OffchainInv
      <4> QED
        BY SMT, <3>2, <4>1, SignAdds DEF NoDoubleSpend
    <3> QED
      BY <1>2, <3>1, <3>2, SignsFree
  <2> QED
    BY SMT, <1>1, <1>2, <2>1, ReadersHeldStep, RoundOrderStep, SignedInputsStep, BatchVisibleStep,
       HandledRecordedStep, QueueClaimsStep, ChainSpendsStep, ReservationsStep, SubmitKnowsStep,
       RegisterKnowsStep, CosignKnowsStep
    DEF IndInv
<1>3. CASE UNCHANGED vars
  <2>1. /\ UNCHANGED <<pc, boards, readers, loop, roundId, roundEnded, releasing, selected, projecting>>
        /\ UNCHANGED <<settling, handling, inflight, projected, spentBy, batchInputs, chain>>
        /\ UNCHANGED <<claims, takenBy, queue, reserved, spent, utxos, unrolled>>
    BY <1>3 DEF vars, redisVars, dbVars, requestVars, loopVars, projVars, historyVars
  <2>2. ReadersHeld => ReadersHeld'  BY <2>1 DEF ReadersHeld
  <2>3. RoundOrder => RoundOrder'  BY <2>1 DEF RoundOrder
  <2>4. SignedInputs => SignedInputs'  BY <2>1 DEF SignedInputs
  <2>5. BatchVisible => BatchVisible'  BY <2>1 DEF BatchVisible, Recorded
  <2>6. HandledRecorded => HandledRecorded'  BY <2>1 DEF HandledRecorded, Recorded
  <2>7. QueueClaims => QueueClaims'  BY <2>1 DEF QueueClaims
  <2>8. ChainSpends => ChainSpends'  BY <2>1 DEF ChainSpends
  <2>9. ReservationsHeld => ReservationsHeld'  BY <2>1 DEF ReservationsHeld, Reserves
  <2>10. CosignedVisible => CosignedVisible'  BY <2>1 DEF CosignedVisible, Reserves
  <2>11. SubmitKnows => SubmitKnows'  BY <2>1 DEF SubmitKnows
  <2>12. RegisterKnows => RegisterKnows'  BY SMT, <2>1 DEF RegisterKnows
  <2>13. CosignKnows => CosignKnows'  BY <2>1 DEF CosignKnows
  <2>14. NoDoubleSpend => NoDoubleSpend'  BY <2>1 DEF NoDoubleSpend
  <2> QED
    BY SMT, <1>1, <2>2, <2>3, <2>4, <2>5, <2>6, <2>7, <2>8, <2>9, <2>10, <2>11, <2>12, <2>13, <2>14
    DEF IndInv
<1> QED
  BY <1>2, <1>3

\* The invariant holds under every fault the server is meant to cope with.
THEOREM SpendsAlwaysOrdered ==
    ASSUME Faults \subseteq Tolerated
    PROVE  Spec => []IndInv
  BY IndInit, IndStep, PTL DEF Spec

\* The server never commits an outpoint to two spenders, whether offchain txs, batches or
\* cosigned txs: for every number of requests, outpoints and batches, with failed saves,
\* projections and releases, and with a crash anywhere but between the broadcast of a
\* commitment tx and the update of the current round.
THEOREM NeverSpentTwice ==
    ASSUME Faults \subseteq Tolerated
    PROVE  Spec => []NoDoubleSpend
<1>1. IndInv => NoDoubleSpend
  BY DEF IndInv
<1> QED
  BY <1>1, SpendsAlwaysOrdered, PTL

\* A spend is always in one of the stores that the next request reads: the live store
\* forgets it only once the database has it.
THEOREM SpendsAlwaysVisible ==
    ASSUME Faults \subseteq Tolerated
    PROVE  Spec => []SpendsVisible
<1>1. IndInv => SpendsVisible
  <2> SUFFICES ASSUME IndInv PROVE SpendsVisible
    OBVIOUS
  <2>1. TypeOK /\ OffchainVisible /\ BatchVisible /\ CosignedVisible
    BY DEF IndInv, OffchainInv
  <2>2. \A o \in Outpoint : \A s \in spentBy[o] : s \in OffchainTx \cup OnchainTx \cup Batch
    BY <2>1 DEF TypeOK, Spender
  <2> QED
    BY <2>1, <2>2 DEF SpendsVisible, OffchainVisible, BatchVisible, CosignedVisible
<1> QED
  BY <1>1, SpendsAlwaysOrdered, PTL

\* SpendGuard implements the ledger: every step of every actor takes coins that are free,
\* or no coin.
THEOREM ServerIsLedger ==
    ASSUME Faults \subseteq Tolerated
    PROVE  Spec => LedgerSpec
<1>1. Init => Ledger!Init
  BY DEF Init, Ledger!Init
<1>2. IndInv /\ [Next]_vars => [Ledger!Next]_spentBy
  <2> SUFFICES ASSUME IndInv, [Next]_vars PROVE [Ledger!Next]_spentBy
    OBVIOUS
  <2>1. CASE UNCHANGED spentBy
    BY <2>1
  <2>2. ASSUME NEW s \in Spender, NEW S \in SUBSET Outpoint, Sign(s, S),
               \A o \in S : spentBy[o] \subseteq {s}
        PROVE  Ledger!Next
    <3>1. S \subseteq Ledger!Free(s)
      BY <2>2 DEF Ledger!Free
    <3>2. \A o \in Outpoint : (IF o \in S THEN spentBy[o] \cup {s} ELSE spentBy[o])
                               = (IF o \in S THEN {s} ELSE spentBy[o])
      BY <2>2
    <3>3. spentBy' = [o \in Outpoint |-> IF o \in S THEN {s} ELSE spentBy[o]]
      BY <2>2, <3>2 DEF Sign
    <3> QED
      BY <3>1, <3>3 DEF Ledger!Next, Ledger!Spend
  <2> QED
    BY <2>1, <2>2, SignsFree DEF vars, historyVars
<1> QED
  BY <1>1, <1>2, SpendsAlwaysOrdered, PTL DEF Spec, LedgerSpec, Ledger!Spec
=============================================================================
