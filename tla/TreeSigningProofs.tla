------------------------- MODULE TreeSigningProofs -------------------------
(***************************************************************************)
(* The theorems of TreeSigning, for any number of cosigners, intents,      *)
(* nonces and requests, under every fault of the model.                    *)
(*                                                                         *)
(* SigningInv is the inductive invariant.  While the session exists the    *)
(* nonces of a cosigner are written once, so what a request or a watcher   *)
(* has read of them stays true (WatchFacts, CallFacts, SigFacts); before   *)
(* the nonces are aggregated there is no signature (StageFacts).  A late   *)
(* cosigner is one that was not prompt, and nobody becomes prompt once the *)
(* round has failed (LateFacts).                                           *)
(***************************************************************************)
EXTENDS TreeSigning, FiniteSetTheorems, TLAPS

\* The phases before the nonces are aggregated, those with aggregated nonces, and those
\* in which the round is over.
Early == {"built", "awaitNonces", "nonceDeadline", "gotNonces", "aggregated"}
Aggregated == {"awaitSigs", "sigDeadline", "gotSigs", "signed"}
Over == {"failed", "gone", "deleted"}

\* A watcher offers, and the coordinator goes on, when everything is there.
WatchFacts ==
    /\ watch["nonces"] = "offering" \/ phase = "gotNonces" => Submitted(nonces) = Cosigner
    /\ watch["sigs"] = "offering" \/ phase = "gotSigs" => Signed = Cosigner

\* A request has checked what it is about to store.
CallFacts ==
    \A s \in Slot : call[s].step # "idle" =>
        /\ call[s].sig.nonce # Absent
        /\ phase # "deleted" /\ call[s].kind = "sigs" =>
              /\ aggregated # Nothing /\ call[s].agg = aggregated
              /\ call[s].step # "metaRead" =>
                    /\ call[s].sig.agg = aggregated
                    /\ call[s].sig.nonce = nonces[call[s].key]

\* So is what it stored.
SigFacts ==
    phase # "deleted" =>
        \A k \in Signed :
            /\ aggregated # Nothing /\ nonces[k] # Absent
            /\ sigs[k].nonce = nonces[k] /\ sigs[k].agg = aggregated

StageFacts ==
    /\ phase \in Early => aggregated = Nothing
    /\ phase \in Aggregated => aggregated = coNonces
    /\ phase \in {"built", "deleted"} => ~exists

\* A conviction is for a deadline that somebody missed.
LateFacts ==
    /\ phase # "deleted" => prompt["nonces"] \subseteq Submitted(nonces) /\ prompt["sigs"] \subseteq Signed
    /\ toBan # {} \/ convicted # {} => phase \in Over
    /\ \A k \in toBan : k \notin prompt["nonces"] \/ (coNonces # Nothing /\ k \notin prompt["sigs"])

SigningInv ==
    /\ TypeOK /\ WatchFacts /\ CallFacts /\ SigFacts /\ StageFacts /\ LateFacts
    /\ NonceAgreement /\ OnlyLateOrRedis /\ PromptNotConvicted

-----------------------------------------------------------------------------
(* The steps, by what they change.                                         *)

\* Steps of the coordinator and of the watchers that write nothing to Redis.
LocalStep ==
    \/ AggregateNonces \/ SignTree \/ RedisFails \/ DeadlinePasses \/ BanCosignerInputs
    \/ \E kind \in Kind : Collected(kind) \/ ReadLate(kind) \/ Poll(kind)

\* Steps of a request that write nothing to Redis.
RequestStep(s) ==
    \/ RegisterCosignerNonces(s) \/ RegisterCosignerSignatures(s)
    \/ VerifySignatures(s) \/ GetCosigners(s) \/ RequestFails(s)

\* Every step is one of these.
LEMMA Steps ==
  ASSUME Next
  PROVE  \/ NewSession \/ SetAggregatedNonces \/ DeleteSession \/ Crash \/ LocalStep
         \/ \E s \in Slot : RequestStep(s) \/ AddNonces(s) \/ AddSignatures(s)
  BY DEF Next, Coordinator, Handle, LocalStep, RequestStep

\* What the coordinator and the watchers do on their own leaves Redis and the requests alone.
LEMMA LocalEffect ==
  ASSUME LocalStep
  PROVE  UNCHANGED <<exists, aggregated, nonces, sigs, call, prompt>>
<1> USE DEF redisVars, coordinatorVars
<1>1. CASE AggregateNonces  BY <1>1 DEF AggregateNonces
<1>2. CASE SignTree  BY <1>2 DEF SignTree
<1>3. CASE RedisFails  BY <1>3 DEF RedisFails
<1>4. CASE DeadlinePasses  BY <1>4 DEF DeadlinePasses
<1>5. CASE BanCosignerInputs  BY <1>5 DEF BanCosignerInputs
<1>6. ASSUME NEW kind \in Kind, Collected(kind) \/ ReadLate(kind) \/ Poll(kind)
      PROVE  UNCHANGED <<exists, aggregated, nonces, sigs, call, prompt>>
  BY <1>6 DEF Collected, ReadLate, Poll
<1> QED  BY <1>1, <1>2, <1>3, <1>4, <1>5, <1>6 DEF LocalStep

\* What a request does before it writes changes the request only.
LEMMA RequestEffect ==
  ASSUME NEW s \in Slot, RequestStep(s)
  PROVE  UNCHANGED <<exists, aggregated, nonces, sigs, phase, cause, coNonces, toBan, convicted,
                     watch, prompt>>
<1> USE DEF redisVars, coordinatorVars
<1>1. CASE RegisterCosignerNonces(s)  BY <1>1 DEF RegisterCosignerNonces
<1>2. CASE RegisterCosignerSignatures(s)  BY <1>2 DEF RegisterCosignerSignatures
<1>3. CASE VerifySignatures(s)  BY <1>3 DEF VerifySignatures
<1>4. CASE GetCosigners(s)  BY <1>4 DEF GetCosigners
<1>5. CASE RequestFails(s)  BY <1>5 DEF RequestFails
<1> QED  BY <1>1, <1>2, <1>3, <1>4, <1>5 DEF RequestStep

\* The request of a slot after a step of it: answered, or one step further with the
\* nonce or the signature it came with.
LEMMA RequestGoes ==
  ASSUME TypeOK, NEW s \in Slot, RequestStep(s)
  PROVE  /\ call' \in [Slot -> Call]
         /\ \A t \in Slot : t # s => call'[t] = call[t]
         /\ \/ call'[s].step = "idle"
            \/ /\ call'[s].step = "verified" /\ call'[s].kind = "nonces"
               /\ call'[s].sig.nonce \in Nonce
            \/ /\ call'[s].step = "metaRead" /\ call'[s].kind = "sigs"
               /\ call'[s].sig.nonce \in Nonce
               /\ exists /\ aggregated # Nothing /\ call'[s].agg = aggregated
            \/ /\ call[s].step = "metaRead" /\ call'[s].step = "verified"
               /\ Verifies(call[s]) /\ call'[s] = [call[s] EXCEPT !.step = "verified"]
            \/ /\ call[s].step = "verified" /\ call'[s].step = "adding" /\ exists
               /\ call'[s] = [call[s] EXCEPT !.step = "adding"]
<1>0. /\ call \in [Slot -> Call] /\ Idle \in Call /\ Idle.step = "idle"
      /\ Nothing \in Vector /\ aggregated \in Vector
  BY KeysAssumption DEF TypeOK, Call, Idle, Sig, Unsigned, Nothing, Vector, Kind
<1>1. CASE RegisterCosignerNonces(s)
  <2> PICK k \in Cosigner, n \in Nonce :
          call' = [call EXCEPT ![s] = [step |-> "verified", kind |-> "nonces", key |-> k,
                                       sig |-> [nonce |-> n, agg |-> Nothing], agg |-> Nothing]]
    BY <1>1 DEF RegisterCosignerNonces
  <2> QED  BY <1>0 DEF Call, Kind, Sig
<1>2. CASE RegisterCosignerSignatures(s)
  <2> PICK k \in Cosigner, n \in Nonce, a \in {Nothing, aggregated} :
          call' = [call EXCEPT ![s] = [step |-> "metaRead", kind |-> "sigs", key |-> k,
                                       sig |-> [nonce |-> n, agg |-> a], agg |-> aggregated]]
    BY <1>2 DEF RegisterCosignerSignatures
  <2>1. exists /\ aggregated # Nothing  BY <1>2 DEF RegisterCosignerSignatures
  <2> QED  BY <1>0, <2>1 DEF Call, Kind, Sig
<1>3. CASE VerifySignatures(s)  BY <1>0, <1>3 DEF VerifySignatures, Go, Answer, Call
<1>4. CASE GetCosigners(s)  BY <1>0, <1>4 DEF GetCosigners, Go, Answer, Call
<1>5. CASE RequestFails(s)  BY <1>0, <1>5 DEF RequestFails, Answer
<1> QED  BY <1>1, <1>2, <1>3, <1>4, <1>5 DEF RequestStep

\* A request that stores its nonces: the first ones are kept.
LEMMA AddNoncesEffect ==
  ASSUME TypeOK, NEW s \in Slot, AddNonces(s)
  PROVE  /\ UNCHANGED <<exists, aggregated, sigs, phase, cause, coNonces, toBan, convicted, watch>>
         /\ call[s].step = "adding" /\ call[s].kind = "nonces" /\ call[s].key \in Cosigner
         /\ nonces' \in Vector
         /\ \A k \in Cosigner : nonces[k] # Absent => nonces'[k] = nonces[k]
         /\ nonces[call[s].key] = Absent => nonces'[call[s].key] = call[s].sig.nonce
         /\ \A t \in Slot : call'[t] = IF t = s THEN Idle ELSE call[t]
         /\ call' \in [Slot -> Call]
         /\ prompt' \in [Kind -> SUBSET Cosigner] /\ prompt'["sigs"] = prompt["sigs"]
         /\ \/ prompt' = prompt
            \/ /\ phase \in {"awaitNonces", "gotNonces"} /\ nonces[call[s].key] = Absent
               /\ prompt'["nonces"] = prompt["nonces"] \cup {call[s].key}
<1>0. /\ call \in [Slot -> Call] /\ Idle \in Call /\ call[s].key \in Cosigner
      /\ nonces \in Vector /\ call[s].sig.nonce \in Nonce \cup {Absent}
      /\ prompt \in [Kind -> SUBSET Cosigner] /\ "nonces" \in Kind /\ "sigs" \in Kind
  BY KeysAssumption DEF TypeOK, Call, Idle, Sig, Unsigned, Nothing, Vector, Kind
<1>1. UNCHANGED <<exists, aggregated, sigs, phase, cause, coNonces, toBan, convicted, watch>>
  BY DEF AddNonces, coordinatorVars
<1>2. /\ call[s].step = "adding" /\ call[s].kind = "nonces"
      /\ call' = [call EXCEPT ![s] = Idle]
  BY DEF AddNonces, Answer
<1>3. CASE nonces[call[s].key] # Absent
  <2>1. nonces' = nonces /\ prompt' = prompt  BY <1>3 DEF AddNonces
  <2> QED  BY <1>0, <1>1, <1>2, <1>3, <2>1
<1>4. CASE nonces[call[s].key] = Absent
  <2>1. /\ nonces' = [nonces EXCEPT ![call[s].key] = call[s].sig.nonce]
        /\ prompt' = IF Awaited("nonces") THEN [prompt EXCEPT !["nonces"] = @ \cup {call[s].key}] ELSE prompt
    BY <1>4 DEF AddNonces, NotePrompt
  <2>2. Awaited("nonces") <=> phase \in {"awaitNonces", "gotNonces"}  BY DEF Awaited
  <2> HIDE DEF Idle
  <2> QED  BY <1>0, <1>1, <1>2, <1>4, <2>1, <2>2 DEF Vector
<1> QED  BY <1>3, <1>4

\* A request that stores its signatures: they replace the ones it stored before.
LEMMA AddSignaturesEffect ==
  ASSUME TypeOK, NEW s \in Slot, AddSignatures(s)
  PROVE  /\ UNCHANGED <<exists, aggregated, nonces, phase, cause, coNonces, toBan, convicted, watch>>
         /\ call[s].step = "adding" /\ call[s].kind = "sigs" /\ call[s].key \in Cosigner
         /\ sigs' = [sigs EXCEPT ![call[s].key] = call[s].sig] /\ call[s].sig \in Sig
         /\ \A t \in Slot : call'[t] = IF t = s THEN Idle ELSE call[t]
         /\ call' \in [Slot -> Call]
         /\ prompt' \in [Kind -> SUBSET Cosigner] /\ prompt'["nonces"] = prompt["nonces"]
         /\ \/ prompt' = prompt
            \/ /\ phase \in {"awaitSigs", "gotSigs"}
               /\ prompt'["sigs"] = prompt["sigs"] \cup {call[s].key}
<1>0. /\ call \in [Slot -> Call] /\ Idle \in Call /\ call[s].key \in Cosigner
      /\ call[s].sig \in Sig
      /\ prompt \in [Kind -> SUBSET Cosigner] /\ "nonces" \in Kind /\ "sigs" \in Kind
  BY KeysAssumption DEF TypeOK, Call, Idle, Sig, Unsigned, Nothing, Vector, Kind
<1>1. UNCHANGED <<exists, aggregated, nonces, phase, cause, coNonces, toBan, convicted, watch>>
  BY DEF AddSignatures, coordinatorVars
<1>2. /\ call[s].step = "adding" /\ call[s].kind = "sigs"
      /\ sigs' = [sigs EXCEPT ![call[s].key] = call[s].sig]
      /\ call' = [call EXCEPT ![s] = Idle]
      /\ prompt' = IF Awaited("sigs") THEN [prompt EXCEPT !["sigs"] = @ \cup {call[s].key}] ELSE prompt
  BY DEF AddSignatures, Answer, NotePrompt
<1>3. Awaited("sigs") <=> phase \in {"awaitSigs", "gotSigs"}  BY DEF Awaited
<1> HIDE DEF Idle
<1> QED  BY <1>0, <1>1, <1>2, <1>3

-----------------------------------------------------------------------------
(* The conjuncts of the invariant.                                         *)

\* No step takes a variable out of its type.
LEMMA TypeStep ==
  ASSUME TypeOK, Next
  PROVE  TypeOK'
<1>0. /\ Nothing \in Vector /\ Unsigned \in Sig
      /\ Idle \in Call
  BY KeysAssumption DEF Call, Idle, Sig, Unsigned, Nothing, Vector, Kind
<1>1. CASE NewSession  BY <1>1 DEF TypeOK, NewSession, Phase
<1>2. CASE SetAggregatedNonces  BY <1>2 DEF TypeOK, SetAggregatedNonces, Phase
<1>3. CASE DeleteSession  BY <1>0, <1>3 DEF TypeOK, DeleteSession, Phase
<1>4. CASE Crash  BY <1>0, <1>4 DEF TypeOK, Crash, redisVars, Phase
<1>5. CASE LocalStep
  <2>0. UNCHANGED <<exists, aggregated, nonces, sigs, call, prompt>>  BY <1>5, LocalEffect
  <2> USE DEF coordinatorVars, Fail, Phase, Cause
  <2>1. CASE AggregateNonces  BY <2>0, <2>1 DEF TypeOK, AggregateNonces
  <2>2. CASE SignTree  BY <2>0, <2>2 DEF TypeOK, SignTree
  <2>3. CASE RedisFails  BY <2>0, <2>3 DEF TypeOK, RedisFails
  <2>4. CASE DeadlinePasses  BY <2>0, <2>4 DEF TypeOK, DeadlinePasses
  <2>5. CASE BanCosignerInputs  BY <2>0, <2>5 DEF TypeOK, BanCosignerInputs
  <2>6. ASSUME NEW kind \in Kind, Collected(kind)  PROVE TypeOK'
    BY <2>0, <2>6 DEF TypeOK, Collected
  <2>7. ASSUME NEW kind \in Kind, ReadLate(kind)  PROVE TypeOK'
    BY <2>0, <2>7 DEF TypeOK, ReadLate, Late
  <2>8. ASSUME NEW kind \in Kind, Poll(kind)  PROVE TypeOK'
    BY <2>0, <2>8 DEF TypeOK, Poll
  <2> QED  BY <1>5, <2>1, <2>2, <2>3, <2>4, <2>5, <2>6, <2>7, <2>8 DEF LocalStep
<1>6. ASSUME NEW s \in Slot, RequestStep(s)  PROVE TypeOK'
  BY <1>6, RequestEffect, RequestGoes DEF TypeOK
<1>7. ASSUME NEW s \in Slot, AddNonces(s)  PROVE TypeOK'
  BY <1>7, AddNoncesEffect DEF TypeOK
<1>8. ASSUME NEW s \in Slot, AddSignatures(s)  PROVE TypeOK'
  BY <1>8, AddSignaturesEffect DEF TypeOK
<1> QED  BY Steps, <1>1, <1>2, <1>3, <1>4, <1>5, <1>6, <1>7, <1>8

\* A set of cosigners as large as all of them is all of them: a watcher that counts what
\* is stored knows that everything is there.
LEMMA CountMeansAll ==
  ASSUME NEW kind \in Kind, AllThere(kind)
  PROVE  Stored(kind) = Cosigner
  BY KeysAssumption, FS_Subset DEF AllThere, Stored, Submitted, Signed

\* What was submitted stays submitted when nonces are added.
LEMMA SubmittedGrows ==
  ASSUME TypeOK, NEW s \in Slot, AddNonces(s)
  PROVE  Submitted(nonces) \subseteq Submitted(nonces')
  BY AddNoncesEffect DEF Submitted

\* What was signed stays signed when signatures are added.
LEMMA SignedGrows ==
  ASSUME TypeOK, CallFacts, NEW s \in Slot, AddSignatures(s)
  PROVE  Signed \subseteq Signed' /\ call[s].key \in Signed'
<1>1. /\ sigs' = [sigs EXCEPT ![call[s].key] = call[s].sig] /\ call[s].key \in Cosigner
      /\ sigs \in [Cosigner -> Sig]
  BY AddSignaturesEffect DEF TypeOK
<1>2. call[s].sig.nonce # Absent  BY AddSignaturesEffect DEF CallFacts
<1>3. call[s].sig # Unsigned  BY <1>2 DEF Unsigned
<1> QED  BY <1>1, <1>3 DEF Signed

\* A watcher only offers, and the coordinator only takes, a full set.
LEMMA WatchStep ==
  ASSUME SigningInv, Next
  PROVE  WatchFacts'
<1>0. /\ TypeOK /\ WatchFacts /\ CallFacts
      /\ Submitted(nonces)' = Submitted(nonces') /\ Submitted(nonces') \subseteq Cosigner
      /\ Signed' \subseteq Cosigner
  BY DEF SigningInv, Submitted, Signed
<1> USE DEF Kind
<1>1. CASE NewSession  BY <1>0, <1>1 DEF WatchFacts, NewSession
<1>2. CASE SetAggregatedNonces
  BY <1>0, <1>2 DEF WatchFacts, SetAggregatedNonces, Signed, Submitted
<1>3. CASE DeleteSession  BY <1>0, <1>3 DEF WatchFacts, DeleteSession
<1>4. CASE Crash  BY <1>0, <1>4 DEF WatchFacts, Crash
<1>5. CASE LocalStep
  <2>0. UNCHANGED <<nonces, sigs>> /\ Signed' = Signed
    BY <1>5, LocalEffect DEF Signed
  <2> USE DEF coordinatorVars, Fail
  <2>1. CASE AggregateNonces  BY <1>0, <2>0, <2>1 DEF WatchFacts, AggregateNonces
  <2>2. CASE SignTree  BY <1>0, <2>0, <2>2 DEF WatchFacts, SignTree
  <2>3. CASE RedisFails  BY <1>0, <2>0, <2>3 DEF WatchFacts, RedisFails
  <2>4. CASE DeadlinePasses  BY <1>0, <2>0, <2>4 DEF WatchFacts, DeadlinePasses
  <2>5. CASE BanCosignerInputs  BY <1>0, <2>0, <2>5 DEF WatchFacts, BanCosignerInputs
  <2>6. ASSUME NEW kind \in Kind, Collected(kind)  PROVE WatchFacts'
    BY <1>0, <2>0, <2>6 DEF WatchFacts, Collected, TypeOK
  <2>7. ASSUME NEW kind \in Kind, ReadLate(kind)  PROVE WatchFacts'
    BY <1>0, <2>0, <2>7 DEF WatchFacts, ReadLate
  <2>8. ASSUME NEW kind \in Kind, Poll(kind)  PROVE WatchFacts'
    <3>1. Stored(kind) = Cosigner  BY <2>8, CountMeansAll DEF Poll
    <3> QED  BY <1>0, <2>0, <2>8, <3>1 DEF WatchFacts, Poll, TypeOK, Stored
  <2> QED  BY <1>5, <2>1, <2>2, <2>3, <2>4, <2>5, <2>6, <2>7, <2>8 DEF LocalStep
<1>6. ASSUME NEW s \in Slot, RequestStep(s)  PROVE WatchFacts'
  BY <1>0, <1>6, RequestEffect DEF WatchFacts, Signed
<1>7. ASSUME NEW s \in Slot, AddNonces(s)  PROVE WatchFacts'
  <2>1. UNCHANGED <<sigs, phase, watch>> /\ Signed' = Signed
    BY <1>0, <1>7, AddNoncesEffect DEF Signed
  <2> QED  BY <1>0, <1>7, <2>1, SubmittedGrows DEF WatchFacts
<1>8. ASSUME NEW s \in Slot, AddSignatures(s)  PROVE WatchFacts'
  <2>1. UNCHANGED <<nonces, phase, watch>>  BY <1>0, <1>8, AddSignaturesEffect
  <2> QED  BY <1>0, <1>8, <2>1, SignedGrows DEF WatchFacts
<1> QED  BY Steps, <1>1, <1>2, <1>3, <1>4, <1>5, <1>6, <1>7, <1>8

\* On its own the coordinator fails the round or stays in the part of it where it is.
LEMMA LocalPhase ==
  ASSUME TypeOK, LocalStep
  PROVE  \/ phase' = phase
         \/ phase \notin Over /\ phase' = "failed"
         \/ phase \in Early /\ phase' \in Early \ {"built"}
         \/ phase \in Aggregated /\ phase' \in Aggregated
<1> USE DEF coordinatorVars, Fail, Early, Aggregated, Over
<1>1. CASE AggregateNonces  BY <1>1 DEF AggregateNonces
<1>2. CASE SignTree  BY <1>2 DEF SignTree
<1>3. CASE RedisFails  BY <1>3 DEF RedisFails
<1>4. CASE DeadlinePasses  BY <1>4 DEF DeadlinePasses
<1>5. CASE BanCosignerInputs  BY <1>5 DEF BanCosignerInputs
<1>6. ASSUME NEW kind \in Kind, Collected(kind) \/ ReadLate(kind) \/ Poll(kind)
      PROVE  \/ phase' = phase
             \/ phase \notin Over /\ phase' = "failed"
             \/ phase \in Early /\ phase' \in Early \ {"built"}
             \/ phase \in Aggregated /\ phase' \in Aggregated
  BY <1>6 DEF Collected, ReadLate, Poll
<1> QED  BY <1>1, <1>2, <1>3, <1>4, <1>5, <1>6 DEF LocalStep

\* A request is checked against nonces, and aggregated nonces, that do not change under it.
LEMMA CallStep ==
  ASSUME SigningInv, Next
  PROVE  CallFacts'
<1>0. TypeOK /\ TypeOK' /\ CallFacts /\ StageFacts
  BY TypeStep DEF SigningInv
<1> USE DEF CallFacts
<1>1. CASE NewSession  BY <1>0, <1>1 DEF NewSession
<1>2. CASE SetAggregatedNonces
  <2>1. aggregated = Nothing  BY <1>0, <1>2 DEF SetAggregatedNonces, StageFacts, Early
  <2> QED  BY <1>0, <1>2, <2>1 DEF SetAggregatedNonces
<1>3. CASE DeleteSession  BY <1>0, <1>3 DEF DeleteSession
<1>4. CASE Crash  BY <1>4 DEF Crash, Idle
<1>5. CASE LocalStep
  <2>1. UNCHANGED <<aggregated, nonces, call>> /\ (phase' # "deleted" => phase # "deleted")
    BY <1>0, <1>5, LocalEffect, LocalPhase DEF Over, Early, Aggregated
  <2> QED  BY <1>0, <2>1
<1>6. ASSUME NEW s \in Slot, RequestStep(s)  PROVE CallFacts'
  <2>1. UNCHANGED <<aggregated, nonces, phase>>  BY <1>6, RequestEffect
  <2>2. ASSUME NEW t \in Slot, t # s  PROVE call'[t] = call[t]
    BY <1>0, <1>6, <2>2, RequestGoes
  <2>3. CASE call'[s].step = "idle"  BY <1>0, <2>1, <2>2, <2>3
  <2>4. CASE /\ call'[s].step = "verified" /\ call'[s].kind = "nonces"
             /\ call'[s].sig.nonce \in Nonce
    BY <1>0, <2>1, <2>2, <2>4, KeysAssumption
  <2>5. CASE /\ call'[s].step = "metaRead" /\ call'[s].kind = "sigs"
             /\ call'[s].sig.nonce \in Nonce
             /\ exists /\ aggregated # Nothing /\ call'[s].agg = aggregated
    BY <1>0, <2>1, <2>2, <2>5, KeysAssumption
  <2>6. CASE /\ call[s].step = "metaRead" /\ call'[s].step = "verified"
             /\ Verifies(call[s]) /\ call'[s] = [call[s] EXCEPT !.step = "verified"]
    <3>1. /\ call[s] \in Call
          /\ call[s].sig.nonce = nonces[call[s].key] /\ call[s].sig.agg = call[s].agg
      BY <1>0, <2>6 DEF TypeOK, Verifies, Valid
    <3>2. /\ call'[s].sig = call[s].sig /\ call'[s].key = call[s].key
          /\ call'[s].kind = call[s].kind /\ call'[s].agg = call[s].agg
      BY <2>6, <3>1 DEF Call
    <3>3. /\ call[s].sig.nonce # Absent
          /\ phase # "deleted" /\ call[s].kind = "sigs" => aggregated # Nothing /\ call[s].agg = aggregated
      BY <1>0, <2>6
    <3> QED  BY <1>0, <2>1, <2>2, <3>1, <3>2, <3>3
  <2>7. CASE /\ call[s].step = "verified" /\ call'[s].step = "adding" /\ exists
             /\ call'[s] = [call[s] EXCEPT !.step = "adding"]
    <3>1. call[s] \in Call  BY <1>0 DEF TypeOK
    <3>2. /\ call'[s].sig = call[s].sig /\ call'[s].key = call[s].key
          /\ call'[s].kind = call[s].kind /\ call'[s].agg = call[s].agg
      BY <2>7, <3>1 DEF Call
    <3>3. /\ call[s].sig.nonce # Absent
          /\ phase # "deleted" /\ call[s].kind = "sigs" =>
                /\ aggregated # Nothing /\ call[s].agg = aggregated
                /\ call[s].sig.agg = aggregated /\ call[s].sig.nonce = nonces[call[s].key]
      BY <1>0, <2>7
    <3> QED  BY <1>0, <2>1, <2>2, <3>2, <3>3
  <2> QED  BY <1>0, <1>6, RequestGoes, <2>3, <2>4, <2>5, <2>6, <2>7
<1>7. ASSUME NEW s \in Slot, AddNonces(s)  PROVE CallFacts'
  <2>1. /\ UNCHANGED <<aggregated, phase>>
        /\ \A t \in Slot : call'[t] = IF t = s THEN Idle ELSE call[t]
        /\ \A k \in Cosigner : nonces[k] # Absent => nonces'[k] = nonces[k]
    BY <1>0, <1>7, AddNoncesEffect
  <2>2. Idle.step = "idle"  BY DEF Idle
  <2>3. \A t \in Slot : call[t].key \in Cosigner  BY <1>0 DEF TypeOK, Call
  <2> HIDE DEF Idle
  <2> QED  BY <1>0, <2>1, <2>2, <2>3
<1>8. ASSUME NEW s \in Slot, AddSignatures(s)  PROVE CallFacts'
  <2>1. /\ UNCHANGED <<aggregated, nonces, phase>>
        /\ \A t \in Slot : call'[t] = IF t = s THEN Idle ELSE call[t]
    BY <1>0, <1>8, AddSignaturesEffect
  <2>2. Idle.step = "idle"  BY DEF Idle
  <2> QED  BY <1>0, <2>1, <2>2
<1> QED  BY Steps, <1>1, <1>2, <1>3, <1>4, <1>5, <1>6, <1>7, <1>8

\* A stored signature was made with the stored nonce and with the aggregated nonces.
LEMMA SigStep ==
  ASSUME SigningInv, Next
  PROVE  SigFacts'
<1>0. TypeOK /\ CallFacts /\ SigFacts /\ StageFacts
  BY DEF SigningInv
<1>1. CASE NewSession  BY <1>0, <1>1 DEF SigFacts, NewSession, Signed
<1>2. CASE SetAggregatedNonces
  <2>1. aggregated = Nothing  BY <1>0, <1>2 DEF SetAggregatedNonces, StageFacts, Early
  <2> QED  BY <1>0, <1>2, <2>1 DEF SetAggregatedNonces, SigFacts, Signed
<1>3. CASE DeleteSession  BY <1>3 DEF SigFacts, DeleteSession
<1>4. CASE Crash  BY <1>0, <1>4 DEF SigFacts, Crash, redisVars, Signed
<1>5. CASE LocalStep
  <2>1. /\ UNCHANGED <<aggregated, nonces, sigs>> /\ (phase' # "deleted" => phase # "deleted")
        /\ Signed' = Signed
    BY <1>0, <1>5, LocalEffect, LocalPhase DEF Over, Early, Aggregated, Signed
  <2> QED  BY <1>0, <2>1 DEF SigFacts
<1>6. ASSUME NEW s \in Slot, RequestStep(s)  PROVE SigFacts'
  BY <1>0, <1>6, RequestEffect DEF SigFacts, Signed
<1>7. ASSUME NEW s \in Slot, AddNonces(s)  PROVE SigFacts'
  <2>1. /\ UNCHANGED <<aggregated, sigs, phase>> /\ Signed' = Signed /\ Signed \subseteq Cosigner
        /\ \A k \in Cosigner : nonces[k] # Absent => nonces'[k] = nonces[k]
    BY <1>0, <1>7, AddNoncesEffect DEF Signed
  <2> QED  BY <1>0, <2>1 DEF SigFacts
<1>8. ASSUME NEW s \in Slot, AddSignatures(s)  PROVE SigFacts'
  <2>1. /\ UNCHANGED <<aggregated, nonces, phase>>
        /\ call[s].step = "adding" /\ call[s].kind = "sigs"
        /\ sigs' = [sigs EXCEPT ![call[s].key] = call[s].sig] /\ call[s].key \in Cosigner
        /\ sigs \in [Cosigner -> Sig]
    BY <1>0, <1>8, AddSignaturesEffect DEF TypeOK
  <2>2. phase # "deleted" => /\ aggregated # Nothing /\ nonces[call[s].key] # Absent
                             /\ call[s].sig.nonce = nonces[call[s].key]
                             /\ call[s].sig.agg = aggregated
    BY <1>0, <2>1 DEF CallFacts
  <2>3. ASSUME NEW k \in Signed', phase' # "deleted"
        PROVE  /\ aggregated' # Nothing /\ nonces'[k] # Absent
               /\ sigs'[k].nonce = nonces'[k] /\ sigs'[k].agg = aggregated'
    <3>1. CASE k = call[s].key  BY <2>1, <2>2, <2>3, <3>1
    <3>2. CASE k # call[s].key
      <4>1. k \in Signed /\ sigs'[k] = sigs[k]  BY <2>1, <2>3, <3>2 DEF Signed
      <4> QED  BY <1>0, <2>1, <2>3, <4>1 DEF SigFacts
    <3> QED  BY <3>1, <3>2
  <2> QED  BY <2>3 DEF SigFacts
<1> QED  BY Steps, <1>1, <1>2, <1>3, <1>4, <1>5, <1>6, <1>7, <1>8

\* The aggregated nonces are written once, by the coordinator.
LEMMA StageStep ==
  ASSUME SigningInv, Next
  PROVE  StageFacts'
<1>0. TypeOK /\ StageFacts
  BY DEF SigningInv
<1> USE DEF StageFacts, Early, Aggregated
<1>1. CASE NewSession  BY <1>0, <1>1 DEF NewSession
<1>2. CASE SetAggregatedNonces  BY <1>0, <1>2 DEF SetAggregatedNonces
<1>3. CASE DeleteSession  BY <1>3 DEF DeleteSession
<1>4. CASE Crash  BY <1>4 DEF Crash
<1>5. CASE LocalStep
  <2>1. UNCHANGED <<exists, aggregated>>  BY <1>5, LocalEffect
  <2>2. CASE AggregateNonces  BY <1>0, <2>1, <2>2 DEF AggregateNonces, Fail
  <2>3. CASE ~AggregateNonces
    <3>1. coNonces' = coNonces
      BY <1>5, <2>3 DEF LocalStep, SignTree, RedisFails, DeadlinePasses, BanCosignerInputs,
         Collected, ReadLate, Poll, coordinatorVars
    <3> QED  BY <1>0, <1>5, <2>1, <3>1, LocalPhase
  <2> QED  BY <2>2, <2>3
<1>6. ASSUME NEW s \in Slot, RequestStep(s)  PROVE StageFacts'
  BY <1>0, <1>6, RequestEffect
<1>7. ASSUME NEW s \in Slot, AddNonces(s)  PROVE StageFacts'
  BY <1>0, <1>7, AddNoncesEffect
<1>8. ASSUME NEW s \in Slot, AddSignatures(s)  PROVE StageFacts'
  BY <1>0, <1>8, AddSignaturesEffect
<1> QED  BY Steps, <1>1, <1>2, <1>3, <1>4, <1>5, <1>6, <1>7, <1>8

\* The nonces that were aggregated are complete, and the ones in Redis stay equal to them.
LEMMA AgreementStep ==
  ASSUME SigningInv, Next
  PROVE  NonceAgreement'
<1>0. TypeOK /\ NonceAgreement
  BY DEF SigningInv
<1> USE DEF NonceAgreement
<1>1. CASE NewSession  BY <1>1 DEF NewSession
<1>2. CASE SetAggregatedNonces  BY <1>0, <1>2 DEF SetAggregatedNonces, Submitted
<1>3. CASE DeleteSession  BY <1>3 DEF DeleteSession
<1>4. CASE Crash  BY <1>4 DEF Crash
<1>5. CASE LocalStep
  <2>0. nonces' = nonces /\ Submitted(nonces)' = Submitted(nonces)
    BY <1>5, LocalEffect DEF Submitted
  <2> USE DEF coordinatorVars, Fail
  <2>1. CASE AggregateNonces  BY <1>0, <2>0, <2>1 DEF AggregateNonces
  <2>2. CASE SignTree  BY <1>0, <2>0, <2>2 DEF SignTree
  <2>3. CASE RedisFails  BY <1>0, <2>0, <2>3 DEF RedisFails
  <2>4. CASE DeadlinePasses  BY <1>0, <2>0, <2>4 DEF DeadlinePasses
  <2>5. CASE BanCosignerInputs  BY <1>0, <2>0, <2>5 DEF BanCosignerInputs
  <2>6. ASSUME NEW kind \in Kind, Collected(kind) \/ ReadLate(kind) \/ Poll(kind)
        PROVE  NonceAgreement'
    BY <1>0, <2>0, <2>6 DEF Collected, ReadLate, Poll
  <2> QED  BY <1>5, <2>1, <2>2, <2>3, <2>4, <2>5, <2>6 DEF LocalStep
<1>6. ASSUME NEW s \in Slot, RequestStep(s)  PROVE NonceAgreement'
  BY <1>0, <1>6, RequestEffect DEF Submitted
<1>7. ASSUME NEW s \in Slot, AddNonces(s)  PROVE NonceAgreement'
  <2>1. /\ UNCHANGED <<phase, coNonces>> /\ nonces \in Vector /\ nonces' \in Vector
        /\ \A k \in Cosigner : nonces[k] # Absent => nonces'[k] = nonces[k]
    BY <1>0, <1>7, AddNoncesEffect DEF TypeOK
  <2>2. Submitted(nonces) = Cosigner => nonces' = nonces
    BY <2>1 DEF Submitted, Vector
  <2> QED  BY <1>0, <2>1, <2>2 DEF Submitted
<1>8. ASSUME NEW s \in Slot, AddSignatures(s)  PROVE NonceAgreement'
  BY <1>0, <1>8, AddSignaturesEffect DEF Submitted
<1> QED  BY Steps, <1>1, <1>2, <1>3, <1>4, <1>5, <1>6, <1>7, <1>8

\* Only SignTree and AggregateNonces could fail the round on what is in Redis, and they
\* find everything there and valid.
LEMMA CauseStep ==
  ASSUME SigningInv, Next
  PROVE  OnlyLateOrRedis'
<1>0. TypeOK /\ OnlyLateOrRedis /\ WatchFacts /\ SigFacts /\ StageFacts /\ NonceAgreement
  BY DEF SigningInv
<1> USE DEF OnlyLateOrRedis
<1>1. CASE NewSession \/ SetAggregatedNonces \/ DeleteSession \/ Crash
  BY <1>0, <1>1 DEF NewSession, SetAggregatedNonces, DeleteSession, Crash
<1>2. CASE LocalStep
  <2> USE DEF coordinatorVars, Fail
  <2>1. CASE AggregateNonces  BY <1>0, <2>1 DEF AggregateNonces, WatchFacts
  <2>2. CASE SignTree
    <3>1. /\ phase = "gotSigs" /\ Signed = Cosigner
          /\ aggregated = coNonces /\ nonces = coNonces
      BY <1>0, <2>2 DEF SignTree, WatchFacts, StageFacts, Aggregated, NonceAgreement
    <3>2. \A k \in Signed : Valid(k, sigs[k], coNonces, coNonces)
      BY <1>0, <3>1 DEF SigFacts, Valid
    <3> QED  BY <1>0, <2>2, <3>1, <3>2 DEF SignTree
  <2>3. CASE RedisFails  BY <1>0, <2>3 DEF RedisFails
  <2>4. CASE DeadlinePasses  BY <1>0, <2>4 DEF DeadlinePasses
  <2>5. CASE BanCosignerInputs  BY <1>0, <2>5 DEF BanCosignerInputs
  <2>6. ASSUME NEW kind \in Kind, Collected(kind) \/ ReadLate(kind) \/ Poll(kind)
        PROVE  OnlyLateOrRedis'
    BY <1>0, <2>6 DEF Collected, ReadLate, Poll
  <2> QED  BY <1>2, <2>1, <2>2, <2>3, <2>4, <2>5, <2>6 DEF LocalStep
<1>3. ASSUME NEW s \in Slot, RequestStep(s) \/ AddNonces(s) \/ AddSignatures(s)
      PROVE  OnlyLateOrRedis'
  BY <1>0, <1>3, RequestEffect, AddNoncesEffect, AddSignaturesEffect
<1> QED  BY Steps, <1>1, <1>2, <1>3

\* Whoever is late when the session is read was not prompt, and stays so.
LEMMA LateStep ==
  ASSUME SigningInv, Next
  PROVE  LateFacts'
<1>0. TypeOK /\ TypeOK' /\ LateFacts /\ CallFacts /\ NonceAgreement
  BY TypeStep DEF SigningInv
<1> USE DEF LateFacts
<1>1. CASE NewSession  BY <1>0, <1>1 DEF NewSession, Over, Submitted, Signed
<1>2. CASE SetAggregatedNonces
  BY <1>0, <1>2 DEF SetAggregatedNonces, Over, Submitted, Signed
<1>3. CASE DeleteSession  BY <1>0, <1>3 DEF DeleteSession, Over
<1>4. CASE Crash  BY <1>0, <1>4 DEF Crash, redisVars, Over, Submitted, Signed
<1>5. CASE LocalStep
  <2>0. /\ UNCHANGED <<nonces, sigs, prompt>> /\ Signed' = Signed
        /\ Submitted(nonces)' = Submitted(nonces)
    BY <1>5, LocalEffect DEF Submitted, Signed
  <2>a. /\ phase' # "deleted" => phase # "deleted"
        /\ phase \in Over => phase' = phase
    BY <1>0, <1>5, LocalPhase DEF Over, Early, Aggregated
  <2> USE DEF coordinatorVars, Fail
  <2>1. CASE AggregateNonces  BY <1>0, <2>0, <2>a, <2>1 DEF AggregateNonces, Over
  <2>2. CASE SignTree  BY <1>0, <2>0, <2>a, <2>2 DEF SignTree
  <2>3. CASE RedisFails  BY <1>0, <2>0, <2>a, <2>3 DEF RedisFails
  <2>4. CASE DeadlinePasses  BY <1>0, <2>0, <2>a, <2>4 DEF DeadlinePasses
  <2>5. CASE BanCosignerInputs  BY <1>0, <2>0, <2>a, <2>5 DEF BanCosignerInputs
  <2>6. ASSUME NEW kind \in Kind, Collected(kind) \/ Poll(kind)  PROVE LateFacts'
    BY <1>0, <2>0, <2>a, <2>6 DEF Collected, Poll
  <2>7. ASSUME NEW kind \in Kind, ReadLate(kind)  PROVE LateFacts'
    <3>1. /\ phase' = "failed" /\ toBan' = Cosigner \ Stored(kind)
          /\ UNCHANGED <<coNonces, convicted>>
          /\ phase = IF kind = "nonces" THEN "nonceDeadline" ELSE "sigDeadline"
      BY <2>7 DEF ReadLate, Late
    <3>2. CASE kind = "nonces"
      BY <1>0, <2>0, <3>1, <3>2 DEF Over, Stored
    <3>3. CASE kind = "sigs"
      <4>1. coNonces # Nothing
        BY <1>0, <3>1, <3>3, KeysAssumption DEF NonceAgreement, Submitted, Nothing
      <4> QED  BY <1>0, <2>0, <3>1, <3>3, <4>1 DEF Over, Stored
    <3> QED  BY <3>2, <3>3 DEF Kind
  <2> QED  BY <1>5, <2>1, <2>2, <2>3, <2>4, <2>5, <2>6, <2>7 DEF LocalStep
<1>6. ASSUME NEW s \in Slot, RequestStep(s)  PROVE LateFacts'
  BY <1>0, <1>6, RequestEffect DEF Signed, Submitted
<1>7. ASSUME NEW s \in Slot, AddNonces(s)  PROVE LateFacts'
  <2>1. UNCHANGED <<phase, coNonces, toBan, convicted>> /\ Signed' = Signed
    BY <1>0, <1>7, AddNoncesEffect DEF Signed
  <2>2. /\ prompt'["sigs"] = prompt["sigs"] /\ call[s].key \in Cosigner
        /\ \/ prompt' = prompt
           \/ /\ phase \in {"awaitNonces", "gotNonces"}
              /\ prompt'["nonces"] = prompt["nonces"] \cup {call[s].key}
              /\ nonces'[call[s].key] # Absent
    BY <1>0, <1>7, AddNoncesEffect DEF CallFacts
  <2>3. Submitted(nonces)' = Submitted(nonces') /\ Submitted(nonces) \subseteq Submitted(nonces')
    BY <1>0, <1>7, SubmittedGrows DEF Submitted
  <2>4. phase \in {"awaitNonces", "gotNonces"} => phase \notin Over  BY DEF Over
  <2>5. nonces'[call[s].key] # Absent => call[s].key \in Submitted(nonces')
    BY <2>2 DEF Submitted
  <2> QED  BY <1>0, <2>1, <2>2, <2>3, <2>4, <2>5
<1>8. ASSUME NEW s \in Slot, AddSignatures(s)  PROVE LateFacts'
  <2>1. /\ UNCHANGED <<phase, coNonces, toBan, convicted, nonces>>
        /\ Submitted(nonces)' = Submitted(nonces)
    BY <1>0, <1>8, AddSignaturesEffect DEF Submitted
  <2>2. /\ prompt'["nonces"] = prompt["nonces"]
        /\ \/ prompt' = prompt
           \/ /\ phase \in {"awaitSigs", "gotSigs"}
              /\ prompt'["sigs"] = prompt["sigs"] \cup {call[s].key}
    BY <1>0, <1>8, AddSignaturesEffect
  <2>3. Signed \subseteq Signed' /\ call[s].key \in Signed'  BY <1>0, <1>8, SignedGrows
  <2>4. phase \in {"awaitSigs", "gotSigs"} => phase \notin Over  BY DEF Over
  <2> QED  BY <1>0, <2>1, <2>2, <2>3, <2>4
<1> QED  BY Steps, <1>1, <1>2, <1>3, <1>4, <1>5, <1>6, <1>7, <1>8

\* Convictions are pronounced on whoever was late, and nobody is prompt after that.
LEMMA ConvictStep ==
  ASSUME SigningInv, Next
  PROVE  PromptNotConvicted'
<1>0. TypeOK /\ LateFacts /\ PromptNotConvicted
  BY DEF SigningInv
<1>1. CASE BanCosignerInputs
  <2>1. /\ UNCHANGED <<coNonces, prompt>>
        /\ convicted' \subseteq convicted \cup {i \in Intent : KeysOf[i] \cap toBan # {}}
    BY <1>1 DEF BanCosignerInputs
  <2> QED  BY <1>0, <2>1 DEF PromptNotConvicted, LateFacts
<1>2. CASE AggregateNonces
  BY <1>0, <1>2 DEF AggregateNonces, PromptNotConvicted, LateFacts, Over
<1>3. CASE LocalStep /\ ~BanCosignerInputs /\ ~AggregateNonces
  <2>1. UNCHANGED <<coNonces, convicted, prompt>>
    BY <1>3, LocalEffect DEF LocalStep, SignTree, RedisFails, DeadlinePasses, Collected, ReadLate,
       Poll, coordinatorVars
  <2> QED  BY <1>0, <2>1 DEF PromptNotConvicted
<1>4. CASE NewSession \/ SetAggregatedNonces \/ DeleteSession \/ Crash
  BY <1>0, <1>4 DEF NewSession, SetAggregatedNonces, DeleteSession, Crash, PromptNotConvicted
<1>5. ASSUME NEW s \in Slot, RequestStep(s)  PROVE PromptNotConvicted'
  BY <1>0, <1>5, RequestEffect DEF PromptNotConvicted
<1>6. ASSUME NEW s \in Slot, AddNonces(s)  PROVE PromptNotConvicted'
  <2>1. UNCHANGED <<coNonces, convicted>> /\ (prompt' = prompt \/ phase \in {"awaitNonces", "gotNonces"})
    BY <1>0, <1>6, AddNoncesEffect
  <2> QED  BY <1>0, <2>1 DEF PromptNotConvicted, LateFacts, Over
<1>7. ASSUME NEW s \in Slot, AddSignatures(s)  PROVE PromptNotConvicted'
  <2>1. UNCHANGED <<coNonces, convicted>> /\ (prompt' = prompt \/ phase \in {"awaitSigs", "gotSigs"})
    BY <1>0, <1>7, AddSignaturesEffect
  <2> QED  BY <1>0, <2>1 DEF PromptNotConvicted, LateFacts, Over
<1> QED  BY Steps, <1>1, <1>2, <1>3, <1>4, <1>5, <1>6, <1>7

-----------------------------------------------------------------------------
(* The theorems.                                                           *)

\* The invariant holds before the first session.
LEMMA SigningInit ==
  ASSUME Init
  PROVE  SigningInv
<1> USE DEF Init
<1>1. Nothing \in Vector /\ Unsigned \in Sig /\ Idle \in Call
  BY KeysAssumption DEF Call, Idle, Sig, Unsigned, Nothing, Vector, Kind
<1>2. TypeOK  BY <1>1 DEF TypeOK, Phase, Cause
<1>3. WatchFacts  BY DEF WatchFacts, Kind
<1>4. CallFacts  BY DEF CallFacts, Idle
<1>5. SigFacts  BY DEF SigFacts, Signed
<1>6. StageFacts  BY DEF StageFacts, Early, Aggregated
<1>7. LateFacts  BY DEF LateFacts, Kind
<1>8. NonceAgreement /\ OnlyLateOrRedis /\ PromptNotConvicted
  BY DEF NonceAgreement, OnlyLateOrRedis, PromptNotConvicted
<1> QED  BY <1>2, <1>3, <1>4, <1>5, <1>6, <1>7, <1>8 DEF SigningInv

\* Every step keeps it.
LEMMA SigningStep ==
  ASSUME SigningInv, [Next]_vars
  PROVE  SigningInv'
<1>1. CASE Next
  <2>1. TypeOK'  BY <1>1, TypeStep DEF SigningInv
  <2> QED
    BY <1>1, <2>1, WatchStep, CallStep, SigStep, StageStep, LateStep, AgreementStep, CauseStep, ConvictStep
    DEF SigningInv
<1>2. CASE UNCHANGED vars
  BY <1>2 DEF vars, redisVars, coordinatorVars, SigningInv, TypeOK, WatchFacts, CallFacts, SigFacts,
     StageFacts, LateFacts, NonceAgreement, OnlyLateOrRedis, PromptNotConvicted, Submitted, Signed
<1> QED  BY <1>1, <1>2

\* The invariant holds in every state the session, its requests and its watchers reach.
THEOREM SigningAlways == Spec => []SigningInv
  BY SigningInit, SigningStep, PTL DEF Spec

\* What the coordinator aggregated is what Redis keeps for every cosigner, whatever they
\* send again and however often (AddNonces keeps the first nonces).
THEOREM NoncesAlwaysAgree == Spec => []NonceAgreement
<1>1. SigningInv => NonceAgreement  BY DEF SigningInv
<1> QED  BY <1>1, SigningAlways, PTL

\* The signing of the tree fails on a deadline or on Redis only: startFinalization never
\* finds a nonce or a signature missing, or a signature invalid, that the server accepted.
THEOREM OnlyLateOrRedisFails == Spec => []OnlyLateOrRedis
<1>1. SigningInv => OnlyLateOrRedis  BY DEF SigningInv
<1> QED  BY <1>1, SigningAlways, PTL

\* banCosignerInputs never convicts the inputs of an intent whose cosigners were in time.
THEOREM PromptNeverConvicted == Spec => []PromptNotConvicted
<1>1. SigningInv => PromptNotConvicted  BY DEF SigningInv
<1> QED  BY <1>1, SigningAlways, PTL
=============================================================================
