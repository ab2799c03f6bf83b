---------------------------- MODULE TreeSigning ----------------------------
(***************************************************************************)
(* The MuSig2 session that signs the vtxo tree of a batch.                 *)
(*                                                                         *)
(* The round loop is the coordinator: it opens a session in Redis, waits   *)
(* for the nonces of all the cosigners, aggregates them, waits for their   *)
(* partial signatures and combines them.  The clients write nonces and     *)
(* signatures through concurrent requests, some of them repeated, and two  *)
(* watchers poll Redis and wake the coordinator through channels.  Who is  *)
(* late at a deadline is convicted by a goroutine.                         *)
(*                                                                         *)
(* A nonce stands for the nonces of one cosigner for every tx of the tree, *)
(* the aggregated nonces for the vector they are computed from, and a      *)
(* partial signature for the nonce and the aggregated nonces it was made   *)
(* with.  The signatures of the operator need no waiting and are left out. *)
(***************************************************************************)
EXTENDS Naturals, FiniteSets

CONSTANTS
    Cosigner,  \* public keys that sign the tree, the one of the operator left out
    Intent,    \* intents of the batch
    KeysOf,    \* the cosigners of each intent
    Nonce,     \* nonces a client may draw
    Absent,    \* no nonce
    Slot,      \* requests in flight
    Faults     \* what may go wrong

ASSUME KeysAssumption ==
    /\ IsFiniteSet(Cosigner) /\ Cosigner # {}
    /\ KeysOf \in [Intent -> SUBSET Cosigner]
    /\ Absent \notin Nonce

\* A command of Redis fails; the server restarts.
ASSUME FaultsAssumption == Faults \subseteq {"redis", "crash"}

VARIABLES
    \* Redis
    exists,     \* the session exists
    aggregated, \* the aggregated nonces of the session
    nonces,     \* nonces by cosigner
    sigs,       \* partial signatures by cosigner
    \* coordinator
    phase,      \* where the round loop is
    cause,      \* why the round failed
    coNonces,   \* the nonces it aggregated
    toBan,      \* cosigners a goroutine is about to convict the intents of
    convicted,  \* convicted intents
    \* watchers of nonces and of signatures
    watch,
    \* requests
    call,
    \* history
    prompt      \* cosigners whose nonces, or signatures, were stored before the deadline

redisVars == <<exists, aggregated, nonces, sigs>>
coordinatorVars == <<phase, cause, coNonces, toBan, convicted>>
vars == <<redisVars, coordinatorVars, watch, call, prompt>>

-----------------------------------------------------------------------------
Vector == [Cosigner -> Nonce \cup {Absent}]
Nothing == [k \in Cosigner |-> Absent]
Sig == [nonce : Nonce \cup {Absent}, agg : Vector]
Unsigned == [nonce |-> Absent, agg |-> Nothing]

Kind == {"nonces", "sigs"}
Phase == {"built", "awaitNonces", "nonceDeadline", "gotNonces", "aggregated", "awaitSigs",
          "sigDeadline", "gotSigs", "signed", "failed", "gone", "deleted"}
Cause == {"none", "timeout", "redis", "incomplete", "invalid"}

Submitted(vector) == {k \in Cosigner : vector[k] # Absent}
Signed == {k \in Cosigner : sigs[k] # Unsigned}
Stored(kind) == IF kind = "nonces" THEN Submitted(nonces) ELSE Signed

\* verifyTreePartialSigs: a signature is valid for the nonces of its signer and the
\* aggregated nonces it was made with.
Valid(k, sig, vector, agg) == sig.nonce = vector[k] /\ sig.agg = agg

Idle == [step |-> "idle", kind |-> "nonces", key |-> CHOOSE k \in Cosigner : TRUE,
         sig |-> Unsigned, agg |-> Nothing]

Init ==
    /\ exists = FALSE /\ aggregated = Nothing
    /\ nonces = Nothing /\ sigs = [k \in Cosigner |-> Unsigned]
    /\ phase = "built" /\ cause = "none" /\ coNonces = Nothing
    /\ toBan = {} /\ convicted = {}
    /\ watch = [kind \in Kind |-> "off"]
    /\ call = [s \in Slot |-> Idle]
    /\ prompt = [kind \in Kind |-> {}]

-----------------------------------------------------------------------------
(* The coordinator, in startFinalization.                                  *)

Fail(why) == phase' = "failed" /\ cause' = why

NewSession ==
    /\ phase = "built"
    /\ exists' = TRUE
    /\ watch' = [kind \in Kind |-> "polling"]
    /\ phase' = "awaitNonces"
    /\ UNCHANGED <<aggregated, nonces, sigs, cause, coNonces, toBan, convicted, call, prompt>>

\* Every command the coordinator sends to Redis may fail and fails the round; a read
\* that fails after a deadline also spares the cosigners that are late.
RedisFails ==
    /\ "redis" \in Faults
    /\ \/ phase \in {"built", "gotNonces", "aggregated", "gotSigs"} /\ Fail("redis")
       \/ phase \in {"nonceDeadline", "sigDeadline"} /\ Fail("timeout")
    /\ UNCHANGED <<redisVars, coNonces, toBan, convicted, watch, call, prompt>>

\* The timer of a stage fires; it may do so even if a watcher is offering.
DeadlinePasses ==
    /\ phase' = CASE phase = "awaitNonces" -> "nonceDeadline"
                  [] phase = "awaitSigs" -> "sigDeadline"
                  [] OTHER -> phase
    /\ phase' # phase
    /\ UNCHANGED <<redisVars, cause, coNonces, toBan, convicted, watch, call, prompt>>

\* Mutant: the cosigners that are late with their nonces are looked up in the signatures.
LateBySignatures(kind) == Cosigner \ Signed
Late(kind) == Cosigner \ Stored(kind)

\* The session is read after the deadline, and a goroutine starts to convict.
ReadLate(kind) ==
    /\ phase = IF kind = "nonces" THEN "nonceDeadline" ELSE "sigDeadline"
    /\ toBan' = Late(kind)
    /\ Fail("timeout")
    /\ UNCHANGED <<redisVars, coNonces, convicted, watch, call, prompt>>

\* banCosignerInputs convicts the inputs of every intent of a late cosigner; a failure
\* to store the convictions is only logged.
BanCosignerInputs ==
    /\ toBan # {}
    /\ toBan' = {}
    /\ convicted' \in {convicted, convicted \cup {i \in Intent : KeysOf[i] \cap toBan # {}}}
    /\ UNCHANGED <<redisVars, phase, cause, coNonces, watch, call, prompt>>

\* The coordinator takes the offer of a watcher.
Collected(kind) ==
    /\ watch[kind] = "offering"
    /\ phase = IF kind = "nonces" THEN "awaitNonces" ELSE "awaitSigs"
    /\ phase' = IF kind = "nonces" THEN "gotNonces" ELSE "gotSigs"
    /\ watch' = [watch EXCEPT ![kind] = "off"]
    /\ UNCHANGED <<redisVars, cause, coNonces, toBan, convicted, call, prompt>>

\* It reads the nonces again and aggregates them; all of them have to be there.
AggregateNonces ==
    /\ phase = "gotNonces"
    /\ coNonces' = nonces
    /\ IF Submitted(nonces) = Cosigner
       THEN phase' = "aggregated" /\ UNCHANGED cause
       ELSE Fail("incomplete")
    /\ UNCHANGED <<redisVars, toBan, convicted, watch, call, prompt>>

SetAggregatedNonces ==
    /\ phase = "aggregated"
    /\ aggregated' = coNonces
    /\ phase' = "awaitSigs"
    /\ UNCHANGED <<exists, nonces, sigs, cause, coNonces, toBan, convicted, watch, call, prompt>>

\* It reads the signatures, validates each one and combines them.
SignTree ==
    /\ phase = "gotSigs"
    /\ \/ /\ \E k \in Signed : ~Valid(k, sigs[k], coNonces, coNonces)
          /\ Fail("invalid")
       \/ /\ \A k \in Signed : Valid(k, sigs[k], coNonces, coNonces)
          /\ IF Signed = Cosigner THEN phase' = "signed" /\ UNCHANGED cause ELSE Fail("incomplete")
    /\ UNCHANGED <<redisVars, coNonces, toBan, convicted, watch, call, prompt>>

\* startRound of the next round deletes the session and stops the watchers.
DeleteSession ==
    /\ phase \in {"signed", "failed", "gone"}
    /\ phase' = "deleted"
    /\ exists' = FALSE /\ aggregated' = Nothing
    /\ nonces' = Nothing /\ sigs' = [k \in Cosigner |-> Unsigned]
    /\ watch' = [kind \in Kind |-> "off"]
    /\ UNCHANGED <<cause, coNonces, toBan, convicted, call, prompt>>

-----------------------------------------------------------------------------
(* The watchers.                                                           *)

\* Mutant: the operator, counted among the cosigners of the session, is waited for too.
AllThereAndOperator(kind) == Cardinality(Stored(kind)) = Cardinality(Cosigner) + 1
AllThere(kind) == Cardinality(Stored(kind)) = Cardinality(Cosigner)

Poll(kind) ==
    /\ watch[kind] = "polling"
    /\ exists /\ AllThere(kind)
    /\ watch' = [watch EXCEPT ![kind] = "offering"]
    /\ UNCHANGED <<redisVars, coordinatorVars, call, prompt>>

-----------------------------------------------------------------------------
(* The requests of the clients.                                            *)

Go(s, step) == call' = [call EXCEPT ![s].step = step]
Answer(s) == call' = [call EXCEPT ![s] = Idle]

\* Any command of a request may fail, and the client gets an error.
RequestFails(s) ==
    /\ "redis" \in Faults
    /\ call[s].step # "idle"
    /\ Answer(s)
    /\ UNCHANGED <<redisVars, coordinatorVars, watch, prompt>>

\* A client sends a nonce: the session is read and the nonce verified on its own.  A
\* request for another key, or without a session, is refused and changes nothing.
RegisterCosignerNonces(s) ==
    /\ call[s].step = "idle"
    /\ exists
    /\ \E k \in Cosigner, n \in Nonce :
          call' = [call EXCEPT ![s] = [step |-> "verified", kind |-> "nonces", key |-> k,
                                       sig |-> [nonce |-> n, agg |-> Nothing], agg |-> Nothing]]
    /\ UNCHANGED <<redisVars, coordinatorVars, watch, prompt>>

\* A client sends a signature made with a nonce of its own, for the aggregated nonces or
\* for something else.  The metadata of the session are read first: the nonces have to be
\* aggregated.
RegisterCosignerSignatures(s) ==
    /\ call[s].step = "idle"
    /\ exists /\ aggregated # Nothing
    /\ \E k \in Cosigner, n \in Nonce, a \in {Nothing, aggregated} :
          call' = [call EXCEPT ![s] = [step |-> "metaRead", kind |-> "sigs", key |-> k,
                                       sig |-> [nonce |-> n, agg |-> a], agg |-> aggregated]]
    /\ UNCHANGED <<redisVars, coordinatorVars, watch, prompt>>

\* Mutant: the signature is verified against the aggregated nonces only.
VerifiesAgainstAggregate(c) == c.sig.nonce # Absent /\ c.sig.agg = c.agg
\* The nonces of the signer are read after the metadata; there may be none.
Verifies(c) == nonces[c.key] # Absent /\ Valid(c.key, c.sig, nonces, c.agg)

VerifySignatures(s) ==
    /\ call[s].step = "metaRead"
    /\ IF Verifies(call[s]) THEN Go(s, "verified") ELSE Answer(s)
    /\ UNCHANGED <<redisVars, coordinatorVars, watch, prompt>>

\* AddNonces and AddSignatures read the cosigners of the session again.
GetCosigners(s) ==
    /\ call[s].step = "verified"
    /\ IF exists THEN Go(s, "adding") ELSE Answer(s)
    /\ UNCHANGED <<redisVars, coordinatorVars, watch, prompt>>

Awaited(kind) == IF kind = "nonces" THEN phase \in {"awaitNonces", "gotNonces"}
                 ELSE phase \in {"awaitSigs", "gotSigs"}
NotePrompt(kind, k) ==
    prompt' = IF Awaited(kind) THEN [prompt EXCEPT ![kind] = @ \cup {k}] ELSE prompt

\* Mutant: nonces sent again replace the first ones.
AddNoncesAgain(s) ==
    /\ call[s].step = "adding" /\ call[s].kind = "nonces"
    /\ nonces' = [nonces EXCEPT ![call[s].key] = call[s].sig.nonce]
    /\ NotePrompt("nonces", call[s].key)
    /\ Answer(s)
    /\ UNCHANGED <<exists, aggregated, sigs, coordinatorVars, watch>>

\* The first nonces of a cosigner are kept, whatever it sends later.
AddNonces(s) ==
    /\ call[s].step = "adding" /\ call[s].kind = "nonces"
    /\ IF nonces[call[s].key] # Absent
       THEN UNCHANGED <<nonces, prompt>>
       ELSE /\ nonces' = [nonces EXCEPT ![call[s].key] = call[s].sig.nonce]
            /\ NotePrompt("nonces", call[s].key)
    /\ Answer(s)
    /\ UNCHANGED <<exists, aggregated, sigs, coordinatorVars, watch>>

\* The last signatures of a cosigner are kept.
AddSignatures(s) ==
    /\ call[s].step = "adding" /\ call[s].kind = "sigs"
    /\ sigs' = [sigs EXCEPT ![call[s].key] = call[s].sig]
    /\ NotePrompt("sigs", call[s].key)
    /\ Answer(s)
    /\ UNCHANGED <<exists, aggregated, nonces, coordinatorVars, watch>>

-----------------------------------------------------------------------------
\* The server stops: the round loop, the watchers, the requests and the goroutines are
\* gone, Redis stays.
Crash ==
    /\ "crash" \in Faults
    /\ phase \notin {"built", "gone", "deleted"}
    /\ phase' = "gone"
    /\ toBan' = {}
    /\ watch' = [kind \in Kind |-> "off"]
    /\ call' = [s \in Slot |-> Idle]
    /\ UNCHANGED <<redisVars, cause, coNonces, convicted, prompt>>

Coordinator ==
    \/ NewSession \/ AggregateNonces \/ SetAggregatedNonces \/ SignTree
    \/ \E kind \in Kind : Collected(kind) \/ ReadLate(kind)

Handle(s) ==
    \/ VerifySignatures(s) \/ GetCosigners(s) \/ AddNonces(s) \/ AddSignatures(s)

Next ==
    \/ Coordinator \/ RedisFails \/ DeadlinePasses \/ BanCosignerInputs \/ DeleteSession
    \/ \E kind \in Kind : Poll(kind)
    \/ \E s \in Slot : RegisterCosignerNonces(s) \/ RegisterCosignerSignatures(s)
                      \/ Handle(s) \/ RequestFails(s)
    \/ Crash

Spec == Init /\ [][Next]_vars

\* The coordinator and the watchers keep running; deadlines may or may not pass, clients
\* need not send anything and the next round need not start.
FairSpec ==
    /\ Spec
    /\ WF_vars(Coordinator)
    /\ \A kind \in Kind : WF_vars(Poll(kind))

-----------------------------------------------------------------------------
(* Properties.                                                             *)

Call == [step : {"idle", "metaRead", "verified", "adding"}, kind : Kind, key : Cosigner,
         sig : Sig, agg : Vector]

\* Every variable has its type.
TypeOK ==
    /\ exists \in BOOLEAN
    /\ aggregated \in Vector /\ nonces \in Vector /\ sigs \in [Cosigner -> Sig]
    /\ phase \in Phase /\ cause \in Cause
    /\ coNonces \in Vector
    /\ toBan \subseteq Cosigner /\ convicted \subseteq Intent
    /\ watch \in [Kind -> {"off", "polling", "offering"}]
    /\ call \in [Slot -> Call]
    /\ prompt \in [Kind -> SUBSET Cosigner]

\* Once the nonces are aggregated, what Redis holds for every cosigner is what was
\* aggregated, whatever the cosigners send again: a signature the server verifies
\* against Redis is one the coordinator accepts.
NonceAgreement ==
    phase \in {"aggregated", "awaitSigs", "sigDeadline", "gotSigs", "signed"} =>
        nonces = coNonces /\ Submitted(nonces) = Cosigner

\* A round never fails on what the server accepted from its clients: the coordinator
\* finds all the nonces and all the signatures when it is told so, and all of them
\* valid.  Only a deadline or Redis fails the signing of the tree.
OnlyLateOrRedis == cause \notin {"incomplete", "invalid"}

\* The inputs of an intent are not convicted if all its cosigners were in time, with
\* their nonces if the session stopped there and with both otherwise.
PromptNotConvicted ==
    \A i \in convicted :
        \/ ~(KeysOf[i] \subseteq prompt["nonces"])
        \/ coNonces # Nothing /\ ~(KeysOf[i] \subseteq prompt["sigs"])

\* The coordinator does not wait for a deadline once everything it waits for is there.
CompleteStageEnds ==
    /\ (phase = "awaitNonces" /\ Submitted(nonces) = Cosigner) ~> (phase # "awaitNonces")
    /\ (phase = "awaitSigs" /\ Signed = Cosigner) ~> (phase # "awaitSigs")
=============================================================================
