------------------------- MODULE BatchSessionProofs -------------------------
(***************************************************************************)
(* The theorems of BatchSession, for any number of intents and rounds:     *)
(* types and confirmations; the forfeits a batch is broadcast with; no     *)
(* accepted forfeit is held against its sender; and, when handlers end in  *)
(* time, the signal that ends the wait for signatures means that all of    *)
(* them are there.  Each inductive invariant contains the one before it.   *)
(***************************************************************************)
EXTENDS BatchSession, FiniteSetTheorems, TLAPS

\* Most leaves are first-order: Zenon is tried before SMT.
USE Zenon, SMT

\* The steps of the round goroutine, by function.
StartStep ==
    \/ ResetForfeits \/ ResetSession \/ DeleteSignatures \/ DenyRound \/ NewRound
    \/ CloseChannel \/ MakeChannel \/ LoopStops
ConfirmStep ==
    \/ Abort \/ SelectIntents \/ InitSession
    \/ ConfirmationTimeout \/ ConfirmationCompleted \/ RegisterIntents
FinalStep ==
    \/ InitForfeits \/ UpsertCommitmentTx \/ StartFinalization
    \/ StartWaiting \/ WakeOnSignal \/ WakeOnTimeout \/ CheckUnsigned \/ PopForfeits
    \/ AttachSignatures \/ Broadcast \/ EndRound \/ FailRound

-----------------------------------------------------------------------------
(* Types.                                                                  *)

\* The number of members of a set of intents is a number.
LEMMA CountType == ASSUME NEW S, S \subseteq Intent PROVE Cardinality(S) \in Nat
  BY IntentsAssumption, FS_Subset, FS_CardinalityType

\* The empty values have their types.
LEMMA EmptyTypes ==
    /\ NoRound \in CurrentRound /\ NoSession \in Session /\ NoForfeits \in Forfeits
    /\ NoRequest \in Request
    /\ Unsigned \in [Intent -> RoundOrNone]
    /\ 0 \in RoundOrNone
  BY SMT, BoundsAssumption DEF NoRound, NoSession, Unsigned, NoForfeits, NoRequest, RoundOrNone,
     RequestStep, CurrentRound, Session, Forfeits, Request

\* A request that goes on, or returns, is still one.
LEMMA RequestTypes == ASSUME TypeOK, NEW i \in Intent
  PROVE /\ \A s \in RequestStep : Go(i, s) => req' \in [Intent -> Request]
        /\ Return(i) => req' \in [Intent -> Request]
  <1>1. ASSUME NEW s \in RequestStep, Go(i, s) PROVE req' \in [Intent -> Request]
    BY <1>1, ZenonT(60) DEF Go, TypeOK, Request
  <1>2. Return(i) => req' \in [Intent -> Request]
    BY EmptyTypes DEF Return, TypeOK
  <1>. QED BY <1>1, <1>2

\* The fields of a request, of the forfeits, of the session and of the round.
LEMMA FieldTypes == ASSUME TypeOK
  PROVE /\ \A i \in Intent : /\ req[i].step \in RequestStep /\ req[i].tx \in RoundOrNone
                             /\ req[i].batch \in RoundOrNone /\ req[i].count \in Nat
        /\ forfeits.batch \in RoundOrNone /\ forfeits.need \subseteq Forfeiter
        /\ forfeits.signed \in [Intent -> RoundOrNone]
        /\ session.id \in RoundOrNone /\ session.intents \subseteq Intent
        /\ session.confirmed \subseteq Intent
        /\ current.id \in RoundOrNone /\ current.built \in BOOLEAN
  BY DEF TypeOK, Request, Forfeits, Session, CurrentRound

\* The initial state has the right types.
LEMMA TypeInit == Init => TypeOK
  <1>1. Init => req \in [Intent -> Request] /\ told \in [Intent -> RoundOrNone]
    BY EmptyTypes DEF Init
  <1>2. Init => boardingSigs \in [RoundOrNone -> SUBSET Intent]
    BY DEF Init
  <1>3. Init => /\ loop \in Step /\ woken \in {"no", "signal", "timer"}
                /\ watcher \in {"polling", "sending", "closed"}
    BY DEF Init, Step
  <1>4. Init => round \in RoundOrNone /\ numBoarding \in Nat
    BY SMT, EmptyTypes DEF Init
  <1>5. Init => signal \in BOOLEAN
    BY ZenonT(60) DEF Init
  <1>6. Init => /\ current \in CurrentRound /\ session \in Session /\ forfeits \in Forfeits
                /\ collected \in [Intent -> RoundOrNone]
    BY EmptyTypes DEF Init
  <1>7. Init => /\ selected \subseteq Intent /\ registered \subseteq Intent
                /\ attached \subseteq Intent /\ announcing \subseteq Event
                /\ settled \subseteq Intent /\ served \subseteq RoundOrNone \X Intent
                /\ convicted \subseteq RoundOrNone \X Intent
    BY DEF Init
  <1>. QED BY <1>1, <1>2, <1>3, <1>4, <1>5, <1>6, <1>7 DEF TypeOK

\* The steps of startRound keep the types.
LEMMA StartingTyped == ASSUME TypeOK, StartStep PROVE TypeOK'
  <1>1. CASE ResetForfeits
    BY <1>1, EmptyTypes
    DEF ResetForfeits, redisVars, roundVars, clientVars, TypeOK, Step
  <1>2. CASE ResetSession
    BY <1>2, EmptyTypes DEF ResetSession, redisVars, roundVars, clientVars, TypeOK, Step
  <1>3. CASE DeleteSignatures
    BY <1>3 DEF DeleteSignatures, redisVars, roundVars, clientVars, TypeOK, Step
  <1>4. CASE DenyRound
    BY <1>4 DEF DenyRound, redisVars, roundVars, clientVars, TypeOK, Step
  <1>5. CASE NewRound
    BY SMT, <1>5, BoundsAssumption
    DEF NewRound, redisVars, roundVars, clientVars, TypeOK, Step, RoundOrNone,
        CurrentRound
  <1>6. CASE CloseChannel
    BY <1>6 DEF CloseChannel, redisVars, roundVars, clientVars, TypeOK, Step
  <1>7. CASE MakeChannel
    BY <1>7, ZenonT(60) DEF MakeChannel, redisVars, roundVars, clientVars, TypeOK, Step
  <1>8. CASE LoopStops
    BY <1>8 DEF LoopStops, redisVars, roundVars, clientVars, TypeOK, Step
  <1>. QED
    BY <1>1, <1>2, <1>3, <1>4, <1>5, <1>6, <1>7, <1>8 DEF StartStep

\* The steps of startConfirmation keep the types.
LEMMA ConfirmingTyped == ASSUME TypeOK, ConfirmStep PROVE TypeOK'
  <1>1. CASE Abort
    BY <1>1 DEF Abort, redisVars, roundVars, clientVars, TypeOK, Step
  <1>2. CASE SelectIntents
    BY <1>2 DEF SelectIntents, redisVars, roundVars, clientVars, TypeOK, Step
  <1>3. CASE InitSession
    BY SMT, <1>3 DEF InitSession, redisVars, roundVars, clientVars, TypeOK, Step, Session
  <1>4. CASE ConfirmationTimeout
    BY <1>4
    DEF ConfirmationTimeout, Confirmed, SessionConfirmed, redisVars, roundVars,
        clientVars, TypeOK, Step
  <1>5. CASE ConfirmationCompleted
    BY <1>5
    DEF ConfirmationCompleted, Confirmed, redisVars, roundVars, clientVars, TypeOK, Step
  <1>6. CASE RegisterIntents
    BY <1>6, CountType
    DEF RegisterIntents, redisVars, roundVars, clientVars, TypeOK, Step
  <1>. QED
    BY <1>1, <1>2, <1>3, <1>4, <1>5, <1>6 DEF ConfirmStep

\* The steps of startFinalization and finalizeRound keep the types.
LEMMA FinalizingTyped == ASSUME TypeOK, FinalStep PROVE TypeOK'
  <1>1. CASE InitForfeits
    BY <1>1, EmptyTypes, IntentsAssumption
    DEF InitForfeits, redisVars, roundVars, clientVars, TypeOK, Step, Forfeits
  <1>2. CASE UpsertCommitmentTx
    BY <1>2
    DEF UpsertCommitmentTx, redisVars, roundVars, clientVars, TypeOK, Step, CurrentRound
  <1>3. CASE StartFinalization
    BY SMT, <1>3 DEF StartFinalization, redisVars, roundVars, clientVars, TypeOK, Step, Event
  <1>4. CASE StartWaiting
    BY <1>4 DEF StartWaiting, redisVars, roundVars, clientVars, TypeOK, Step
  <1>5. CASE WakeOnSignal
    BY <1>5, ZenonT(60) DEF WakeOnSignal, redisVars, roundVars, clientVars, TypeOK, Step
  <1>6. CASE WakeOnTimeout
    BY <1>6 DEF WakeOnTimeout, redisVars, roundVars, clientVars, TypeOK, Step
  <1>7. CASE CheckUnsigned
    BY SMT, <1>7, FieldTypes, IntentsAssumption
    DEF CheckUnsigned, MissingForfeits, redisVars, roundVars, clientVars, TypeOK, Step
  <1>8. CASE PopForfeits
    BY <1>8, FieldTypes, EmptyTypes
    DEF PopForfeits, redisVars, roundVars, clientVars, TypeOK, Step
  <1>9. CASE AttachSignatures
    BY <1>9 DEF AttachSignatures, redisVars, roundVars, clientVars, TypeOK, Step
  <1>10. CASE Broadcast
    BY <1>10 DEF Broadcast, redisVars, roundVars, clientVars, TypeOK, Step
  <1>11. CASE EndRound
    BY <1>11 DEF EndRound, redisVars, roundVars, clientVars, TypeOK, Step
  <1>12. CASE FailRound
    BY <1>12 DEF FailRound, redisVars, roundVars, clientVars, TypeOK, Step
  <1>. QED
    BY <1>1, <1>2, <1>3, <1>4, <1>5, <1>6, <1>7, <1>8, <1>9, <1>10, <1>11, <1>12
    DEF FinalStep

\* The handlers of the signatures keep the types.
LEMMA HandlersTyped == ASSUME TypeOK, NEW i \in Intent, HandlerStep(i) PROVE TypeOK'
  <1>1. CASE BindForfeits(i)
    BY <1>1, RequestTypes
    DEF BindForfeits, Go, Return, redisVars, roundVars, clientVars, TypeOK, RequestStep
  <1>2. CASE CommitForfeits(i)
    <2>1. req' \in [Intent -> Request]
      BY <1>2, RequestTypes DEF CommitForfeits, RequestStep
    <2>2. forfeits' = forfeits \/ forfeits' = [forfeits EXCEPT !.signed[i] = req[i].batch]
      BY <1>2 DEF CommitForfeits
    <2>4. forfeits' \in Forfeits
      BY SMT, <2>2, FieldTypes DEF TypeOK, Forfeits
    <2>3. served' \subseteq RoundOrNone \X Intent
      BY SMT, <1>2, FieldTypes DEF CommitForfeits, TypeOK
    <2>. QED BY <1>2, <2>1, <2>3, <2>4 DEF CommitForfeits, roundVars, TypeOK
  <1>3. CASE AddSignatures(i)
    <2>1. req' \in [Intent -> Request]
      BY <1>3, RequestTypes DEF AddSignatures, RequestStep
    <2>2. boardingSigs' \in [RoundOrNone -> SUBSET Intent]
      BY <1>3, FieldTypes DEF AddSignatures, TypeOK
    <2>. QED BY <1>3, <2>1, <2>2 DEF AddSignatures, roundVars, clientVars, TypeOK
  <1>4. CASE GetSignatures(i)
    <2>1. Cardinality(boardingSigs[req[i].tx]) \in Nat
      BY FieldTypes, CountType DEF TypeOK
    <2>2. req' \in [Intent -> Request]
      BY <1>4, <2>1, ZenonT(60) DEF GetSignatures, TypeOK, Request, RequestStep
    <2>. QED BY <1>4, <2>2 DEF GetSignatures, redisVars, roundVars, clientVars, TypeOK
  <1>5. CASE GetBoardingInputs(i)
    BY <1>5, RequestTypes
    DEF GetBoardingInputs, Go, Return, redisVars, roundVars, clientVars, TypeOK,
        RequestStep
  <1>6. CASE AllSigned(i)
    BY <1>6, RequestTypes
    DEF AllSigned, Go, Return, MissingForfeits, redisVars, roundVars, clientVars,
        TypeOK, RequestStep
  <1>7. CASE SendSignal(i)
    BY <1>7, RequestTypes, ZenonT(60)
    DEF SendSignal, Return, redisVars, roundVars, clientVars, TypeOK, RequestStep
  <1>. QED
    BY <1>1, <1>2, <1>3, <1>4, <1>5, <1>6, <1>7 DEF HandlerStep

\* The calls of the clients keep the types.
LEMMA ClientsTyped == ASSUME TypeOK, NEW i \in Intent, ClientStep(i) PROVE TypeOK'
  <1>1. CASE ConfirmRegistration(i)
    BY <1>1 DEF ConfirmRegistration, redisVars, roundVars, clientVars, TypeOK, Session
  <1>2. CASE SubmitForfeitTxs(i)
    BY SMT, <1>2, FieldTypes, EmptyTypes
    DEF SubmitForfeitTxs, InTime, redisVars, roundVars, clientVars, TypeOK, RequestStep,
        Request
  <1>3. CASE SignCommitmentTx(i)
    BY <1>3, FieldTypes, EmptyTypes, ZenonT(60)
    DEF SignCommitmentTx, InTime, redisVars, roundVars, clientVars, TypeOK, RequestStep,
        Request, NoRequest
  <1>. QED
    BY <1>1, <1>2, <1>3 DEF ClientStep

\* Every step keeps the types.
LEMMA TypedStep == ASSUME TypeOK, [Next]_vars PROVE TypeOK'
  <1>1. CASE RoundStep
    BY <1>1, StartingTyped, ConfirmingTyped, FinalizingTyped
    DEF RoundStep, StartStep, ConfirmStep, FinalStep
  <1>2. ASSUME NEW i \in Intent, HandlerStep(i) PROVE TypeOK'
    BY <1>2, HandlersTyped
  <1>3. ASSUME NEW i \in Intent, ClientStep(i) PROVE TypeOK'
    BY <1>3, ClientsTyped
  <1>4. ASSUME NEW i \in Intent, SendOnClosed(i) PROVE TypeOK'
    BY <1>4, EmptyTypes, ZenonT(60)
    DEF SendOnClosed, Restart, redisVars, roundVars, clientVars, TypeOK, Step
  <1>5. CASE WatchSessionCompletion
    BY <1>5 DEF WatchSessionCompletion, redisVars, roundVars, clientVars, TypeOK, Step
  <1>6. ASSUME NEW event \in announcing, PropagateEvents(event) PROVE TypeOK'
    BY <1>6 DEF PropagateEvents, Hears, redisVars, roundVars, clientVars, TypeOK, Event
  <1>7. CASE Crash
    BY <1>7, EmptyTypes, ZenonT(60)
    DEF Crash, Restart, redisVars, roundVars, clientVars, TypeOK, Step
  <1>8. CASE UNCHANGED vars
    BY SMT, <1>8 DEF vars, redisVars, roundVars, clientVars, TypeOK, Step
  <1>. QED BY <1>1, <1>2, <1>3, <1>4, <1>5, <1>6, <1>7, <1>8 DEF Next

\* Every variable of the batch session keeps its type.
THEOREM BatchTyped == Spec => []TypeOK
  <1>1. TypeOK /\ [Next]_vars => TypeOK'
    BY TypedStep
  <1>. QED BY TypeInit, <1>1, PTL DEF Spec

-----------------------------------------------------------------------------
(* The confirmed intents.                                                  *)

\* The steps from the reset of the session to the selection of intents, and those in
\* which a round runs.
BeforeSession == {"sessionReset", "clean", "upserted", "closed", "registration", "popped"}
Unregistered == BeforeSession \cup {"forfeitsReset", "confirming"}
Running == Step \ {"start", "forfeitsReset", "sessionReset", "clean", "stopped"}

\* There is no session before the one of the round, and no offer of its watcher; an
\* offer is made for the session in the store.
ConfirmFacts ==
    /\ loop \in Running => current.id = round /\ round # 0
    /\ current.id = 0 \/ loop \in BeforeSession => session = NoSession /\ watcher = "polling"
    /\ loop = "confirming" => session.id = round /\ session.intents = selected
    /\ watcher = "sending" => session.confirmed = session.intents
    /\ loop \in Unregistered => registered = {}
    /\ ConfirmedOnly

ConfirmInv == TypeOK /\ ConfirmFacts

\* The steps of startRound keep what is known of the session.
LEMMA StartingConfirmed ==
  ASSUME "session" \notin Faults, ConfirmInv, StartStep
  PROVE ConfirmFacts'
  <1>1. CASE ResetForfeits
    BY <1>1, FieldTypes
    DEF ResetForfeits, redisVars, roundVars, clientVars, ConfirmInv, ConfirmFacts,
        ConfirmedOnly, BeforeSession, Unregistered, Running, Step
  <1>2. CASE ResetSession
    BY <1>2, FieldTypes
    DEF ResetSession, redisVars, roundVars, clientVars, ConfirmInv, ConfirmFacts,
        ConfirmedOnly, BeforeSession, Unregistered, Running, Step, NoSession, TypeOK,
        Session
  <1>3. CASE DeleteSignatures
    BY <1>3, FieldTypes
    DEF DeleteSignatures, redisVars, roundVars, clientVars, ConfirmInv, ConfirmFacts,
        ConfirmedOnly, BeforeSession, Unregistered, Running, Step
  <1>4. CASE DenyRound
    BY <1>4, FieldTypes
    DEF DenyRound, redisVars, roundVars, clientVars, ConfirmInv, ConfirmFacts,
        ConfirmedOnly, BeforeSession, Unregistered, Running, Step
  <1>5. CASE NewRound
    BY SMT, <1>5, FieldTypes
    DEF NewRound, redisVars, roundVars, clientVars, ConfirmInv, ConfirmFacts,
        ConfirmedOnly, BeforeSession, Unregistered, Running, Step, TypeOK, RoundOrNone
  <1>6. CASE CloseChannel
    BY <1>6, FieldTypes
    DEF CloseChannel, redisVars, roundVars, clientVars, ConfirmInv, ConfirmFacts,
        ConfirmedOnly, BeforeSession, Unregistered, Running, Step
  <1>7. CASE MakeChannel
    BY <1>7, FieldTypes
    DEF MakeChannel, redisVars, roundVars, clientVars, ConfirmInv, ConfirmFacts,
        ConfirmedOnly, BeforeSession, Unregistered, Running, Step
  <1>8. CASE LoopStops
    BY <1>8, FieldTypes
    DEF LoopStops, redisVars, roundVars, clientVars, ConfirmInv, ConfirmFacts,
        ConfirmedOnly, BeforeSession, Unregistered, Running, Step
  <1>. QED
    BY <1>1, <1>2, <1>3, <1>4, <1>5, <1>6, <1>7, <1>8 DEF StartStep

\* The steps of startConfirmation keep what is known of the session.
LEMMA ConfirmingConfirmed ==
  ASSUME "session" \notin Faults, ConfirmInv, ConfirmStep
  PROVE ConfirmFacts'
  <1>1. CASE Abort
    BY <1>1, FieldTypes
    DEF Abort, redisVars, roundVars, clientVars, ConfirmInv, ConfirmFacts,
        ConfirmedOnly, BeforeSession, Unregistered, Running, Step
  <1>2. CASE SelectIntents
    BY <1>2, FieldTypes
    DEF SelectIntents, redisVars, roundVars, clientVars, ConfirmInv, ConfirmFacts,
        ConfirmedOnly, BeforeSession, Unregistered, Running, Step
  <1>3. CASE InitSession
    BY SMT, <1>3, FieldTypes
    DEF InitSession, redisVars, roundVars, clientVars, ConfirmInv, ConfirmFacts,
        ConfirmedOnly, BeforeSession, Unregistered, Running, Step, NoSession, TypeOK,
        Session
  <1>4. CASE ConfirmationTimeout
    BY <1>4, FieldTypes
    DEF ConfirmationTimeout, Confirmed, SessionConfirmed, redisVars, roundVars,
        clientVars, ConfirmInv, ConfirmFacts, ConfirmedOnly, BeforeSession,
        Unregistered, Running, Step
  <1>5. CASE ConfirmationCompleted
    BY <1>5, FieldTypes
    DEF ConfirmationCompleted, Confirmed, redisVars, roundVars, clientVars, ConfirmInv,
        ConfirmFacts, ConfirmedOnly, BeforeSession, Unregistered, Running, Step
  <1>6. CASE RegisterIntents
    BY <1>6, FieldTypes
    DEF RegisterIntents, redisVars, roundVars, clientVars, ConfirmInv, ConfirmFacts,
        ConfirmedOnly, BeforeSession, Unregistered, Running, Step
  <1>. QED
    BY <1>1, <1>2, <1>3, <1>4, <1>5, <1>6 DEF ConfirmStep

\* The steps of startFinalization and finalizeRound keep what is known of the session.
LEMMA FinalizingConfirmed ==
  ASSUME "session" \notin Faults, ConfirmInv, FinalStep
  PROVE ConfirmFacts'
  <1>1. CASE InitForfeits
    BY <1>1, FieldTypes
    DEF InitForfeits, redisVars, roundVars, clientVars, ConfirmInv, ConfirmFacts,
        ConfirmedOnly, BeforeSession, Unregistered, Running, Step
  <1>2. CASE UpsertCommitmentTx
    BY <1>2, FieldTypes
    DEF UpsertCommitmentTx, redisVars, roundVars, clientVars, ConfirmInv, ConfirmFacts,
        ConfirmedOnly, BeforeSession, Unregistered, Running, Step
  <1>3. CASE StartFinalization
    BY <1>3, FieldTypes
    DEF StartFinalization, redisVars, roundVars, clientVars, ConfirmInv, ConfirmFacts,
        ConfirmedOnly, BeforeSession, Unregistered, Running, Step
  <1>4. CASE StartWaiting
    BY <1>4, FieldTypes
    DEF StartWaiting, redisVars, roundVars, clientVars, ConfirmInv, ConfirmFacts,
        ConfirmedOnly, BeforeSession, Unregistered, Running, Step
  <1>5. CASE WakeOnSignal
    BY <1>5, FieldTypes
    DEF WakeOnSignal, redisVars, roundVars, clientVars, ConfirmInv, ConfirmFacts,
        ConfirmedOnly, BeforeSession, Unregistered, Running, Step
  <1>6. CASE WakeOnTimeout
    BY <1>6, FieldTypes
    DEF WakeOnTimeout, redisVars, roundVars, clientVars, ConfirmInv, ConfirmFacts,
        ConfirmedOnly, BeforeSession, Unregistered, Running, Step
  <1>7. CASE CheckUnsigned
    BY <1>7, FieldTypes
    DEF CheckUnsigned, MissingForfeits, redisVars, roundVars, clientVars, ConfirmInv,
        ConfirmFacts, ConfirmedOnly, BeforeSession, Unregistered, Running, Step
  <1>8. CASE PopForfeits
    BY <1>8, FieldTypes
    DEF PopForfeits, redisVars, roundVars, clientVars, ConfirmInv, ConfirmFacts,
        ConfirmedOnly, BeforeSession, Unregistered, Running, Step
  <1>9. CASE AttachSignatures
    BY <1>9, FieldTypes
    DEF AttachSignatures, redisVars, roundVars, clientVars, ConfirmInv, ConfirmFacts,
        ConfirmedOnly, BeforeSession, Unregistered, Running, Step
  <1>10. CASE Broadcast
    BY <1>10, FieldTypes
    DEF Broadcast, redisVars, roundVars, clientVars, ConfirmInv, ConfirmFacts,
        ConfirmedOnly, BeforeSession, Unregistered, Running, Step
  <1>11. CASE EndRound
    BY <1>11, FieldTypes
    DEF EndRound, redisVars, roundVars, clientVars, ConfirmInv, ConfirmFacts,
        ConfirmedOnly, BeforeSession, Unregistered, Running, Step
  <1>12. CASE FailRound
    BY <1>12, FieldTypes
    DEF FailRound, redisVars, roundVars, clientVars, ConfirmInv, ConfirmFacts,
        ConfirmedOnly, BeforeSession, Unregistered, Running, Step
  <1>. QED
    BY <1>1, <1>2, <1>3, <1>4, <1>5, <1>6, <1>7, <1>8, <1>9, <1>10, <1>11, <1>12
    DEF FinalStep

\* The handlers of the signatures keep what is known of the session.
LEMMA HandlersConfirmed ==
  ASSUME "session" \notin Faults, ConfirmInv, NEW i \in Intent, HandlerStep(i)
  PROVE ConfirmFacts'
  <1>1. CASE BindForfeits(i)
    BY <1>1, FieldTypes
    DEF BindForfeits, Go, Return, redisVars, roundVars, clientVars, ConfirmInv,
        ConfirmFacts, ConfirmedOnly, BeforeSession, Unregistered, Running, Step
  <1>2. CASE CommitForfeits(i)
    BY <1>2, FieldTypes
    DEF CommitForfeits, Go, Return, redisVars, roundVars, clientVars, ConfirmInv,
        ConfirmFacts, ConfirmedOnly, BeforeSession, Unregistered, Running, Step
  <1>3. CASE AddSignatures(i)
    BY <1>3, FieldTypes
    DEF AddSignatures, Go, redisVars, roundVars, clientVars, ConfirmInv, ConfirmFacts,
        ConfirmedOnly, BeforeSession, Unregistered, Running, Step
  <1>4. CASE GetSignatures(i)
    BY <1>4, FieldTypes
    DEF GetSignatures, redisVars, roundVars, clientVars, ConfirmInv, ConfirmFacts,
        ConfirmedOnly, BeforeSession, Unregistered, Running, Step
  <1>5. CASE GetBoardingInputs(i)
    BY <1>5, FieldTypes
    DEF GetBoardingInputs, Go, Return, redisVars, roundVars, clientVars, ConfirmInv,
        ConfirmFacts, ConfirmedOnly, BeforeSession, Unregistered, Running, Step
  <1>6. CASE AllSigned(i)
    BY <1>6, FieldTypes
    DEF AllSigned, Go, Return, MissingForfeits, redisVars, roundVars, clientVars,
        ConfirmInv, ConfirmFacts, ConfirmedOnly, BeforeSession, Unregistered, Running,
        Step
  <1>7. CASE SendSignal(i)
    BY <1>7, FieldTypes
    DEF SendSignal, Return, redisVars, roundVars, clientVars, ConfirmInv, ConfirmFacts,
        ConfirmedOnly, BeforeSession, Unregistered, Running, Step
  <1>. QED
    BY <1>1, <1>2, <1>3, <1>4, <1>5, <1>6, <1>7 DEF HandlerStep

\* The calls of the clients keep what is known of the session.
LEMMA ClientsConfirmed ==
  ASSUME "session" \notin Faults, ConfirmInv, NEW i \in Intent, ClientStep(i)
  PROVE ConfirmFacts'
  <1>1. CASE ConfirmRegistration(i)
    BY SMT, <1>1, FieldTypes
    DEF ConfirmRegistration, redisVars, roundVars, clientVars, ConfirmInv, ConfirmFacts,
        ConfirmedOnly, BeforeSession, Unregistered, Running, Step, NoSession, TypeOK,
        Session
  <1>2. CASE SubmitForfeitTxs(i)
    BY <1>2, FieldTypes
    DEF SubmitForfeitTxs, InTime, redisVars, roundVars, clientVars, ConfirmInv,
        ConfirmFacts, ConfirmedOnly, BeforeSession, Unregistered, Running, Step
  <1>3. CASE SignCommitmentTx(i)
    BY <1>3, FieldTypes
    DEF SignCommitmentTx, InTime, redisVars, roundVars, clientVars, ConfirmInv,
        ConfirmFacts, ConfirmedOnly, BeforeSession, Unregistered, Running, Step
  <1>. QED
    BY <1>1, <1>2, <1>3 DEF ClientStep

\* Every step keeps what is known of the session.
LEMMA ConfirmedStep ==
  ASSUME "session" \notin Faults, ConfirmInv, [Next]_vars
  PROVE ConfirmFacts'
  <1>1. CASE RoundStep
    BY <1>1, StartingConfirmed, ConfirmingConfirmed, FinalizingConfirmed
    DEF RoundStep, StartStep, ConfirmStep, FinalStep
  <1>2. ASSUME NEW i \in Intent, HandlerStep(i) PROVE ConfirmFacts'
    BY <1>2, HandlersConfirmed
  <1>3. ASSUME NEW i \in Intent, ClientStep(i) PROVE ConfirmFacts'
    BY <1>3, ClientsConfirmed
  <1>4. ASSUME NEW i \in Intent, SendOnClosed(i) PROVE ConfirmFacts'
    BY <1>4, FieldTypes
    DEF SendOnClosed, Restart, redisVars, roundVars, clientVars, ConfirmInv,
        ConfirmFacts, ConfirmedOnly, BeforeSession, Unregistered, Running, Step
  <1>5. CASE WatchSessionCompletion
    BY SMT, <1>5, FieldTypes
    DEF WatchSessionCompletion, redisVars, roundVars, clientVars, ConfirmInv,
        ConfirmFacts, ConfirmedOnly, BeforeSession, Unregistered, Running, Step,
        NoSession, TypeOK, Session
  <1>6. ASSUME NEW event \in announcing, PropagateEvents(event) PROVE ConfirmFacts'
    BY <1>6, FieldTypes
    DEF PropagateEvents, Hears, redisVars, roundVars, clientVars, ConfirmInv,
        ConfirmFacts, ConfirmedOnly, BeforeSession, Unregistered, Running, Step
  <1>7. CASE Crash
    BY <1>7, FieldTypes
    DEF Crash, Restart, redisVars, roundVars, clientVars, ConfirmInv, ConfirmFacts,
        ConfirmedOnly, BeforeSession, Unregistered, Running, Step
  <1>8. CASE UNCHANGED vars
    BY <1>8, FieldTypes
    DEF vars, redisVars, roundVars, clientVars, ConfirmInv, ConfirmFacts, ConfirmedOnly,
        BeforeSession, Unregistered, Running, Step
  <1>. QED BY <1>1, <1>2, <1>3, <1>4, <1>5, <1>6, <1>7, <1>8 DEF Next

\* The facts about the session hold at the start.
LEMMA ConfirmInit == Init => ConfirmInv
  BY TypeInit
  DEF Init, ConfirmInv, ConfirmFacts, ConfirmedOnly, BeforeSession, Unregistered, Running,
     NoSession

\* Only confirmed intents take part in a batch, for any number of intents and rounds, if
\* the confirmation session can always be written.
THEOREM AlwaysConfirmed == "session" \notin Faults => (Spec => []ConfirmedOnly)
  <1>. SUFFICES ASSUME "session" \notin Faults PROVE Spec => []ConfirmedOnly
    OBVIOUS
  <1>1. ConfirmInv /\ [Next]_vars => ConfirmInv'
    BY ConfirmedStep, TypedStep DEF ConfirmInv
  <1>2. ConfirmInv => ConfirmedOnly
    BY DEF ConfirmInv, ConfirmFacts
  <1>. QED BY ConfirmInit, <1>1, <1>2, PTL DEF Spec

-----------------------------------------------------------------------------
(* The forfeits of a batch.                                                *)

\* The steps at which the store of the forfeits belongs to the round.
WithForfeits == {"initialized", "built", "finalization", "waiting", "woken", "signed"}

\* The forfeits in the store are those of one batch, the one that runs from InitForfeits
\* to PopForfeits; those collected are complete.
CoverFacts ==
    /\ \A i \in Intent : forfeits.signed[i] \in {0, forfeits.batch}
    /\ \A i \in Intent : req[i].step \in {"bind", "commit"} => req[i].batch # 0
    /\ loop \in WithForfeits =>
        forfeits.batch = round /\ forfeits.need = registered \cap Forfeiter
    /\ loop = "signed" => MissingForfeits = {}
    /\ loop \in {"collected", "ready", "broadcast"} =>
        \A i \in registered \cap Forfeiter : collected[i] = round

CoverInv == TypeOK /\ CoverFacts

\* What a handler does to the requests.
LEMMA RequestEffects == ASSUME TypeOK, NEW i \in Intent
  PROVE /\ \A s \in RequestStep : Go(i, s) =>
             \A j \in Intent : /\ req'[j].step = IF j = i THEN s ELSE req[j].step
                               /\ req'[j].batch = req[j].batch /\ req'[j].tx = req[j].tx
                               /\ req'[j].count = req[j].count
        /\ Return(i) =>
             \A j \in Intent : /\ req'[j].step = IF j = i THEN "idle" ELSE req[j].step
                               /\ req'[j].batch = IF j = i THEN 0 ELSE req[j].batch
                               /\ req'[j].tx = IF j = i THEN 0 ELSE req[j].tx
                               /\ j # i => req'[j].count = req[j].count
  <1>1. ASSUME NEW s \in RequestStep, Go(i, s), NEW j \in Intent
        PROVE /\ req'[j].step = IF j = i THEN s ELSE req[j].step
              /\ req'[j].batch = req[j].batch /\ req'[j].tx = req[j].tx
              /\ req'[j].count = req[j].count
    BY SMT, <1>1 DEF Go, TypeOK, Request
  <1>2. ASSUME Return(i), NEW j \in Intent
        PROVE /\ req'[j].step = IF j = i THEN "idle" ELSE req[j].step
              /\ req'[j].batch = IF j = i THEN 0 ELSE req[j].batch
              /\ req'[j].tx = IF j = i THEN 0 ELSE req[j].tx
              /\ j # i => req'[j].count = req[j].count
    BY <1>2 DEF Return, TypeOK, NoRequest
  <1>. QED BY <1>1, <1>2

\* The steps of startRound keep what is known of the forfeits.
LEMMA StartingCovered == ASSUME CoverInv, StartStep PROVE CoverFacts'
  <1>1. CASE ResetForfeits
    BY SMT, <1>1, FieldTypes
    DEF ResetForfeits, redisVars, roundVars, clientVars, CoverInv, CoverFacts,
        MissingForfeits, WithForfeits, NoForfeits, Unsigned, TypeOK
  <1>2. CASE ResetSession
    BY <1>2, FieldTypes
    DEF ResetSession, redisVars, roundVars, clientVars, CoverInv, CoverFacts,
        MissingForfeits, WithForfeits
  <1>3. CASE DeleteSignatures
    BY <1>3, FieldTypes
    DEF DeleteSignatures, redisVars, roundVars, clientVars, CoverInv, CoverFacts,
        MissingForfeits, WithForfeits
  <1>4. CASE DenyRound
    BY <1>4, FieldTypes
    DEF DenyRound, redisVars, roundVars, clientVars, CoverInv, CoverFacts,
        MissingForfeits, WithForfeits
  <1>5. CASE NewRound
    BY <1>5, FieldTypes
    DEF NewRound, redisVars, roundVars, clientVars, CoverInv, CoverFacts,
        MissingForfeits, WithForfeits
  <1>6. CASE CloseChannel
    BY <1>6, FieldTypes
    DEF CloseChannel, redisVars, roundVars, clientVars, CoverInv, CoverFacts,
        MissingForfeits, WithForfeits
  <1>7. CASE MakeChannel
    BY <1>7, FieldTypes
    DEF MakeChannel, redisVars, roundVars, clientVars, CoverInv, CoverFacts,
        MissingForfeits, WithForfeits
  <1>8. CASE LoopStops
    BY <1>8, FieldTypes
    DEF LoopStops, redisVars, roundVars, clientVars, CoverInv, CoverFacts,
        MissingForfeits, WithForfeits
  <1>. QED
    BY <1>1, <1>2, <1>3, <1>4, <1>5, <1>6, <1>7, <1>8 DEF StartStep

\* The steps of startConfirmation keep what is known of the forfeits.
LEMMA ConfirmingCovered == ASSUME CoverInv, ConfirmStep PROVE CoverFacts'
  <1>1. CASE Abort
    BY <1>1, FieldTypes
    DEF Abort, redisVars, roundVars, clientVars, CoverInv, CoverFacts, MissingForfeits,
        WithForfeits
  <1>2. CASE SelectIntents
    BY <1>2, FieldTypes
    DEF SelectIntents, redisVars, roundVars, clientVars, CoverInv, CoverFacts,
        MissingForfeits, WithForfeits
  <1>3. CASE InitSession
    BY <1>3, FieldTypes
    DEF InitSession, redisVars, roundVars, clientVars, CoverInv, CoverFacts,
        MissingForfeits, WithForfeits
  <1>4. CASE ConfirmationTimeout
    BY <1>4, FieldTypes
    DEF ConfirmationTimeout, Confirmed, SessionConfirmed, redisVars, roundVars,
        clientVars, CoverInv, CoverFacts, MissingForfeits, WithForfeits
  <1>5. CASE ConfirmationCompleted
    BY <1>5, FieldTypes
    DEF ConfirmationCompleted, Confirmed, redisVars, roundVars, clientVars, CoverInv,
        CoverFacts, MissingForfeits, WithForfeits
  <1>6. CASE RegisterIntents
    BY <1>6, FieldTypes
    DEF RegisterIntents, redisVars, roundVars, clientVars, CoverInv, CoverFacts,
        MissingForfeits, WithForfeits
  <1>. QED
    BY <1>1, <1>2, <1>3, <1>4, <1>5, <1>6 DEF ConfirmStep

\* The steps of startFinalization and finalizeRound keep what is known of the forfeits.
LEMMA FinalizingCovered == ASSUME CoverInv, FinalStep PROVE CoverFacts'
  <1>1. CASE InitForfeits
    BY <1>1, FieldTypes
    DEF InitForfeits, redisVars, roundVars, clientVars, CoverInv, CoverFacts,
        MissingForfeits, WithForfeits, NoForfeits, Unsigned, TypeOK
  <1>2. CASE UpsertCommitmentTx
    BY <1>2, FieldTypes
    DEF UpsertCommitmentTx, redisVars, roundVars, clientVars, CoverInv, CoverFacts,
        MissingForfeits, WithForfeits
  <1>3. CASE StartFinalization
    BY <1>3, FieldTypes
    DEF StartFinalization, redisVars, roundVars, clientVars, CoverInv, CoverFacts,
        MissingForfeits, WithForfeits
  <1>4. CASE StartWaiting
    BY <1>4, FieldTypes
    DEF StartWaiting, redisVars, roundVars, clientVars, CoverInv, CoverFacts,
        MissingForfeits, WithForfeits
  <1>5. CASE WakeOnSignal
    BY <1>5, FieldTypes
    DEF WakeOnSignal, redisVars, roundVars, clientVars, CoverInv, CoverFacts,
        MissingForfeits, WithForfeits
  <1>6. CASE WakeOnTimeout
    BY <1>6, FieldTypes
    DEF WakeOnTimeout, redisVars, roundVars, clientVars, CoverInv, CoverFacts,
        MissingForfeits, WithForfeits
  <1>7. CASE CheckUnsigned
    BY <1>7, FieldTypes
    DEF CheckUnsigned, MissingForfeits, redisVars, roundVars, clientVars, CoverInv,
        CoverFacts, WithForfeits
  <1>8. CASE PopForfeits
    BY <1>8, FieldTypes
    DEF PopForfeits, redisVars, roundVars, clientVars, CoverInv, CoverFacts,
        MissingForfeits, WithForfeits, NoForfeits, Unsigned, TypeOK
  <1>9. CASE AttachSignatures
    BY <1>9, FieldTypes
    DEF AttachSignatures, redisVars, roundVars, clientVars, CoverInv, CoverFacts,
        MissingForfeits, WithForfeits
  <1>10. CASE Broadcast
    BY <1>10, FieldTypes
    DEF Broadcast, redisVars, roundVars, clientVars, CoverInv, CoverFacts,
        MissingForfeits, WithForfeits
  <1>11. CASE EndRound
    BY <1>11, FieldTypes
    DEF EndRound, redisVars, roundVars, clientVars, CoverInv, CoverFacts,
        MissingForfeits, WithForfeits
  <1>12. CASE FailRound
    BY <1>12, FieldTypes
    DEF FailRound, redisVars, roundVars, clientVars, CoverInv, CoverFacts,
        MissingForfeits, WithForfeits
  <1>. QED
    BY <1>1, <1>2, <1>3, <1>4, <1>5, <1>6, <1>7, <1>8, <1>9, <1>10, <1>11, <1>12
    DEF FinalStep

\* The handlers of the signatures keep what is known of the forfeits.
LEMMA HandlersCovered == ASSUME CoverInv, NEW i \in Intent, HandlerStep(i) PROVE CoverFacts'
  <1>1. CASE BindForfeits(i)
    <2>1. \A j \in Intent : req'[j].step \in {"bind", "commit"} => req'[j].batch # 0
      BY SMT, <1>1, RequestEffects DEF BindForfeits, CoverInv, CoverFacts, RequestStep
    <2>. QED BY <1>1, <2>1
         DEF BindForfeits, redisVars, roundVars, CoverInv, CoverFacts, MissingForfeits,
             WithForfeits
  <1>2. CASE CommitForfeits(i)
    <2>1. \A j \in Intent : req'[j].step \in {"bind", "commit"} => req'[j].batch # 0
      BY SMT, <1>2, RequestEffects DEF CommitForfeits, CoverInv, CoverFacts, RequestStep
    <2>2. req[i].batch # 0
      BY <1>2 DEF CommitForfeits, CoverInv, CoverFacts
    <2>3. CASE forfeits' = forfeits
      BY <1>2, <2>1, <2>3
      DEF CommitForfeits, roundVars, CoverInv, CoverFacts, MissingForfeits, WithForfeits
    <2>4. CASE /\ forfeits.batch = req[i].batch
               /\ forfeits' = [forfeits EXCEPT !.signed[i] = req[i].batch]
      <3>1. /\ forfeits'.batch = forfeits.batch /\ forfeits'.need = forfeits.need
            /\ \A j \in Intent : forfeits'.signed[j] = IF j = i THEN forfeits.batch ELSE forfeits.signed[j]
        BY <2>4, FieldTypes DEF CoverInv, TypeOK, Forfeits
      <3>. QED BY SMT, <1>2, <2>1, <2>2, <2>4, <3>1, FieldTypes, IntentsAssumption
           DEF CommitForfeits, roundVars, CoverInv, CoverFacts, MissingForfeits, WithForfeits
    <2>. QED BY <1>2, <2>3, <2>4 DEF CommitForfeits
  <1>3. CASE AddSignatures(i)
    BY SMT, <1>3, FieldTypes
    DEF AddSignatures, Go, redisVars, roundVars, clientVars, CoverInv, CoverFacts,
        MissingForfeits, WithForfeits, TypeOK
  <1>4. CASE GetSignatures(i)
    BY SMT, <1>4, FieldTypes
    DEF GetSignatures, redisVars, roundVars, clientVars, CoverInv, CoverFacts,
        MissingForfeits, WithForfeits, TypeOK
  <1>5. CASE GetBoardingInputs(i)
    <2>1. \A j \in Intent : req'[j].step \in {"bind", "commit"} => req'[j].batch # 0
      BY SMT, <1>5, RequestEffects DEF GetBoardingInputs, CoverInv, CoverFacts, RequestStep
    <2>. QED BY <1>5, <2>1
         DEF GetBoardingInputs, redisVars, roundVars, CoverInv, CoverFacts, MissingForfeits,
             WithForfeits
  <1>6. CASE AllSigned(i)
    <2>1. \A j \in Intent : req'[j].step \in {"bind", "commit"} => req'[j].batch # 0
      BY SMT, <1>6, RequestEffects DEF AllSigned, CoverInv, CoverFacts, RequestStep
    <2>. QED BY <1>6, <2>1
         DEF AllSigned, redisVars, roundVars, CoverInv, CoverFacts, MissingForfeits,
             WithForfeits
  <1>7. CASE SendSignal(i)
    <2>1. \A j \in Intent : req'[j].step \in {"bind", "commit"} => req'[j].batch # 0
      BY SMT, <1>7, RequestEffects DEF SendSignal, CoverInv, CoverFacts, RequestStep
    <2>. QED BY <1>7, <2>1
         DEF SendSignal, redisVars, roundVars, CoverInv, CoverFacts, MissingForfeits,
             WithForfeits
  <1>. QED
    BY <1>1, <1>2, <1>3, <1>4, <1>5, <1>6, <1>7 DEF HandlerStep

\* The calls of the clients keep what is known of the forfeits.
LEMMA ClientsCovered == ASSUME CoverInv, NEW i \in Intent, ClientStep(i) PROVE CoverFacts'
  <1>1. CASE ConfirmRegistration(i)
    BY <1>1, FieldTypes
    DEF ConfirmRegistration, redisVars, roundVars, clientVars, CoverInv, CoverFacts,
        MissingForfeits, WithForfeits, TypeOK
  <1>2. CASE SubmitForfeitTxs(i)
    BY <1>2, FieldTypes
    DEF SubmitForfeitTxs, InTime, redisVars, roundVars, clientVars, CoverInv,
        CoverFacts, MissingForfeits, WithForfeits, TypeOK
  <1>3. CASE SignCommitmentTx(i)
    BY <1>3, FieldTypes
    DEF SignCommitmentTx, InTime, redisVars, roundVars, clientVars, CoverInv,
        CoverFacts, MissingForfeits, WithForfeits, TypeOK, NoRequest
  <1>. QED
    BY <1>1, <1>2, <1>3 DEF ClientStep

\* Every step keeps what is known of the forfeits.
LEMMA CoveredStep == ASSUME CoverInv, [Next]_vars PROVE CoverFacts'
  <1>1. CASE RoundStep
    BY <1>1, StartingCovered, ConfirmingCovered, FinalizingCovered
    DEF RoundStep, StartStep, ConfirmStep, FinalStep
  <1>2. ASSUME NEW i \in Intent, HandlerStep(i) PROVE CoverFacts'
    BY <1>2, HandlersCovered
  <1>3. ASSUME NEW i \in Intent, ClientStep(i) PROVE CoverFacts'
    BY <1>3, ClientsCovered
  <1>4. ASSUME NEW i \in Intent, SendOnClosed(i) PROVE CoverFacts'
    BY <1>4, FieldTypes
    DEF SendOnClosed, Restart, redisVars, roundVars, clientVars, CoverInv, CoverFacts,
        MissingForfeits, WithForfeits, NoRequest
  <1>5. CASE WatchSessionCompletion
    BY <1>5, FieldTypes
    DEF WatchSessionCompletion, redisVars, roundVars, clientVars, CoverInv, CoverFacts,
        MissingForfeits, WithForfeits
  <1>6. ASSUME NEW event \in announcing, PropagateEvents(event) PROVE CoverFacts'
    BY <1>6, FieldTypes
    DEF PropagateEvents, Hears, redisVars, roundVars, clientVars, CoverInv, CoverFacts,
        MissingForfeits, WithForfeits
  <1>7. CASE Crash
    BY <1>7, FieldTypes
    DEF Crash, Restart, redisVars, roundVars, clientVars, CoverInv, CoverFacts,
        MissingForfeits, WithForfeits, NoRequest
  <1>8. CASE UNCHANGED vars
    BY <1>8, FieldTypes
    DEF vars, redisVars, roundVars, clientVars, CoverInv, CoverFacts, MissingForfeits,
        WithForfeits
  <1>. QED BY <1>1, <1>2, <1>3, <1>4, <1>5, <1>6, <1>7, <1>8 DEF Next

\* The facts about the forfeits hold at the start.
LEMMA CoverInit == Init => CoverInv
  BY SMT, TypeInit
  DEF Init, CoverInv, CoverFacts, MissingForfeits, WithForfeits, NoForfeits, Unsigned,
     NoRequest

\* A broadcast batch has a forfeit, made for it, of every vtxo that needs one, for any
\* number of intents and rounds and whatever fails.
THEOREM BroadcastAlwaysCovered == Spec => []BroadcastCovered
  <1>1. CoverInv /\ [Next]_vars => CoverInv'
    BY CoveredStep, TypedStep DEF CoverInv
  <1>2. CoverInv => BroadcastCovered
    BY DEF CoverInv, CoverFacts, BroadcastCovered
  <1>. QED BY CoverInit, <1>1, <1>2, PTL DEF Spec

-----------------------------------------------------------------------------
(* Convictions.                                                            *)

\* The number of the round is a natural number.
LEMMA RoundNatural == TypeOK => round \in Nat /\ 0 <= round
  BY SMT, BoundsAssumption DEF TypeOK, RoundOrNone

\* The steps of a round before its clients are told of it.
Untold == {"upserted", "closed", "registration", "popped", "confirming", "confirmed",
           "registered", "initialized", "built"}

\* A client can only have been told of this round, or an earlier one.
Past(k) == k <= round /\ (loop \in Untold => k # round)

\* A forfeit accepted for the batch that runs is in the store.
ServedFacts ==
    /\ \A event \in announcing : Past(event.id)
    /\ \A i \in Intent : Past(told[i]) \/ told[i] = 0
    /\ \A i \in Intent : Past(req[i].batch) \/ req[i].batch = 0
    /\ \A c \in served : Past(c[1]) /\ c[1] # 0
    /\ loop \in WithForfeits =>
        \A i \in Intent : <<round, i>> \in served => forfeits.signed[i] = round

ServedInv == CoverInv /\ ServedFacts

\* A step that tells nobody and accepts nothing keeps what is known of the accepted forfeits.
LEMMA ServedKept ==
  ASSUME ServedFacts, UNCHANGED <<round, announcing, told, served, forfeits>>,
         \A i \in Intent : req'[i].batch \in {0, req[i].batch},
         loop' \in Untold => loop \in Untold, loop' \in WithForfeits => loop \in WithForfeits
  PROVE  ServedFacts'
  BY DEF ServedFacts, Past

\* The steps of startRound keep what is known of the accepted forfeits.
LEMMA StartingServed == ASSUME ServedInv, StartStep PROVE ServedFacts'
  <1>1. CASE ResetForfeits
    BY <1>1, FieldTypes
    DEF ResetForfeits, redisVars, roundVars, clientVars, ServedInv, ServedFacts,
        CoverInv, Past, WithForfeits, Untold
  <1>2. CASE ResetSession
    BY <1>2, FieldTypes
    DEF ResetSession, redisVars, roundVars, clientVars, ServedInv, ServedFacts,
        CoverInv, Past, WithForfeits, Untold
  <1>3. CASE DeleteSignatures
    BY <1>3, FieldTypes
    DEF DeleteSignatures, redisVars, roundVars, clientVars, ServedInv, ServedFacts,
        CoverInv, Past, WithForfeits, Untold
  <1>4. CASE DenyRound
    BY <1>4, FieldTypes
    DEF DenyRound, redisVars, roundVars, clientVars, ServedInv, ServedFacts, CoverInv,
        Past, WithForfeits, Untold
  <1>5. CASE NewRound
    BY SMT, <1>5, FieldTypes
    DEF NewRound, redisVars, roundVars, clientVars, ServedInv, ServedFacts, CoverInv,
        Past, WithForfeits, Untold, TypeOK, RoundOrNone, Event
  <1>6. CASE CloseChannel
    BY <1>6, FieldTypes
    DEF CloseChannel, redisVars, roundVars, clientVars, ServedInv, ServedFacts,
        CoverInv, Past, WithForfeits, Untold
  <1>7. CASE MakeChannel
    BY <1>7, FieldTypes
    DEF MakeChannel, redisVars, roundVars, clientVars, ServedInv, ServedFacts, CoverInv,
        Past, WithForfeits, Untold
  <1>8. CASE LoopStops
    BY <1>8, FieldTypes
    DEF LoopStops, redisVars, roundVars, clientVars, ServedInv, ServedFacts, CoverInv,
        Past, WithForfeits, Untold
  <1>. QED
    BY <1>1, <1>2, <1>3, <1>4, <1>5, <1>6, <1>7, <1>8 DEF StartStep

\* The steps of startConfirmation keep what is known of the accepted forfeits.
LEMMA ConfirmingServed == ASSUME ServedInv, ConfirmStep PROVE ServedFacts'
  <1>1. CASE Abort
    BY <1>1, FieldTypes
    DEF Abort, redisVars, roundVars, clientVars, ServedInv, ServedFacts, CoverInv, Past,
        WithForfeits, Untold
  <1>2. CASE SelectIntents
    BY <1>2, FieldTypes
    DEF SelectIntents, redisVars, roundVars, clientVars, ServedInv, ServedFacts,
        CoverInv, Past, WithForfeits, Untold
  <1>3. CASE InitSession
    BY <1>3, FieldTypes
    DEF InitSession, redisVars, roundVars, clientVars, ServedInv, ServedFacts, CoverInv,
        Past, WithForfeits, Untold
  <1>4. CASE ConfirmationTimeout
    BY <1>4, FieldTypes
    DEF ConfirmationTimeout, Confirmed, SessionConfirmed, redisVars, roundVars,
        clientVars, ServedInv, ServedFacts, CoverInv, Past, WithForfeits, Untold
  <1>5. CASE ConfirmationCompleted
    BY <1>5, FieldTypes
    DEF ConfirmationCompleted, Confirmed, redisVars, roundVars, clientVars, ServedInv,
        ServedFacts, CoverInv, Past, WithForfeits, Untold
  <1>6. CASE RegisterIntents
    BY <1>6, ServedKept
    DEF RegisterIntents, roundVars, clientVars, ServedInv, WithForfeits, Untold
  <1>. QED
    BY <1>1, <1>2, <1>3, <1>4, <1>5, <1>6 DEF ConfirmStep

\* The steps of startFinalization and finalizeRound keep what is known of the accepted forfeits.
LEMMA FinalizingServed == ASSUME ServedInv, FinalStep PROVE ServedFacts'
  <1>1. CASE InitForfeits
    <2>1. \A c \in served : c[1] # round
      BY <1>1 DEF InitForfeits, ServedInv, ServedFacts, Past, Untold
    <2>. QED BY <1>1, <2>1
         DEF InitForfeits, roundVars, clientVars, ServedInv, ServedFacts, Past, WithForfeits, Untold
  <1>2. CASE UpsertCommitmentTx
    BY <1>2, FieldTypes
    DEF UpsertCommitmentTx, redisVars, roundVars, clientVars, ServedInv, ServedFacts,
        CoverInv, Past, WithForfeits, Untold
  <1>3. CASE StartFinalization
    <2>1. /\ loop' \notin Untold
          /\ loop' \in WithForfeits => loop \in WithForfeits
          /\ announcing' \subseteq announcing \cup {[id |-> round, intents |-> registered]}
          /\ UNCHANGED <<round, told, served, forfeits, req>>
      BY <1>3 DEF StartFinalization, redisVars, roundVars, clientVars, WithForfeits, Untold
    <2>2. round <= round
      BY RoundNatural, SMT DEF ServedInv, CoverInv
    <2>3. \A event \in announcing' : event.id = round \/ event \in announcing
      BY SMT, <2>1
    <2>4. \A event \in announcing' : Past(event.id)'
      BY <2>1, <2>2, <2>3 DEF ServedInv, ServedFacts, Past
    <2>. QED BY <2>1, <2>4 DEF ServedInv, ServedFacts, Past
  <1>4. CASE StartWaiting
    BY <1>4, FieldTypes
    DEF StartWaiting, redisVars, roundVars, clientVars, ServedInv, ServedFacts,
        CoverInv, Past, WithForfeits, Untold
  <1>5. CASE WakeOnSignal
    BY <1>5, FieldTypes
    DEF WakeOnSignal, redisVars, roundVars, clientVars, ServedInv, ServedFacts,
        CoverInv, Past, WithForfeits, Untold
  <1>6. CASE WakeOnTimeout
    BY <1>6, FieldTypes
    DEF WakeOnTimeout, redisVars, roundVars, clientVars, ServedInv, ServedFacts,
        CoverInv, Past, WithForfeits, Untold
  <1>7. CASE CheckUnsigned
    BY <1>7, FieldTypes
    DEF CheckUnsigned, MissingForfeits, redisVars, roundVars, clientVars, ServedInv,
        ServedFacts, CoverInv, Past, WithForfeits, Untold
  <1>8. CASE PopForfeits
    BY <1>8, FieldTypes
    DEF PopForfeits, redisVars, roundVars, clientVars, ServedInv, ServedFacts, CoverInv,
        Past, WithForfeits, Untold
  <1>9. CASE AttachSignatures
    BY <1>9, FieldTypes
    DEF AttachSignatures, redisVars, roundVars, clientVars, ServedInv, ServedFacts,
        CoverInv, Past, WithForfeits, Untold
  <1>10. CASE Broadcast
    BY <1>10, FieldTypes
    DEF Broadcast, redisVars, roundVars, clientVars, ServedInv, ServedFacts, CoverInv,
        Past, WithForfeits, Untold
  <1>11. CASE EndRound
    BY <1>11, FieldTypes
    DEF EndRound, redisVars, roundVars, clientVars, ServedInv, ServedFacts, CoverInv,
        Past, WithForfeits, Untold
  <1>12. CASE FailRound
    BY <1>12, FieldTypes
    DEF FailRound, redisVars, roundVars, clientVars, ServedInv, ServedFacts, CoverInv,
        Past, WithForfeits, Untold
  <1>. QED
    BY <1>1, <1>2, <1>3, <1>4, <1>5, <1>6, <1>7, <1>8, <1>9, <1>10, <1>11, <1>12
    DEF FinalStep

\* The handlers of the signatures keep what is known of the accepted forfeits.
LEMMA HandlersServed == ASSUME ServedInv, NEW i \in Intent, HandlerStep(i) PROVE ServedFacts'
  <1>1. CASE BindForfeits(i)
    <2>1. \A j \in Intent : req'[j].batch \in {0, req[j].batch}
      BY <1>1, RequestEffects DEF BindForfeits, ServedInv, CoverInv, RequestStep
    <2>. QED BY <1>1, <2>1
         DEF BindForfeits, redisVars, roundVars, clientVars, ServedInv, ServedFacts, Past,
             WithForfeits, Untold
  <1>2. CASE CommitForfeits(i)
    <2>1. \A j \in Intent : req'[j].batch \in {0, req[j].batch}
      BY <1>2, RequestEffects DEF CommitForfeits, ServedInv, CoverInv, RequestStep
    <2>2. req[i].batch # 0
      BY <1>2 DEF CommitForfeits, ServedInv, CoverInv, CoverFacts
    <2>3. CASE forfeits' = forfeits /\ served' = served
      BY <1>2, <2>1, <2>3
      DEF CommitForfeits, roundVars, ServedInv, ServedFacts, Past, WithForfeits, Untold
    <2>4. CASE /\ forfeits.batch = req[i].batch
               /\ forfeits' = [forfeits EXCEPT !.signed[i] = req[i].batch]
               /\ served' = served \cup {<<req[i].batch, i>>}
      <3>1. \A j \in Intent :
              forfeits'.signed[j] = IF j = i THEN req[i].batch ELSE forfeits.signed[j]
        BY <2>4, FieldTypes DEF ServedInv, CoverInv, TypeOK, Forfeits
      <3>2. loop' = loop /\ round' = round /\ announcing' = announcing /\ told' = told
        BY <1>2 DEF CommitForfeits, roundVars
      <3>3. Past(req[i].batch)
        BY <2>2 DEF ServedInv, ServedFacts
      <3>4. \A c \in served' : Past(c[1])' /\ c[1] # 0
        BY SMT, <2>2, <2>4, <3>2, <3>3 DEF ServedInv, ServedFacts, Past
      <3>5. loop \in WithForfeits => \A j \in Intent : <<round, j>> \in served' => forfeits'.signed[j] = round
        BY <2>4, <3>1 DEF ServedInv, ServedFacts, CoverInv, CoverFacts
      <3>. QED BY <2>1, <3>2, <3>4, <3>5 DEF ServedInv, ServedFacts, Past
    <2>. QED BY <1>2, <2>3, <2>4 DEF CommitForfeits
  <1>3. CASE AddSignatures(i)
    <2>1. \A j \in Intent : req'[j].batch \in {0, req[j].batch}
      BY <1>3, RequestEffects DEF AddSignatures, ServedInv, CoverInv, RequestStep
    <2>. QED BY <1>3, <2>1
         DEF AddSignatures, roundVars, clientVars, ServedInv, ServedFacts, Past,
             WithForfeits, Untold
  <1>4. CASE GetSignatures(i)
    BY SMT, <1>4, FieldTypes
    DEF GetSignatures, redisVars, roundVars, clientVars, ServedInv, ServedFacts,
        CoverInv, Past, WithForfeits, Untold, TypeOK, Request
  <1>5. CASE GetBoardingInputs(i)
    <2>1. \A j \in Intent : req'[j].batch \in {0, req[j].batch}
      BY SMT, <1>5, RequestEffects DEF GetBoardingInputs, ServedInv, CoverInv, RequestStep
    <2>. QED BY <1>5, <2>1
         DEF GetBoardingInputs, redisVars, roundVars, clientVars, ServedInv, ServedFacts,
             Past, WithForfeits, Untold
  <1>6. CASE AllSigned(i)
    <2>1. \A j \in Intent : req'[j].batch \in {0, req[j].batch}
      BY <1>6, RequestEffects DEF AllSigned, ServedInv, CoverInv, RequestStep
    <2>. QED BY <1>6, <2>1
         DEF AllSigned, redisVars, roundVars, clientVars, ServedInv, ServedFacts, Past,
             WithForfeits, Untold
  <1>7. CASE SendSignal(i)
    <2>1. \A j \in Intent : req'[j].batch \in {0, req[j].batch}
      BY SMT, <1>7, RequestEffects DEF SendSignal, ServedInv, CoverInv, RequestStep
    <2>. QED BY <1>7, <2>1
         DEF SendSignal, redisVars, roundVars, clientVars, ServedInv, ServedFacts, Past,
             WithForfeits, Untold
  <1>. QED
    BY <1>1, <1>2, <1>3, <1>4, <1>5, <1>6, <1>7 DEF HandlerStep

\* The calls of the clients keep what is known of the accepted forfeits.
LEMMA ClientsServed == ASSUME ServedInv, NEW i \in Intent, ClientStep(i) PROVE ServedFacts'
  <1>1. CASE ConfirmRegistration(i)
    BY <1>1, FieldTypes
    DEF ConfirmRegistration, redisVars, roundVars, clientVars, ServedInv, ServedFacts,
        CoverInv, Past, WithForfeits, Untold
  <1>2. CASE SubmitForfeitTxs(i)
    BY <1>2, FieldTypes
    DEF SubmitForfeitTxs, InTime, redisVars, roundVars, clientVars, ServedInv,
        ServedFacts, CoverInv, Past, WithForfeits, Untold, TypeOK
  <1>3. CASE SignCommitmentTx(i)
    BY SMT, <1>3, FieldTypes
    DEF SignCommitmentTx, InTime, redisVars, roundVars, clientVars, ServedInv,
        ServedFacts, CoverInv, Past, WithForfeits, Untold, TypeOK, NoRequest
  <1>. QED
    BY <1>1, <1>2, <1>3 DEF ClientStep

\* A restart, after a crash or a send on a closed channel, keeps what is known of the
\* accepted forfeits.
LEMMA RestartServed == ASSUME ServedInv, Restart PROVE ServedFacts'
  <1>1. /\ loop' = "start" /\ announcing' = {}
        /\ UNCHANGED <<round, told, served>>
        /\ \A i \in Intent : req'[i].batch = 0
    BY DEF Restart, clientVars, NoRequest
  <1>. QED BY <1>1 DEF ServedInv, ServedFacts, Past, Untold, WithForfeits

\* Every step keeps what is known of the accepted forfeits.
LEMMA ServedStep == ASSUME ServedInv, [Next]_vars PROVE ServedFacts'
  <1>1. CASE RoundStep
    BY <1>1, StartingServed, ConfirmingServed, FinalizingServed
    DEF RoundStep, StartStep, ConfirmStep, FinalStep
  <1>2. ASSUME NEW i \in Intent, HandlerStep(i) PROVE ServedFacts'
    BY <1>2, HandlersServed
  <1>3. ASSUME NEW i \in Intent, ClientStep(i) PROVE ServedFacts'
    BY <1>3, ClientsServed
  <1>4. ASSUME NEW i \in Intent, SendOnClosed(i) PROVE ServedFacts'
    BY <1>4, RestartServed DEF SendOnClosed
  <1>5. CASE WatchSessionCompletion
    BY <1>5, FieldTypes
    DEF WatchSessionCompletion, redisVars, roundVars, clientVars, ServedInv,
        ServedFacts, CoverInv, Past, WithForfeits, Untold
  <1>6. ASSUME NEW event \in announcing, PropagateEvents(event) PROVE ServedFacts'
    BY <1>6, FieldTypes
    DEF PropagateEvents, Hears, redisVars, roundVars, clientVars, ServedInv,
        ServedFacts, CoverInv, Past, WithForfeits, Untold, TypeOK
  <1>7. CASE Crash
    BY <1>7, RestartServed DEF Crash
  <1>8. CASE UNCHANGED vars
    BY <1>8, FieldTypes
    DEF vars, redisVars, roundVars, clientVars, ServedInv, ServedFacts, CoverInv, Past,
        WithForfeits, Untold
  <1>. QED BY <1>1, <1>2, <1>3, <1>4, <1>5, <1>6, <1>7, <1>8 DEF Next

\* The facts about accepted forfeits hold at the start.
LEMMA ServedInit == Init => ServedInv
  <1>. SUFFICES ASSUME Init PROVE ServedFacts
    BY CoverInit DEF ServedInv
  <1>1. /\ loop = "start" /\ announcing = {} /\ served = {}
        /\ \A i \in Intent : told[i] = 0 /\ req[i].batch = 0
    BY DEF Init, NoRequest
  <1>. QED BY <1>1 DEF ServedFacts, WithForfeits

\* Only CheckUnsigned convicts, and only those whose forfeit is not in the store.
LEMMA ConvictedMissing == ASSUME TypeOK, [Next]_vars
  PROVE convicted' = convicted \/ CheckUnsigned
  BY ZenonT(60)
  DEF Next, RoundStep, HandlerStep, ClientStep, vars, clientVars, ResetForfeits,
      ResetSession,
     DeleteSignatures, DenyRound, NewRound, CloseChannel, MakeChannel, LoopStops, Abort, SelectIntents,
     InitSession, ConfirmationTimeout, ConfirmationCompleted, RegisterIntents, InitForfeits,
     UpsertCommitmentTx, StartFinalization, StartWaiting, WakeOnSignal, WakeOnTimeout, PopForfeits,
     AttachSignatures, Broadcast, EndRound, FailRound, BindForfeits, CommitForfeits, AddSignatures,
     GetSignatures, GetBoardingInputs, AllSigned, SendSignal, ConfirmRegistration, SubmitForfeitTxs,
     SignCommitmentTx, SendOnClosed, WatchSessionCompletion, PropagateEvents, Crash, Restart

\* A client is never convicted for a forfeit that the server accepted for that batch,
\* for any number of intents and rounds and whatever fails.
THEOREM NeverConvictedWhenServed == Spec => ServedNotConvicted
  <1>1. ServedInv /\ [Next]_vars => ServedInv'
    BY ServedStep, CoveredStep, TypedStep DEF ServedInv, CoverInv
  <1>2. ServedInv /\ [Next]_vars => [\A c \in convicted' \ convicted : c \notin served]_vars
    <2>. SUFFICES ASSUME ServedInv, [Next]_vars, NEW c \in convicted' \ convicted, c \in served
                  PROVE FALSE
      OBVIOUS
    <2>1. CheckUnsigned /\ c \in {<<round, i>> : i \in MissingForfeits}
      BY ConvictedMissing DEF ServedInv, CoverInv, CheckUnsigned
    <2>2. PICK i \in MissingForfeits : c = <<round, i>>
      BY <2>1
    <2>3. i \in Intent /\ forfeits.signed[i] = 0
      BY <2>2, FieldTypes, IntentsAssumption DEF MissingForfeits, ServedInv, CoverInv
    <2>4. round # 0
      BY <2>2 DEF ServedInv, ServedFacts
    <2>. QED BY <2>1, <2>2, <2>3, <2>4 DEF CheckUnsigned, ServedInv, ServedFacts, WithForfeits
  <1>. QED BY ServedInit, <1>1, <1>2, PTL DEF Spec, ServedNotConvicted

-----------------------------------------------------------------------------
(* The signal.                                                             *)

\* The steps in which the signatures of a round are awaited, those in which a handler
\* that ends in time may still run, and those before a signal can be sent.
Awaiting == {"finalization", "waiting", "woken"}
Unserved == Step \ {"finalization", "waiting", "woken", "signed", "collected", "ready",
                    "broadcast", "start", "stopped"}
Silent == {"registration", "popped", "confirming", "confirmed", "registered", "initialized", "built"}

BoardingSent == registered \cap Boarder \subseteq boardingSigs[round]

\* What a request of the round has seen holds of the round.
RequestFacts(i) ==
    /\ req[i].tx = round
    /\ req[i].step = "sign" => i \in registered \cap Boarder
    /\ req[i].step = "counted" /\ req[i].count = numBoarding => BoardingSent
    /\ req[i].step = "matched" => BoardingSent
    /\ req[i].step = "send" => AllSent

\* The facts that hold of the round while its signatures are awaited.
AwaitFacts ==
    /\ \A event \in announcing : event.id = round => event.intents = registered
    /\ \A i \in Intent : told[i] = round => i \in registered
    /\ boardingSigs[round] \subseteq registered \cap Boarder
    /\ \A i \in Intent : req[i].step # "idle" => RequestFacts(i)
    /\ signal => AllSent

\* If handlers end in time, nothing of an earlier round reaches this one.
TimelyFacts ==
    /\ loop \in Unserved => Quiet
    /\ loop \in Silent => ~signal
    /\ loop \in {"registered", "initialized", "built"} \cup Awaiting =>
        numBoarding = Cardinality(registered \cap Boarder)
    /\ loop \in {"built"} \cup Awaiting => current = [id |-> round, built |-> TRUE]
    /\ loop \in Untold => round # 0
    /\ current.id <= round
    /\ \A i \in Intent : req[i].tx <= round
    /\ \A t \in RoundOrNone : boardingSigs[t] # {} => Past(t)
    /\ loop \in Awaiting => AwaitFacts
    /\ WokenMeansAll

TimelyInv == ServedInv /\ TimelyFacts

\* The steps of startRound keep what is known of the signal.
LEMMA StartingTimely == ASSUME "late" \notin Faults, TimelyInv, StartStep PROVE TimelyFacts'
  <1>1. CASE ResetForfeits
    BY <1>1
    DEF ResetForfeits, redisVars, roundVars, clientVars, TimelyInv, TimelyFacts, Past,
        WokenMeansAll, WithForfeits, Untold, Awaiting, Unserved, Silent, Step,
        AwaitFacts, RequestFacts, BoardingSent, AllSent, MissingForfeits, Quiet
  <1>2. CASE ResetSession
    BY <1>2
    DEF ResetSession, redisVars, roundVars, clientVars, TimelyInv, TimelyFacts, Past,
        WokenMeansAll, WithForfeits, Untold, Awaiting, Unserved, Silent, Step,
        AwaitFacts, RequestFacts, BoardingSent, AllSent, MissingForfeits, Quiet
  <1>3. CASE DeleteSignatures
    BY <1>3, FieldTypes, ZenonT(60)
    DEF DeleteSignatures, redisVars, roundVars, clientVars, TimelyInv, TimelyFacts,
        Past, WokenMeansAll, WithForfeits, Untold, Awaiting, Unserved, Silent, Step,
        ServedInv, CoverInv, TypeOK, RoundOrNone, Quiet
  <1>4. CASE DenyRound
    BY <1>4
    DEF DenyRound, redisVars, roundVars, clientVars, TimelyInv, TimelyFacts, Past,
        WokenMeansAll, WithForfeits, Untold, Awaiting, Unserved, Silent, Step,
        AwaitFacts, RequestFacts, BoardingSent, AllSent, MissingForfeits, Quiet
  <1>5. CASE NewRound
    BY SMT, <1>5, FieldTypes, BoundsAssumption
    DEF NewRound, redisVars, roundVars, clientVars, TimelyInv, TimelyFacts, Past,
        WokenMeansAll, WithForfeits, Untold, Awaiting, Unserved, Silent, Step,
        ServedInv, CoverInv, TypeOK, RoundOrNone, Quiet
  <1>6. CASE CloseChannel
    BY <1>6
    DEF CloseChannel, redisVars, roundVars, clientVars, TimelyInv, TimelyFacts, Past,
        WokenMeansAll, WithForfeits, Untold, Awaiting, Unserved, Silent, Step,
        AwaitFacts, RequestFacts, BoardingSent, AllSent, MissingForfeits, Quiet
  <1>7. CASE MakeChannel
    BY <1>7
    DEF MakeChannel, redisVars, roundVars, clientVars, TimelyInv, TimelyFacts, Past,
        WokenMeansAll, WithForfeits, Untold, Awaiting, Unserved, Silent, Step,
        AwaitFacts, RequestFacts, BoardingSent, AllSent, MissingForfeits, Quiet
  <1>8. CASE LoopStops
    BY <1>8
    DEF LoopStops, redisVars, roundVars, clientVars, TimelyInv, TimelyFacts, Past,
        WokenMeansAll, WithForfeits, Untold, Awaiting, Unserved, Silent, Step,
        AwaitFacts, RequestFacts, BoardingSent, AllSent, MissingForfeits, Quiet
  <1>. QED
    BY <1>1, <1>2, <1>3, <1>4, <1>5, <1>6, <1>7, <1>8 DEF StartStep

\* The steps of startConfirmation keep what is known of the signal.
LEMMA ConfirmingTimely == ASSUME "late" \notin Faults, TimelyInv, ConfirmStep PROVE TimelyFacts'
  <1>1. CASE Abort
    BY <1>1
    DEF Abort, redisVars, roundVars, clientVars, TimelyInv, TimelyFacts, Past,
        WokenMeansAll, WithForfeits, Untold, Awaiting, Unserved, Silent, Step,
        AwaitFacts, RequestFacts, BoardingSent, AllSent, MissingForfeits, Quiet
  <1>2. CASE SelectIntents
    BY <1>2
    DEF SelectIntents, redisVars, roundVars, clientVars, TimelyInv, TimelyFacts, Past,
        WokenMeansAll, WithForfeits, Untold, Awaiting, Unserved, Silent, Step,
        AwaitFacts, RequestFacts, BoardingSent, AllSent, MissingForfeits, Quiet
  <1>3. CASE InitSession
    BY <1>3
    DEF InitSession, redisVars, roundVars, clientVars, TimelyInv, TimelyFacts, Past,
        WokenMeansAll, WithForfeits, Untold, Awaiting, Unserved, Silent, Step,
        AwaitFacts, RequestFacts, BoardingSent, AllSent, MissingForfeits, Quiet
  <1>4. CASE ConfirmationTimeout
    BY <1>4
    DEF ConfirmationTimeout, Confirmed, SessionConfirmed, redisVars, roundVars,
        clientVars, TimelyInv, TimelyFacts, Past, WokenMeansAll, WithForfeits, Untold,
        Awaiting, Unserved, Silent, Step, AwaitFacts, RequestFacts, BoardingSent,
        AllSent, MissingForfeits, Quiet
  <1>5. CASE ConfirmationCompleted
    BY <1>5
    DEF ConfirmationCompleted, Confirmed, redisVars, roundVars, clientVars, TimelyInv,
        TimelyFacts, Past, WokenMeansAll, WithForfeits, Untold, Awaiting, Unserved,
        Silent, Step, AwaitFacts, RequestFacts, BoardingSent, AllSent, MissingForfeits,
        Quiet
  <1>6. CASE RegisterIntents
    BY <1>6
    DEF RegisterIntents, redisVars, roundVars, clientVars, TimelyInv, TimelyFacts, Past,
        WokenMeansAll, WithForfeits, Untold, Awaiting, Unserved, Silent, Step,
        AwaitFacts, RequestFacts, BoardingSent, AllSent, MissingForfeits, Quiet
  <1>. QED
    BY <1>1, <1>2, <1>3, <1>4, <1>5, <1>6 DEF ConfirmStep

\* The steps of startFinalization and finalizeRound keep what is known of the signal.
LEMMA FinalizingTimely == ASSUME "late" \notin Faults, TimelyInv, FinalStep PROVE TimelyFacts'
  <1>1. CASE InitForfeits
    BY <1>1
    DEF InitForfeits, redisVars, roundVars, clientVars, TimelyInv, TimelyFacts, Past,
        WokenMeansAll, WithForfeits, Untold, Awaiting, Unserved, Silent, Step,
        AwaitFacts, RequestFacts, BoardingSent, AllSent, MissingForfeits, Quiet
  <1>2. CASE UpsertCommitmentTx
    <2>1. /\ loop = "initialized" /\ loop' = "built"
          /\ current' = [id |-> round, built |-> TRUE]
          /\ UNCHANGED <<numBoarding, boardingSigs, round, registered, signal, req>>
      BY <1>2 DEF UpsertCommitmentTx, roundVars
    <2>2. Quiet /\ ~signal /\ round # 0 /\ numBoarding = Cardinality(registered \cap Boarder)
      BY <2>1 DEF TimelyInv, TimelyFacts, Unserved, Silent, Untold, Step
    <2>3. \A t \in RoundOrNone : Past(t) => Past(t)'
      BY <2>1 DEF Past, Untold
    <2>4. current'.id <= round'
      BY SMT, <2>1, RoundNatural DEF TimelyInv, ServedInv, CoverInv
    <2>. QED BY <2>1, <2>2, <2>3, <2>4
         DEF TimelyInv, TimelyFacts, Awaiting, Untold, WokenMeansAll, Quiet
  <1>3. CASE StartFinalization
    <2>1. Quiet /\ ~signal /\ loop = "built" /\ loop' = "finalization"
      BY <1>3 DEF StartFinalization, TimelyInv, TimelyFacts, Unserved, Silent, Step
    <2>2. /\ \A event \in announcing : event.id # round
          /\ \A i \in Intent : told[i] # round
          /\ boardingSigs[round] = {}
      <3>1. loop \in Untold /\ round \in RoundOrNone /\ ~Past(round)
        BY <2>1 DEF TimelyInv, ServedInv, CoverInv, TypeOK, Past, Untold
      <3>2. round # 0
        BY <3>1 DEF TimelyInv, TimelyFacts
      <3>. QED BY <3>1, <3>2 DEF TimelyInv, TimelyFacts, ServedInv, ServedFacts
    <2>3. AwaitFacts'
      <3>1. /\ \A event \in announcing' :
                  event \in announcing \/ event = [id |-> round, intents |-> registered]
            /\ UNCHANGED <<round, registered, boardingSigs, signal, req, told>>
        BY <1>3 DEF StartFinalization, redisVars, roundVars, clientVars
      <3>2. \A event \in announcing' : event.id = round => event.intents = registered
        BY <2>2, <3>1
      <3>. QED BY <2>1, <2>2, <3>1, <3>2 DEF AwaitFacts, Quiet
    <2>. QED BY <1>3, <2>1, <2>2, <2>3
         DEF StartFinalization, redisVars, roundVars, clientVars, TimelyInv, TimelyFacts, Past, WokenMeansAll,
             Unserved, Silent, Awaiting, Untold
  <1>4. CASE StartWaiting
    BY <1>4, ZenonT(60)
    DEF StartWaiting, redisVars, roundVars, clientVars, TimelyInv, TimelyFacts, Past,
        WokenMeansAll, WithForfeits, Untold, Awaiting, Unserved, Silent, Step,
        AwaitFacts, RequestFacts, BoardingSent, AllSent, MissingForfeits, Quiet
  <1>5. CASE WakeOnSignal
    BY <1>5
    DEF WakeOnSignal, redisVars, roundVars, clientVars, TimelyInv, TimelyFacts, Past,
        WokenMeansAll, WithForfeits, Untold, Awaiting, Unserved, Silent, Step,
        AwaitFacts, RequestFacts, BoardingSent, AllSent, MissingForfeits, Quiet
  <1>6. CASE WakeOnTimeout
    BY <1>6, ZenonT(60)
    DEF WakeOnTimeout, redisVars, roundVars, clientVars, TimelyInv, TimelyFacts, Past,
        WokenMeansAll, WithForfeits, Untold, Awaiting, Unserved, Silent, Step,
        AwaitFacts, RequestFacts, BoardingSent, AllSent, MissingForfeits, Quiet
  <1>7. CASE CheckUnsigned
    BY <1>7
    DEF CheckUnsigned, MissingForfeits, redisVars, roundVars, clientVars, TimelyInv,
        TimelyFacts, Past, WokenMeansAll, WithForfeits, Untold, Awaiting, Unserved,
        Silent, Step, AwaitFacts, RequestFacts, BoardingSent, AllSent, Quiet
  <1>8. CASE PopForfeits
    BY <1>8
    DEF PopForfeits, redisVars, roundVars, clientVars, TimelyInv, TimelyFacts, Past,
        WokenMeansAll, WithForfeits, Untold, Awaiting, Unserved, Silent, Step,
        AwaitFacts, RequestFacts, BoardingSent, AllSent, MissingForfeits, Quiet
  <1>9. CASE AttachSignatures
    BY <1>9
    DEF AttachSignatures, redisVars, roundVars, clientVars, TimelyInv, TimelyFacts,
        Past, WokenMeansAll, WithForfeits, Untold, Awaiting, Unserved, Silent, Step,
        AwaitFacts, RequestFacts, BoardingSent, AllSent, MissingForfeits, Quiet
  <1>10. CASE Broadcast
    BY <1>10
    DEF Broadcast, redisVars, roundVars, clientVars, TimelyInv, TimelyFacts, Past,
        WokenMeansAll, WithForfeits, Untold, Awaiting, Unserved, Silent, Step,
        AwaitFacts, RequestFacts, BoardingSent, AllSent, MissingForfeits, Quiet
  <1>11. CASE EndRound
    BY <1>11
    DEF EndRound, redisVars, roundVars, clientVars, TimelyInv, TimelyFacts, Past,
        WokenMeansAll, WithForfeits, Untold, Awaiting, Unserved, Silent, Step,
        AwaitFacts, RequestFacts, BoardingSent, AllSent, MissingForfeits, Quiet
  <1>12. CASE FailRound
    BY <1>12
    DEF FailRound, redisVars, roundVars, clientVars, TimelyInv, TimelyFacts, Past,
        WokenMeansAll, WithForfeits, Untold, Awaiting, Unserved, Silent, Step,
        AwaitFacts, RequestFacts, BoardingSent, AllSent, MissingForfeits, Quiet
  <1>. QED
    BY <1>1, <1>2, <1>3, <1>4, <1>5, <1>6, <1>7, <1>8, <1>9, <1>10, <1>11, <1>12
    DEF FinalStep

\* A step that changes nothing of what the facts speak of keeps them.
LEMMA TimelyKept ==
  ASSUME TimelyInv,
         UNCHANGED <<current, forfeits, numBoarding, boardingSigs, loop, round, registered, woken,
                     signal, announcing, req, told>>
  PROVE  TimelyFacts'
  <1>1. AwaitFacts => AwaitFacts'
    BY DEF AwaitFacts, RequestFacts, BoardingSent, AllSent, MissingForfeits
  <1>2. WokenMeansAll => WokenMeansAll'
    BY DEF WokenMeansAll, AllSent, MissingForfeits
  <1>. QED BY <1>1, <1>2 DEF TimelyInv, TimelyFacts, Past, Quiet

\* A request of a client of the round begins.
LEMMA BeginTimely ==
  ASSUME TimelyInv, NEW i \in Intent, loop \in {"finalization", "waiting"},
         UNCHANGED <<current, forfeits, numBoarding, boardingSigs, loop, round, registered, woken,
                     signal, announcing, told>>,
         req'[i].step \in {"bind", "sign"}, req'[i].step = "sign" => i \in registered \cap Boarder,
         req'[i].tx = round, \A j \in Intent \ {i} : req'[j] = req[j]
  PROVE  TimelyFacts'
  <1>1. AwaitFacts /\ loop \in Awaiting
    BY DEF TimelyInv, TimelyFacts, Awaiting
  <1>2. (BoardingSent <=> BoardingSent') /\ (AllSent <=> AllSent')
    BY DEF BoardingSent, AllSent, MissingForfeits
  <1>3. \A j \in Intent \ {i} : RequestFacts(j) => RequestFacts(j)'
    BY <1>2 DEF RequestFacts
  <1>4. RequestFacts(i)'
    BY DEF RequestFacts
  <1>5. AwaitFacts'
    BY <1>1, <1>2, <1>3, <1>4 DEF AwaitFacts
  <1>6. \A j \in Intent : req'[j].tx <= round'
    <2>1. round <= round
      BY SMT, RoundNatural DEF TimelyInv, ServedInv, CoverInv
    <2>2. \A j \in Intent : req[j].tx <= round
      BY DEF TimelyInv, TimelyFacts
    <2>. QED BY <2>1, <2>2
  <1>7. \A t \in RoundOrNone : boardingSigs'[t] # {} => Past(t)'
    BY DEF TimelyInv, TimelyFacts, Past
  <1>8. WokenMeansAll'
    BY DEF WokenMeansAll
  <1>. QED BY <1>1, <1>5, <1>6, <1>7, <1>8
       DEF TimelyInv, TimelyFacts, Awaiting, Unserved, Silent, Untold, Step

\* The calls of the clients keep what is known of the signal.
LEMMA ClientsTimely ==
  ASSUME "late" \notin Faults, TimelyInv, NEW i \in Intent, ClientStep(i)
  PROVE TimelyFacts'
  <1>1. CASE ConfirmRegistration(i)
    BY <1>1, TimelyKept DEF ConfirmRegistration, roundVars, clientVars
  <1>2. ASSUME SubmitForfeitTxs(i) \/ SignCommitmentTx(i)
        PROVE  /\ loop \in {"finalization", "waiting"} /\ told[i] = round
               /\ UNCHANGED <<current, forfeits, numBoarding, boardingSigs, loop, round, registered,
                              woken, signal, announcing, told>>
    BY <1>2 DEF SubmitForfeitTxs, SignCommitmentTx, InTime, redisVars, roundVars, clientVars
  <1>3. ASSUME loop \in {"finalization", "waiting"}, told[i] = round
        PROVE  current = [id |-> round, built |-> TRUE] /\ i \in registered
    BY <1>3 DEF TimelyInv, TimelyFacts, AwaitFacts, Awaiting
  <1>4. req \in [Intent -> Request]
    BY DEF TimelyInv, ServedInv, CoverInv, TypeOK
  <1>5. CASE SubmitForfeitTxs(i)
    <2>1. req'[i].step = "bind" /\ req'[i].tx = round /\ \A j \in Intent \ {i} : req'[j] = req[j]
      BY <1>2, <1>3, <1>4, <1>5 DEF SubmitForfeitTxs
    <2>. QED BY <1>2, <1>5, <2>1, BeginTimely
  <1>6. CASE SignCommitmentTx(i)
    <2>1. /\ req'[i].step = "sign" /\ req'[i].tx = round /\ \A j \in Intent \ {i} : req'[j] = req[j]
          /\ i \in registered \cap Boarder
      BY <1>2, <1>3, <1>4, <1>6 DEF SignCommitmentTx, NoRequest
    <2>. QED BY <1>2, <1>6, <2>1, BeginTimely
  <1>. QED
    BY <1>1, <1>5, <1>6 DEF ClientStep

\* A handler that goes on or returns leaves the other requests alone.
LEMMA OthersKept == ASSUME TypeOK, NEW i \in Intent, NEW s \in RequestStep, Go(i, s) \/ Return(i)
  PROVE /\ \A j \in Intent : req'[j].tx \in {0, req[j].tx}
        /\ \A j \in Intent \ {i} : /\ req'[j].step = req[j].step /\ req'[j].tx = req[j].tx
                                   /\ req'[j].count = req[j].count
  <1>1. CASE Go(i, s)
    BY SMT, <1>1, RequestEffects
  <1>2. CASE Return(i)
    BY SMT, <1>2, RequestEffects
  <1>. QED BY <1>1, <1>2

\* The handlers of the forfeits keep what is known of the signal.
LEMMA ForfeitsTimely ==
  ASSUME "late" \notin Faults, TimelyInv, NEW i \in Intent,
         BindForfeits(i) \/ CommitForfeits(i)
  PROVE TimelyFacts'
  <1>1. CASE BindForfeits(i)
    <2>1. loop \notin Unserved
      BY <1>1 DEF BindForfeits, TimelyInv, TimelyFacts, Quiet
    <2>2. UNCHANGED <<redisVars, loop, roundVars, announcing, told>>
      BY <1>1 DEF BindForfeits, clientVars
    <2>3. /\ \A j \in Intent : req'[j].tx \in {0, req[j].tx}
          /\ \A j \in Intent \ {i} : /\ req'[j].step = req[j].step /\ req'[j].tx = req[j].tx
                                     /\ req'[j].count = req[j].count
      <3>1. TypeOK /\ "commit" \in RequestStep
        BY DEF TimelyInv, ServedInv, CoverInv, RequestStep
      <3>2. Go(i, "commit") \/ Return(i)
        BY <1>1 DEF BindForfeits
      <3>. QED BY <3>1, <3>2, OthersKept
    <2>4. ASSUME loop \in Awaiting PROVE /\ req'[i].step # "idle" => RequestFacts(i)'
                                         /\ signal' => AllSent
      <3>1. /\ req'[i].step \in {"commit", "idle"}
            /\ req'[i].step # "idle" => req'[i].tx = req[i].tx /\ req'[i].count = req[i].count
        BY <1>1, RequestEffects DEF BindForfeits, RequestStep, TimelyInv, ServedInv, CoverInv
      <3>. QED BY <1>1, <2>2, <2>4, <3>1
           DEF BindForfeits, TimelyInv, TimelyFacts, AwaitFacts, RequestFacts, BoardingSent, AllSent,
               MissingForfeits, redisVars, roundVars
    <2>5. ASSUME loop \in Awaiting PROVE AwaitFacts'
      BY <2>2, <2>3, <2>4, <2>5, ZenonT(60)
      DEF TimelyInv, TimelyFacts, AwaitFacts, RequestFacts, BoardingSent, AllSent, MissingForfeits,
          redisVars, roundVars
    <2>6. \A j \in Intent : req'[j].tx <= round
      BY <2>3, RoundNatural DEF TimelyInv, TimelyFacts, ServedInv, CoverInv
    <2>7. loop \in Silent => loop \in Unserved
      BY DEF Silent, Unserved, Step
    <2>. QED BY <2>1, <2>2, <2>5, <2>6, <2>7
         DEF TimelyInv, TimelyFacts, WokenMeansAll, AllSent, MissingForfeits, Past, redisVars, roundVars
  <1>2. CASE CommitForfeits(i)
    <2>1. loop \notin Unserved
      BY <1>2 DEF CommitForfeits, TimelyInv, TimelyFacts, Quiet
    <2>2. UNCHANGED <<current, boardingSigs, numBoarding, loop, roundVars, signal, announcing, told>>
      BY <1>2 DEF CommitForfeits
    <2>3. /\ \A j \in Intent : req'[j].tx \in {0, req[j].tx}
          /\ \A j \in Intent \ {i} : /\ req'[j].step = req[j].step /\ req'[j].tx = req[j].tx
                                     /\ req'[j].count = req[j].count
          /\ req'[i].step \in {"check", "idle"}
          /\ req'[i].step = "check" => req'[i].tx = req[i].tx
      <3>1. TypeOK /\ "check" \in RequestStep
        BY DEF TimelyInv, ServedInv, CoverInv, RequestStep
      <3>2. Go(i, "check") \/ Return(i)
        BY <1>2 DEF CommitForfeits
      <3>. QED BY <3>1, <3>2, OthersKept, RequestEffects
    <2>4. MissingForfeits = {} => MissingForfeits' = {}
      BY SMT, <1>2, FieldTypes, IntentsAssumption
      DEF CommitForfeits, TimelyInv, ServedInv, CoverInv, CoverFacts, MissingForfeits, TypeOK, Forfeits
    <2>5. AllSent => AllSent'
      BY <2>2, <2>4 DEF AllSent, roundVars
    <2>6. ASSUME loop \in Awaiting PROVE AwaitFacts'
      <3>1. \A j \in Intent : req[j].step # "idle" => RequestFacts(j)
        BY <2>6 DEF TimelyInv, TimelyFacts, AwaitFacts
      <3>2. \A j \in Intent : req'[j].step # "idle" => RequestFacts(j)'
        BY <1>2, <2>2, <2>3, <2>5, <3>1
        DEF CommitForfeits, RequestFacts, BoardingSent, roundVars
      <3>. QED BY <2>2, <2>5, <2>6, <3>2 DEF TimelyInv, TimelyFacts, AwaitFacts, roundVars
    <2>7. \A j \in Intent : req'[j].tx <= round
      BY <2>3, RoundNatural DEF TimelyInv, TimelyFacts, ServedInv, CoverInv
    <2>8. loop \in Silent => loop \in Unserved
      BY DEF Silent, Unserved, Step
    <2>. QED BY <2>1, <2>2, <2>5, <2>6, <2>7, <2>8
         DEF TimelyInv, TimelyFacts, WokenMeansAll, Past, roundVars
  <1>. QED
    BY <1>1, <1>2

-----------------------------------------------------------------------------
\* The handlers of the signatures keep what is known of the signal.
LEMMA HandlersTimely ==
  ASSUME "late" \notin Faults, TimelyInv, NEW i \in Intent, HandlerStep(i)
  PROVE TimelyFacts'
  <1>1. CASE BindForfeits(i) \/ CommitForfeits(i)
    BY <1>1, ForfeitsTimely
  <1>3. CASE AddSignatures(i)
    <2>1. loop \notin Unserved
      BY <1>3 DEF AddSignatures, TimelyInv, TimelyFacts, Quiet
    <2>2. UNCHANGED <<current, forfeits, numBoarding, loop, roundVars, signal, announcing, told>>
      BY <1>3 DEF AddSignatures, clientVars
    <2>3. \A j \in Intent : /\ req'[j].step = IF j = i THEN "check" ELSE req[j].step
                            /\ req'[j].tx = req[j].tx /\ req'[j].count = req[j].count
      <3>1. TypeOK /\ "check" \in RequestStep
        BY DEF TimelyInv, ServedInv, CoverInv, RequestStep
      <3>2. Go(i, "check")
        BY <1>3 DEF AddSignatures
      <3>. QED BY SMT, <3>1, <3>2, RequestEffects
    <2>4. \A t \in RoundOrNone : /\ boardingSigs[t] \subseteq boardingSigs'[t]
                                 /\ boardingSigs'[t] \subseteq boardingSigs[t] \cup {i}
                                 /\ t # req[i].tx => boardingSigs'[t] = boardingSigs[t]
      BY <1>3 DEF AddSignatures, TimelyInv, ServedInv, CoverInv, TypeOK
    <2>5. req[i].tx \in RoundOrNone /\ round \in RoundOrNone /\ Past(req[i].tx)
      BY <2>1, FieldTypes
      DEF TimelyInv, TimelyFacts, ServedInv, CoverInv, TypeOK, Past, Unserved, Untold, Step, Request
    <2>6. \A t \in RoundOrNone : boardingSigs'[t] # {} => Past(t)'
      BY <2>2, <2>4, <2>5 DEF TimelyInv, TimelyFacts, Past, roundVars
    <2>7. ASSUME loop \in Awaiting PROVE AwaitFacts'
      <3>1. i \in registered \cap Boarder
        BY <1>3, <2>7 DEF AddSignatures, TimelyInv, TimelyFacts, AwaitFacts, RequestFacts
      <3>2. AllSent => AllSent'
        BY <2>2, <2>4, <2>5 DEF AllSent, MissingForfeits, roundVars
      <3>3. BoardingSent => BoardingSent'
        BY <2>2, <2>4, <2>5 DEF BoardingSent, roundVars
      <3>4. \A j \in Intent : req'[j].step # "idle" => RequestFacts(j)'
        BY <1>3, <2>2, <2>3, <2>7, <3>2, <3>3, ZenonT(60)
        DEF AddSignatures, TimelyInv, TimelyFacts, AwaitFacts, RequestFacts, roundVars
      <3>. QED BY <2>2, <2>4, <2>5, <2>7, <3>1, <3>2, <3>4
           DEF TimelyInv, TimelyFacts, AwaitFacts, roundVars
    <2>8. WokenMeansAll'
      BY <2>2, <2>4, <2>5
      DEF TimelyInv, TimelyFacts, WokenMeansAll, AllSent, MissingForfeits, roundVars
    <2>9. loop \in Silent => loop \in Unserved
      BY DEF Silent, Unserved, Step
    <2>. QED BY <2>1, <2>2, <2>3, <2>6, <2>7, <2>8, <2>9 DEF TimelyInv, TimelyFacts, roundVars
  <1>4. CASE GetSignatures(i)
    <2>1. loop \notin Unserved
      BY <1>4 DEF GetSignatures, TimelyInv, TimelyFacts, Quiet
    <2>2. UNCHANGED <<redisVars, loop, roundVars, announcing, told>>
      BY <1>4 DEF GetSignatures, clientVars
    <2>3. /\ \A j \in Intent : req'[j].tx \in {0, req[j].tx}
          /\ \A j \in Intent \ {i} : /\ req'[j].step = req[j].step /\ req'[j].tx = req[j].tx
                                     /\ req'[j].count = req[j].count
      BY <1>4 DEF GetSignatures, TimelyInv, ServedInv, CoverInv, TypeOK, Request
    <2>4. ASSUME loop \in Awaiting PROVE /\ req'[i].step # "idle" => RequestFacts(i)'
                                         /\ signal' => AllSent
      <3>1. /\ req'[i].step = "counted" /\ req'[i].tx = req[i].tx
            /\ req'[i].count = Cardinality(boardingSigs[req[i].tx])
        BY <1>4 DEF GetSignatures, TimelyInv, ServedInv, CoverInv, TypeOK, Request
      <3>2. req[i].tx = round /\ boardingSigs[round] \subseteq registered \cap Boarder
        BY <1>4, <2>4 DEF GetSignatures, TimelyInv, TimelyFacts, AwaitFacts, RequestFacts
      <3>3. IsFiniteSet(registered \cap Boarder)
        BY IntentsAssumption, FS_Subset DEF TimelyInv, ServedInv, CoverInv, TypeOK
      <3>4. Cardinality(boardingSigs[round]) = Cardinality(registered \cap Boarder)
              => boardingSigs[round] = registered \cap Boarder
        BY <3>2, <3>3, FS_Subset
      <3>5. numBoarding = Cardinality(registered \cap Boarder)
        BY <2>4 DEF TimelyInv, TimelyFacts
      <3>6. signal' => AllSent
        BY <1>4, <2>4 DEF GetSignatures, TimelyInv, TimelyFacts, AwaitFacts
      <3>. QED BY <2>2, <3>1, <3>2, <3>4, <3>5, <3>6
           DEF RequestFacts, BoardingSent, redisVars, roundVars
    <2>5. ASSUME loop \in Awaiting PROVE AwaitFacts'
      BY <2>2, <2>3, <2>4, <2>5, ZenonT(60)
      DEF TimelyInv, TimelyFacts, AwaitFacts, RequestFacts, BoardingSent, AllSent, MissingForfeits,
          redisVars, roundVars
    <2>6. \A j \in Intent : req'[j].tx <= round
      BY <2>3, RoundNatural DEF TimelyInv, TimelyFacts, ServedInv, CoverInv
    <2>7. loop \in Silent => loop \in Unserved
      BY DEF Silent, Unserved, Step
    <2>. QED BY <2>1, <2>2, <2>5, <2>6, <2>7
         DEF TimelyInv, TimelyFacts, WokenMeansAll, AllSent, MissingForfeits, Past, redisVars, roundVars
  <1>5. CASE GetBoardingInputs(i)
    <2>1. loop \notin Unserved
      BY <1>5 DEF GetBoardingInputs, TimelyInv, TimelyFacts, Quiet
    <2>2. UNCHANGED <<redisVars, loop, roundVars, announcing, told>>
      BY <1>5 DEF GetBoardingInputs, clientVars
    <2>3. /\ \A j \in Intent : req'[j].tx \in {0, req[j].tx}
          /\ \A j \in Intent \ {i} : /\ req'[j].step = req[j].step /\ req'[j].tx = req[j].tx
                                     /\ req'[j].count = req[j].count
      <3>1. TypeOK /\ "matched" \in RequestStep
        BY DEF TimelyInv, ServedInv, CoverInv, RequestStep
      <3>2. Go(i, "matched") \/ Return(i)
        BY <1>5 DEF GetBoardingInputs
      <3>. QED BY <3>1, <3>2, OthersKept
    <2>4. ASSUME loop \in Awaiting PROVE /\ req'[i].step # "idle" => RequestFacts(i)'
                                         /\ signal' => AllSent
      <3>1. /\ req'[i].step # "idle" => /\ req'[i].step = "matched" /\ req[i].count = numBoarding
                                        /\ req'[i].tx = req[i].tx /\ req'[i].count = req[i].count
        BY SMT, <1>5, RequestEffects
        DEF GetBoardingInputs, RequestStep, TimelyInv, ServedInv, CoverInv
      <3>2. req[i].step # "idle" => RequestFacts(i)
        BY <2>4 DEF TimelyInv, TimelyFacts, AwaitFacts
      <3>3. signal' => AllSent
        <4>1. AwaitFacts
          BY <2>4 DEF TimelyInv, TimelyFacts
        <4>2. signal' = signal
          BY <1>5 DEF GetBoardingInputs
        <4>. QED BY <4>1, <4>2 DEF AwaitFacts
      <3>. QED BY <1>5, <2>2, <3>1, <3>2, <3>3
           DEF GetBoardingInputs, RequestFacts, BoardingSent, AllSent, MissingForfeits, redisVars, roundVars
    <2>5. ASSUME loop \in Awaiting PROVE AwaitFacts'
      BY <2>2, <2>3, <2>4, <2>5, ZenonT(60)
      DEF TimelyInv, TimelyFacts, AwaitFacts, RequestFacts, BoardingSent, AllSent, MissingForfeits,
          redisVars, roundVars
    <2>6. \A j \in Intent : req'[j].tx <= round
      BY <2>3, RoundNatural DEF TimelyInv, TimelyFacts, ServedInv, CoverInv
    <2>7. loop \in Silent => loop \in Unserved
      BY DEF Silent, Unserved, Step
    <2>. QED BY <2>1, <2>2, <2>5, <2>6, <2>7
         DEF TimelyInv, TimelyFacts, WokenMeansAll, AllSent, MissingForfeits, Past, redisVars, roundVars
  <1>6. CASE AllSigned(i)
    <2>1. loop \notin Unserved
      BY <1>6 DEF AllSigned, TimelyInv, TimelyFacts, Quiet
    <2>2. UNCHANGED <<redisVars, loop, roundVars, announcing, told>>
      BY <1>6 DEF AllSigned, clientVars
    <2>3. /\ \A j \in Intent : req'[j].tx \in {0, req[j].tx}
          /\ \A j \in Intent \ {i} : /\ req'[j].step = req[j].step /\ req'[j].tx = req[j].tx
                                     /\ req'[j].count = req[j].count
      <3>1. TypeOK /\ "send" \in RequestStep
        BY DEF TimelyInv, ServedInv, CoverInv, RequestStep
      <3>2. Go(i, "send") \/ Return(i)
        BY <1>6 DEF AllSigned
      <3>. QED BY <3>1, <3>2, OthersKept
    <2>4. ASSUME loop \in Awaiting PROVE /\ req'[i].step # "idle" => RequestFacts(i)'
                                         /\ signal' => AllSent
      <3>1. /\ req'[i].step # "idle" => /\ req'[i].step = "send" /\ MissingForfeits = {}
                                        /\ req'[i].tx = req[i].tx /\ req'[i].count = req[i].count
        BY SMT, <1>6, RequestEffects DEF AllSigned, RequestStep, TimelyInv, ServedInv, CoverInv
      <3>2. req[i].step # "idle" => RequestFacts(i)
        BY <2>4 DEF TimelyInv, TimelyFacts, AwaitFacts
      <3>3. signal' => AllSent
        BY <1>6, <2>4 DEF AllSigned, TimelyInv, TimelyFacts, AwaitFacts
      <3>. QED BY <1>6, <2>2, <3>1, <3>2, <3>3
           DEF AllSigned, RequestFacts, BoardingSent, AllSent, MissingForfeits, redisVars, roundVars
    <2>5. ASSUME loop \in Awaiting PROVE AwaitFacts'
      BY <2>2, <2>3, <2>4, <2>5, ZenonT(60)
      DEF TimelyInv, TimelyFacts, AwaitFacts, RequestFacts, BoardingSent, AllSent, MissingForfeits,
          redisVars, roundVars
    <2>6. \A j \in Intent : req'[j].tx <= round
      BY <2>3, RoundNatural DEF TimelyInv, TimelyFacts, ServedInv, CoverInv
    <2>7. loop \in Silent => loop \in Unserved
      BY DEF Silent, Unserved, Step
    <2>. QED BY <2>1, <2>2, <2>5, <2>6, <2>7
         DEF TimelyInv, TimelyFacts, WokenMeansAll, AllSent, MissingForfeits, Past, redisVars, roundVars
  <1>7. CASE SendSignal(i)
    <2>1. loop \notin Unserved
      BY <1>7 DEF SendSignal, TimelyInv, TimelyFacts, Quiet
    <2>2. UNCHANGED <<redisVars, loop, roundVars, announcing, told>>
      BY <1>7 DEF SendSignal, clientVars
    <2>3. /\ \A j \in Intent : req'[j].tx \in {0, req[j].tx}
          /\ \A j \in Intent \ {i} : /\ req'[j].step = req[j].step /\ req'[j].tx = req[j].tx
                                     /\ req'[j].count = req[j].count
      <3>1. TypeOK /\ "idle" \in RequestStep
        BY DEF TimelyInv, ServedInv, CoverInv, RequestStep
      <3>2. Go(i, "idle") \/ Return(i)
        BY <1>7 DEF SendSignal
      <3>. QED BY <3>1, <3>2, OthersKept
    <2>4. ASSUME loop \in Awaiting PROVE /\ req'[i].step # "idle" => RequestFacts(i)'
                                         /\ signal' => AllSent
      <3>1. /\ req'[i].step \in {"idle"}
            /\ req'[i].step # "idle" => req'[i].tx = req[i].tx /\ req'[i].count = req[i].count
        BY <1>7, RequestEffects DEF SendSignal, RequestStep, TimelyInv, ServedInv, CoverInv
      <3>. QED BY <1>7, <2>2, <2>4, <3>1
           DEF SendSignal, TimelyInv, TimelyFacts, AwaitFacts, RequestFacts, BoardingSent, AllSent,
               MissingForfeits, redisVars, roundVars
    <2>5. ASSUME loop \in Awaiting PROVE AwaitFacts'
      BY <2>2, <2>3, <2>4, <2>5, ZenonT(60)
      DEF TimelyInv, TimelyFacts, AwaitFacts, RequestFacts, BoardingSent, AllSent, MissingForfeits,
          redisVars, roundVars
    <2>6. \A j \in Intent : req'[j].tx <= round
      BY <2>3, RoundNatural DEF TimelyInv, TimelyFacts, ServedInv, CoverInv
    <2>7. loop \in Silent => loop \in Unserved
      BY DEF Silent, Unserved, Step
    <2>. QED BY <2>1, <2>2, <2>5, <2>6, <2>7
         DEF TimelyInv, TimelyFacts, WokenMeansAll, AllSent, MissingForfeits, Past, redisVars, roundVars
  <1>. QED
    BY <1>1, <1>3, <1>4, <1>5, <1>6, <1>7 DEF HandlerStep

\* A restart, after a crash or a send on a closed channel, keeps what is known of the signal.
LEMMA RestartTimely == ASSUME TimelyInv, Restart PROVE TimelyFacts'
  <1>1. /\ loop' = "start" /\ signal' = FALSE
        /\ UNCHANGED <<current, boardingSigs, round>>
        /\ \A i \in Intent : req'[i].tx = 0
    BY DEF Restart, redisVars, NoRequest
  <1>2. \A t \in RoundOrNone : Past(t) => Past(t)'
    BY <1>1 DEF Past, Untold
  <1>3. \A i \in Intent : req'[i].tx <= round'
    BY <1>1, RoundNatural DEF TimelyInv, ServedInv, CoverInv
  <1>. QED BY <1>1, <1>2, <1>3
       DEF TimelyInv, TimelyFacts, Unserved, Silent, Awaiting, Untold, WokenMeansAll

\* Every step keeps what is known of the signal.
LEMMA TimelyStep == ASSUME "late" \notin Faults, TimelyInv, [Next]_vars PROVE TimelyFacts'
  <1>1. CASE RoundStep
    BY <1>1, StartingTimely, ConfirmingTimely, FinalizingTimely
    DEF RoundStep, StartStep, ConfirmStep, FinalStep
  <1>2. ASSUME NEW i \in Intent, HandlerStep(i) PROVE TimelyFacts'
    BY <1>2, HandlersTimely
  <1>3. ASSUME NEW i \in Intent, ClientStep(i) PROVE TimelyFacts'
    BY <1>3, ClientsTimely
  <1>4. ASSUME NEW i \in Intent, SendOnClosed(i) PROVE TimelyFacts'
    BY <1>4, RestartTimely DEF SendOnClosed
  <1>5. CASE WatchSessionCompletion
    BY <1>5, TimelyKept DEF WatchSessionCompletion, redisVars, roundVars, clientVars
  <1>6. ASSUME NEW event \in announcing, PropagateEvents(event) PROVE TimelyFacts'
    <2>1. /\ announcing' \subseteq announcing
          /\ told' = [i \in Intent |-> IF Hears(i, event) THEN event.id ELSE told[i]]
          /\ UNCHANGED <<current, forfeits, numBoarding, boardingSigs, loop, round, registered,
                         woken, signal, req>>
      BY <1>6 DEF PropagateEvents, redisVars, roundVars
    <2>2. ASSUME loop \in Awaiting PROVE AwaitFacts'
      <3>1. AwaitFacts
        BY <2>2 DEF TimelyInv, TimelyFacts
      <3>2. \A i \in Intent : told'[i] = round => i \in registered
        BY <2>1, <3>1 DEF AwaitFacts, Hears
      <3>3. \A i \in Intent : req[i].step # "idle" => RequestFacts(i)'
        <4>1. (BoardingSent <=> BoardingSent') /\ (AllSent <=> AllSent')
          BY <2>1 DEF BoardingSent, AllSent, MissingForfeits
        <4>. QED BY <2>1, <3>1, <4>1 DEF AwaitFacts, RequestFacts
      <3>. QED BY <2>1, <3>1, <3>2, <3>3 DEF AwaitFacts, AllSent, MissingForfeits
    <2>3. \A t \in RoundOrNone : Past(t) => Past(t)'
      BY <2>1 DEF Past
    <2>4. WokenMeansAll'
      BY <2>1 DEF TimelyInv, TimelyFacts, WokenMeansAll, AllSent, MissingForfeits
    <2>. QED BY <2>1, <2>2, <2>3, <2>4 DEF TimelyInv, TimelyFacts, Quiet
  <1>7. CASE Crash
    BY <1>7, RestartTimely DEF Crash
  <1>8. CASE UNCHANGED vars
    BY <1>8, TimelyKept DEF vars, redisVars, roundVars, clientVars
  <1>. QED BY <1>1, <1>2, <1>3, <1>4, <1>5, <1>6, <1>7, <1>8 DEF Next

\* The facts about the signal hold at the start.
LEMMA TimelyInit == Init => TimelyInv
  BY SMT, ServedInit
  DEF Init, TimelyInv, TimelyFacts, Quiet, Silent, Awaiting, WokenMeansAll, NoRequest,
     NoRound, Past, Untold

\* If handlers end before the next round starts, the server is woken early only when
\* every signature of the batch is there, for any number of intents and rounds.
THEOREM WokenAlwaysMeansAll == "late" \notin Faults => (Spec => []WokenMeansAll)
  <1>. SUFFICES ASSUME "late" \notin Faults PROVE Spec => []WokenMeansAll
    OBVIOUS
  <1>1. TimelyInv /\ [Next]_vars => TimelyInv'
    BY TimelyStep, ServedStep, CoveredStep, TypedStep DEF TimelyInv, ServedInv, CoverInv
  <1>2. TimelyInv => WokenMeansAll
    BY DEF TimelyInv, TimelyFacts
  <1>. QED BY TimelyInit, <1>1, <1>2, PTL DEF Spec
=============================================================================
