---------------------------- MODULE BatchSession ----------------------------
(***************************************************************************)
(* The rounds of the server, from the registration of intents to the      *)
(* broadcast of the commitment tx.                                         *)
(*                                                                         *)
(* One goroutine at a time drives the current round: startRound,           *)
(* startConfirmation, startFinalization, finalizeRound, and again          *)
(* startRound, whether the round ended or failed.  Clients confirm their   *)
(* intents, sign forfeits and sign boarding inputs through handlers that   *)
(* run concurrently with it and meet it only in Redis and in a channel:    *)
(* the last signature wakes finalizeRound through the channel before its   *)
(* timer does.                                                             *)
(*                                                                         *)
(* An intent has one input, a vtxo to forfeit, a boarding utxo to sign or  *)
(* neither (a note, a swept vtxo), and stands for all the intents that the *)
(* owner registers for it: an id is used once, so a session knows which    *)
(* round it belongs to.  The queue of intents is the one of SpendGuard:    *)
(* here any intent not settled may be in it.  The tree of the batch is     *)
(* signed, or the round fails.                                             *)
(***************************************************************************)
EXTENDS Naturals, FiniteSets

CONSTANTS
    Intent,
    Forfeiter,        \* those whose vtxo has to be forfeited
    Boarder,          \* those whose input is a boarding utxo
    MinParticipants,
    MaxParticipants,
    MaxRound,         \* bound on the number of rounds
    Faults            \* what may go wrong

ASSUME IntentsAssumption ==
    /\ IsFiniteSet(Intent)
    /\ Forfeiter \subseteq Intent /\ Boarder \subseteq Intent
    /\ Forfeiter \cap Boarder = {}

ASSUME BoundsAssumption ==
    /\ MinParticipants \in Nat \ {0}
    /\ MaxParticipants \in Nat
    /\ MaxRound \in Nat \ {0}

\* A handler, or the goroutine it leaves behind, outlives the round it was called in,
\* or a client signs after the round is over; the cleanup of startRound fails, for
\* the forfeits and signatures or for the confirmation session; Redis fails where
\* startRound gives up; the save of the finalization event fails; the server restarts.
Fault == {"late", "cleanup", "session", "redis", "save", "crash"}

ASSUME FaultsAssumption == Faults \subseteq Fault

RoundOrNone == 0 .. MaxRound

VARIABLES
    \* Redis
    current,     \* the round in the cache, and whether its commitment tx is built
    session,     \* confirmation session: its round, its intents, the confirmed ones
    forfeits,    \* forfeit txs: their batch, the inputs to forfeit, what each was signed for
    numBoarding, \* number of boarding inputs to sign
    boardingSigs,\* boarding inputs signed, for each commitment tx
    \* round goroutine
    loop,        \* its step
    round,       \* the round it drives
    selected,    \* intents popped
    registered,  \* intents confirmed
    woken,       \* what ended the wait for the signatures: nothing, the channel, the timer
    collected,   \* forfeits popped: the batch each was signed for
    attached,    \* boarding signatures put into the commitment tx
    \* other goroutines
    watcher,     \* the one that watches the session
    signal,      \* forfeitsBoardingSigsChan holds a value
    announcing,  \* finalization events on their way to the clients
    req,         \* the handler of each client and the check that follows it
    \* clients and chain
    told,        \* last batch each client has the connectors or the tx of
    settled,     \* intents whose inputs a broadcast commitment tx spends
    served,      \* forfeits accepted, by batch
    convicted    \* intents convicted, by batch

redisVars == <<current, session, forfeits, numBoarding, boardingSigs>>
roundVars == <<round, selected, registered, woken, collected, attached>>
clientVars == <<told, settled, served, convicted>>
vars == <<redisVars, loop, roundVars, watcher, signal, announcing, req, clientVars>>

-----------------------------------------------------------------------------
NoRound    == [id |-> 0, built |-> FALSE]
NoSession  == [id |-> 0, intents |-> {}, confirmed |-> {}]
Unsigned   == [i \in Intent |-> 0]
NoForfeits == [batch |-> 0, need |-> {}, signed |-> Unsigned]
NoRequest  == [step |-> "idle", tx |-> 0, batch |-> 0, count |-> 0]

Step == {"start", "forfeitsReset", "sessionReset", "clean", "upserted", "closed",
         "registration", "popped", "confirming", "confirmed", "registered", "initialized",
         "built", "finalization", "waiting", "woken", "signed", "collected", "ready",
         "broadcast", "stopped"}
RequestStep == {"idle", "bind", "commit", "sign", "check", "counted", "matched", "send"}

CurrentRound == [id : RoundOrNone, built : BOOLEAN]
Session == [id : RoundOrNone, intents : SUBSET Intent, confirmed : SUBSET Intent]
Forfeits == [batch : RoundOrNone, need : SUBSET Forfeiter, signed : [Intent -> RoundOrNone]]
Request == [step : RequestStep, tx : RoundOrNone, batch : RoundOrNone, count : Nat]
Event == [id : RoundOrNone, intents : SUBSET Intent]

Init ==
    /\ current = NoRound /\ session = NoSession /\ forfeits = NoForfeits
    /\ numBoarding = 0 /\ boardingSigs = [t \in RoundOrNone |-> {}]
    /\ loop = "start" /\ round = 0
    /\ selected = {} /\ registered = {} /\ woken = "no"
    /\ collected = Unsigned /\ attached = {}
    /\ watcher = "polling" /\ signal = FALSE /\ announcing = {}
    /\ req = [i \in Intent |-> NoRequest]
    /\ told = [i \in Intent |-> 0]
    /\ settled = {} /\ served = {} /\ convicted = {}

MissingForfeits == {i \in forfeits.need : forfeits.signed[i] = 0}

\* What the round needs from its clients has arrived.
AllSent ==
    /\ MissingForfeits = {}
    /\ registered \cap Boarder \subseteq boardingSigs[round]

-----------------------------------------------------------------------------
(* startRound.                                                             *)

Quiet == \A i \in Intent : req[i].step = "idle"

\* The first write of the cleanup.  Nothing to clean up if there was no round.
ResetForfeits ==
    /\ loop = "start"
    /\ "late" \in Faults \/ Quiet
    /\ \/ /\ current.id = 0
          /\ loop' = "clean"
          /\ UNCHANGED forfeits
       \/ /\ current.id # 0
          /\ loop' = "forfeitsReset"
          /\ \/ forfeits' = NoForfeits
             \/ "cleanup" \in Faults /\ UNCHANGED forfeits
    /\ selected' = {} /\ registered' = {} /\ woken' = "no"
    /\ collected' = Unsigned /\ attached' = {}
    /\ UNCHANGED <<current, session, numBoarding, boardingSigs, round>>
    /\ UNCHANGED <<watcher, signal, announcing, req, clientVars>>

\* Mutant: the watcher of the last session stays.
ResetSessionOnly ==
    /\ loop = "forfeitsReset"
    /\ loop' = "sessionReset"
    /\ session' = NoSession
    /\ UNCHANGED <<current, forfeits, numBoarding, boardingSigs>>
    /\ UNCHANGED <<roundVars, watcher, signal, announcing, req, clientVars>>

\* A new channel and a new watcher come with the reset of the session.
ResetSession ==
    /\ loop = "forfeitsReset"
    /\ loop' = "sessionReset"
    /\ \/ session' = NoSession /\ watcher' = "polling"
       \/ "session" \in Faults /\ UNCHANGED <<session, watcher>>
    /\ UNCHANGED <<current, forfeits, numBoarding, boardingSigs>>
    /\ UNCHANGED <<roundVars, signal, announcing, req, clientVars>>

DeleteSignatures ==
    /\ loop = "sessionReset"
    /\ loop' = "clean"
    /\ \/ boardingSigs' = IF current.built THEN [boardingSigs EXCEPT ![current.id] = {}]
                          ELSE boardingSigs
       \/ "cleanup" \in Faults /\ UNCHANGED boardingSigs
    /\ UNCHANGED <<current, session, forfeits, numBoarding>>
    /\ UNCHANGED <<roundVars, watcher, signal, announcing, req, clientVars>>

\* The batch trigger denies the round.
DenyRound ==
    /\ loop = "clean"
    /\ loop' = "start"
    /\ UNCHANGED <<redisVars, roundVars, watcher, signal, announcing, req, clientVars>>

NewRound ==
    /\ loop = "clean"
    /\ round < MaxRound
    /\ round' = round + 1
    /\ current' = [id |-> round + 1, built |-> FALSE]
    /\ loop' = "upserted"
    /\ UNCHANGED <<session, forfeits, numBoarding, boardingSigs>>
    /\ UNCHANGED <<selected, registered, woken, collected, attached>>
    /\ UNCHANGED <<watcher, signal, announcing, req, clientVars>>

CloseChannel ==
    /\ loop = "upserted"
    /\ loop' = "closed"
    /\ UNCHANGED <<redisVars, roundVars, watcher, signal, announcing, req, clientVars>>

MakeChannel ==
    /\ loop = "closed"
    /\ loop' = "registration"
    /\ signal' = FALSE
    /\ UNCHANGED <<redisVars, roundVars, watcher, announcing, req, clientVars>>

\* An error of the cache: startRound returns and nobody calls it again.
LoopStops ==
    /\ "redis" \in Faults
    /\ loop \in {"start", "clean"}
    /\ loop' = "stopped"
    /\ UNCHANGED <<redisVars, roundVars, watcher, signal, announcing, req, clientVars>>

-----------------------------------------------------------------------------
(* startConfirmation.                                                      *)

\* Not enough intents are queued, or not enough funds: the round is dropped and
\* nothing is saved; intents popped by then are lost.
Abort ==
    /\ loop = "registration"
    /\ loop' = "start"
    /\ UNCHANGED <<redisVars, roundVars, watcher, signal, announcing, req, clientVars>>

\* The intents popped from the queue, less those with a spent boarding input.
SelectIntents ==
    /\ loop = "registration"
    /\ selected' \in SUBSET (Intent \ settled)
    /\ Cardinality(selected') \in MinParticipants .. MaxParticipants
    /\ loop' = "popped"
    /\ UNCHANGED <<redisVars, round, registered, woken, collected, attached>>
    /\ UNCHANGED <<watcher, signal, announcing, req, clientVars>>

\* If the session cannot be written nobody is told, and the round goes on.
InitSession ==
    /\ loop = "popped"
    /\ loop' = "confirming"
    /\ \/ session' = [id |-> round, intents |-> selected, confirmed |-> {}]
       \/ "session" \in Faults /\ UNCHANGED session
    /\ UNCHANGED <<current, forfeits, numBoarding, boardingSigs>>
    /\ UNCHANGED <<roundVars, watcher, signal, announcing, req, clientVars>>

\* The client confirms; the session may be one that was not reset.
ConfirmRegistration(i) ==
    /\ session.id # 0
    /\ i \in session.intents \ session.confirmed
    /\ session' = [session EXCEPT !.confirmed = @ \cup {i}]
    /\ UNCHANGED <<current, forfeits, numBoarding, boardingSigs>>
    /\ UNCHANGED <<loop, roundVars, watcher, signal, announcing, req, clientVars>>

\* The watcher finds every intent confirmed, and offers it on its channel.
WatchSessionCompletion ==
    /\ watcher = "polling"
    /\ session.intents # {}
    /\ session.confirmed = session.intents
    /\ watcher' = "sending"
    /\ UNCHANGED <<redisVars, loop, roundVars, signal, announcing, req, clientVars>>

\* The round goes on with the confirmed intents, or fails if they are too few.
Confirmed(intents) ==
    \/ /\ Cardinality(intents) >= MinParticipants
       /\ registered' = intents
       /\ loop' = "confirmed"
    \/ /\ Cardinality(intents) < MinParticipants
       /\ loop' = "start"
       /\ UNCHANGED registered

SessionConfirmed == IF session.id = round THEN selected \cap session.confirmed ELSE {}

\* The timer of the confirmation.  A missing session confirms nobody, and is an error.
ConfirmationTimeout ==
    /\ loop = "confirming"
    /\ Confirmed(SessionConfirmed)
    /\ UNCHANGED <<redisVars, round, selected, woken, collected, attached>>
    /\ UNCHANGED <<watcher, signal, announcing, req, clientVars>>

\* The watcher's offer is taken: all are confirmed.  The watcher then closes its
\* channel, and a closed channel confirms nobody.
ConfirmationCompleted ==
    /\ loop = "confirming"
    /\ \/ /\ watcher = "sending"
          /\ watcher' = "closed"
          /\ Confirmed(selected)
       \/ /\ watcher = "closed"
          /\ UNCHANGED watcher
          /\ Confirmed({})
    /\ UNCHANGED <<redisVars, round, selected, woken, collected, attached>>
    /\ UNCHANGED <<signal, announcing, req, clientVars>>

RegisterIntents ==
    /\ loop = "confirmed"
    /\ numBoarding' = Cardinality(registered \cap Boarder)
    /\ loop' = "registered"
    /\ UNCHANGED <<current, session, forfeits, boardingSigs>>
    /\ UNCHANGED <<roundVars, watcher, signal, announcing, req, clientVars>>

-----------------------------------------------------------------------------
(* startFinalization.                                                      *)

\* Mutant: a forfeit is asked for every input.
InitForfeitsAll ==
    /\ loop = "registered"
    /\ forfeits' = [batch |-> round, need |-> registered, signed |-> Unsigned]
    /\ loop' = "initialized"
    /\ UNCHANGED <<current, session, numBoarding, boardingSigs>>
    /\ UNCHANGED <<roundVars, watcher, signal, announcing, req, clientVars>>

\* RequiresForfeit picks the inputs to forfeit.
InitForfeits ==
    /\ loop = "registered"
    /\ forfeits' = [batch |-> round, need |-> registered \cap Forfeiter, signed |-> Unsigned]
    /\ loop' = "initialized"
    /\ UNCHANGED <<current, session, numBoarding, boardingSigs>>
    /\ UNCHANGED <<roundVars, watcher, signal, announcing, req, clientVars>>

UpsertCommitmentTx ==
    /\ loop = "initialized"
    /\ current' = [id |-> round, built |-> TRUE]
    /\ loop' = "built"
    /\ UNCHANGED <<session, forfeits, numBoarding, boardingSigs>>
    /\ UNCHANGED <<roundVars, watcher, signal, announcing, req, clientVars>>

\* The tree is signed and the event saved.  The clients learn of it from its
\* projection, not at all if the save fails, which is only logged.
StartFinalization ==
    /\ loop = "built"
    /\ loop' = "finalization"
    /\ \/ announcing' = announcing \cup {[id |-> round, intents |-> registered]}
       \/ "save" \in Faults /\ UNCHANGED announcing
    /\ UNCHANGED <<redisVars, roundVars, watcher, signal, req, clientVars>>

\* propagateEvents: the connectors are sent to those the store now assigns them to,
\* and nothing is sent if there should be an assignment and there is none.
Hears(i, event) ==
    /\ i \in event.intents
    /\ event.id > told[i]
    /\ \/ forfeits.batch = event.id
       \/ i \in Boarder /\ (forfeits.batch # 0 \/ event.intents \cap Forfeiter = {})

PropagateEvents(event) ==
    /\ event \in announcing
    /\ announcing' = announcing \ {event}
    /\ told' = [i \in Intent |-> IF Hears(i, event) THEN event.id ELSE told[i]]
    /\ UNCHANGED <<redisVars, loop, roundVars, watcher, signal, req>>
    /\ UNCHANGED <<settled, served, convicted>>

-----------------------------------------------------------------------------
(* finalizeRound.                                                          *)

\* Signatures are waited for if any are needed.
StartWaiting ==
    /\ loop = "finalization"
    /\ loop' = IF forfeits.need # {} \/ numBoarding > 0 THEN "waiting" ELSE "ready"
    /\ UNCHANGED <<redisVars, roundVars, watcher, signal, announcing, req, clientVars>>

WakeOnSignal ==
    /\ loop = "waiting"
    /\ signal
    /\ signal' = FALSE
    /\ woken' = "signal"
    /\ loop' = "woken"
    /\ UNCHANGED <<redisVars, round, selected, registered, collected, attached>>
    /\ UNCHANGED <<watcher, announcing, req, clientVars>>

WakeOnTimeout ==
    /\ loop = "waiting"
    /\ woken' = "timer"
    /\ loop' = "woken"
    /\ UNCHANGED <<redisVars, round, selected, registered, collected, attached>>
    /\ UNCHANGED <<watcher, signal, announcing, req, clientVars>>

\* Those whose forfeit is missing are convicted and the round fails.
CheckUnsigned ==
    /\ loop = "woken"
    /\ \/ /\ MissingForfeits = {}
          /\ loop' = "signed"
          /\ UNCHANGED convicted
       \/ /\ MissingForfeits # {}
          /\ loop' = "start"
          /\ convicted' = convicted \cup {<<round, i>> : i \in MissingForfeits}
    /\ UNCHANGED <<redisVars, roundVars, watcher, signal, announcing, req>>
    /\ UNCHANGED <<told, settled, served>>

PopForfeits ==
    /\ loop = "signed"
    /\ collected' = forfeits.signed
    /\ forfeits' = NoForfeits
    /\ loop' = "collected"
    /\ UNCHANGED <<current, session, numBoarding, boardingSigs>>
    /\ UNCHANGED <<round, selected, registered, woken, attached>>
    /\ UNCHANGED <<watcher, signal, announcing, req, clientVars>>

AttachSignatures ==
    /\ loop = "collected"
    /\ attached' = boardingSigs[round]
    /\ loop' = "ready"
    /\ UNCHANGED <<redisVars, round, selected, registered, woken, collected>>
    /\ UNCHANGED <<watcher, signal, announcing, req, clientVars>>

\* The wallet signs, and fails if a boarding input has no signature.
Broadcast ==
    /\ loop = "ready"
    /\ registered \cap Boarder \subseteq attached
    /\ settled' = settled \cup registered
    /\ loop' = "broadcast"
    /\ UNCHANGED <<redisVars, roundVars, watcher, signal, announcing, req>>
    /\ UNCHANGED <<told, served, convicted>>

EndRound ==
    /\ loop = "broadcast"
    /\ loop' = "start"
    /\ UNCHANGED <<redisVars, roundVars, watcher, signal, announcing, req, clientVars>>

\* A call to the builder, the wallet, the signer or the cache fails, or the tree is not
\* signed.  The round is failed in memory only: the cache keeps it as it was.
FailRound ==
    /\ loop \in {"confirmed", "registered", "initialized", "built",
                 "finalization", "woken", "signed", "collected", "ready"}
    /\ loop' = "start"
    /\ UNCHANGED <<redisVars, roundVars, watcher, signal, announcing, req, clientVars>>

-----------------------------------------------------------------------------
(* The handlers of the clients' signatures.  A client signs for the last   *)
(* batch it was told of.                                                   *)

Go(i, step) == req' = [req EXCEPT ![i].step = step]
Return(i)   == req' = [req EXCEPT ![i] = NoRequest]

InTime(i) == told[i] = round /\ loop \in {"finalization", "waiting"}

\* SubmitForfeitTxs reads the current round, for the txid the check will use, ...
SubmitForfeitTxs(i) ==
    /\ i \in Forfeiter
    /\ req[i].step = "idle"
    /\ told[i] # 0
    /\ "late" \in Faults \/ InTime(i)
    /\ req' = [req EXCEPT ![i] = [step |-> "bind", batch |-> told[i], count |-> 0,
                                  tx |-> IF current.built THEN current.id ELSE 0]]
    /\ UNCHANGED <<redisVars, loop, roundVars, watcher, signal, announcing, clientVars>>

\* ... verifies the forfeits against the batch in the store, ...
BindForfeits(i) ==
    /\ req[i].step = "bind"
    /\ \/ forfeits.batch = req[i].batch /\ Go(i, "commit")
       \/ forfeits.batch # req[i].batch /\ Return(i)
    /\ UNCHANGED <<redisVars, loop, roundVars, watcher, signal, announcing, clientVars>>

\* Mutant: the batch is not compared again in the transaction.
CommitForfeitsUnbound(i) ==
    /\ req[i].step = "commit"
    /\ forfeits' = [forfeits EXCEPT !.signed[i] = req[i].batch]
    /\ served' = served \cup {<<req[i].batch, i>>}
    /\ Go(i, "check")
    /\ UNCHANGED <<current, session, numBoarding, boardingSigs>>
    /\ UNCHANGED <<loop, roundVars, watcher, signal, announcing, told, settled, convicted>>

\* Mutant: the hash is written as a whole.
CommitForfeitsAlone(i) ==
    /\ req[i].step = "commit"
    /\ forfeits.batch = req[i].batch
    /\ forfeits' = [forfeits EXCEPT !.signed = [Unsigned EXCEPT ![i] = req[i].batch]]
    /\ served' = served \cup {<<req[i].batch, i>>}
    /\ Go(i, "check")
    /\ UNCHANGED <<current, session, numBoarding, boardingSigs>>
    /\ UNCHANGED <<loop, roundVars, watcher, signal, announcing, told, settled, convicted>>

\* ... and writes them if the batch is still the same.
CommitForfeits(i) ==
    /\ req[i].step = "commit"
    /\ \/ /\ forfeits.batch = req[i].batch
          /\ forfeits' = [forfeits EXCEPT !.signed[i] = req[i].batch]
          /\ served' = served \cup {<<req[i].batch, i>>}
          /\ Go(i, "check")
       \/ /\ forfeits.batch # req[i].batch
          /\ Return(i)
          /\ UNCHANGED <<forfeits, served>>
    /\ UNCHANGED <<current, session, numBoarding, boardingSigs>>
    /\ UNCHANGED <<loop, roundVars, watcher, signal, announcing, told, settled, convicted>>

\* SignCommitmentTx verifies the signatures against the current commitment tx, ...
SignCommitmentTx(i) ==
    /\ i \in Boarder
    /\ req[i].step = "idle"
    /\ told[i] # 0
    /\ "late" \in Faults \/ InTime(i)
    /\ current.built /\ current.id = told[i]
    /\ req' = [req EXCEPT ![i] = [NoRequest EXCEPT !.step = "sign", !.tx = current.id]]
    /\ UNCHANGED <<redisVars, loop, roundVars, watcher, signal, announcing, clientVars>>

\* ... and adds them to those of that tx.
AddSignatures(i) ==
    /\ req[i].step = "sign"
    /\ boardingSigs' = [boardingSigs EXCEPT ![req[i].tx] = @ \cup {i}]
    /\ Go(i, "check")
    /\ UNCHANGED <<current, session, forfeits, numBoarding>>
    /\ UNCHANGED <<loop, roundVars, watcher, signal, announcing, clientVars>>

\* checkForfeitsAndBoardingSigsSent, in a goroutine of its own.
GetSignatures(i) ==
    /\ req[i].step = "check"
    /\ req' = [req EXCEPT ![i].step = "counted", ![i].count = Cardinality(boardingSigs[req[i].tx])]
    /\ UNCHANGED <<redisVars, loop, roundVars, watcher, signal, announcing, clientVars>>

GetBoardingInputs(i) ==
    /\ req[i].step = "counted"
    /\ \/ req[i].count = numBoarding /\ Go(i, "matched")
       \/ req[i].count # numBoarding /\ Return(i)
    /\ UNCHANGED <<redisVars, loop, roundVars, watcher, signal, announcing, clientVars>>

\* Mutant: only the boarding signatures are compared.
AllSignedSkipped(i) ==
    /\ req[i].step = "matched"
    /\ Go(i, "send")
    /\ UNCHANGED <<redisVars, loop, roundVars, watcher, signal, announcing, clientVars>>

\* An empty store has all its forfeits.
AllSigned(i) ==
    /\ req[i].step = "matched"
    /\ \/ MissingForfeits = {} /\ Go(i, "send")
       \/ MissingForfeits # {} /\ Return(i)
    /\ UNCHANGED <<redisVars, loop, roundVars, watcher, signal, announcing, clientVars>>

\* Mutant: nothing is sent if nobody waits yet.
SendSignalUnbuffered(i) ==
    /\ req[i].step = "send"
    /\ signal' = (signal \/ loop = "waiting")
    /\ Return(i)
    /\ UNCHANGED <<redisVars, loop, roundVars, watcher, announcing, clientVars>>

\* The channel holds one value, and is the one of the round that now runs.
SendSignal(i) ==
    /\ req[i].step = "send"
    /\ loop # "closed"
    /\ signal' = TRUE
    /\ Return(i)
    /\ UNCHANGED <<redisVars, loop, roundVars, watcher, announcing, clientVars>>

-----------------------------------------------------------------------------
(* The process ends and starts again, with what Redis holds.               *)

Restart ==
    /\ loop' = "start" /\ selected' = {} /\ registered' = {} /\ woken' = "no"
    /\ collected' = Unsigned /\ attached' = {}
    /\ watcher' = "polling" /\ signal' = FALSE /\ announcing' = {}
    /\ req' = [i \in Intent |-> NoRequest]
    /\ UNCHANGED <<redisVars, round, clientVars>>

Crash == "crash" \in Faults /\ Restart

\* A send on the channel between its close and its replacement ends the process.
SendOnClosed(i) == req[i].step = "send" /\ loop = "closed" /\ Restart

-----------------------------------------------------------------------------
RoundStep ==
    \/ ResetForfeits \/ ResetSession \/ DeleteSignatures \/ DenyRound \/ NewRound
    \/ CloseChannel \/ MakeChannel \/ LoopStops
    \/ Abort \/ SelectIntents \/ InitSession
    \/ ConfirmationTimeout \/ ConfirmationCompleted \/ RegisterIntents
    \/ InitForfeits \/ UpsertCommitmentTx \/ StartFinalization
    \/ StartWaiting \/ WakeOnSignal \/ WakeOnTimeout \/ CheckUnsigned \/ PopForfeits
    \/ AttachSignatures \/ Broadcast \/ EndRound \/ FailRound

HandlerStep(i) ==
    \/ BindForfeits(i) \/ CommitForfeits(i) \/ AddSignatures(i)
    \/ GetSignatures(i) \/ GetBoardingInputs(i) \/ AllSigned(i) \/ SendSignal(i)

ClientStep(i) ==
    \/ ConfirmRegistration(i) \/ SubmitForfeitTxs(i) \/ SignCommitmentTx(i)

Next ==
    \/ RoundStep
    \/ \E i \in Intent : HandlerStep(i) \/ ClientStep(i) \/ SendOnClosed(i)
    \/ WatchSessionCompletion
    \/ \E event \in announcing : PropagateEvents(event)
    \/ Crash

Spec == Init /\ [][Next]_vars

\* The round goroutine goes on: an error of a call is no obligation, except the wallet's
\* when a boarding signature is missing.  The timer of the last wait is counted on only
\* when something is missing: otherwise the channel has to end the wait.
RoundProgress ==
    \/ ResetForfeits \/ ResetSession \/ DeleteSignatures \/ DenyRound \/ NewRound
    \/ CloseChannel \/ MakeChannel
    \/ Abort \/ SelectIntents \/ InitSession
    \/ ConfirmationTimeout \/ ConfirmationCompleted \/ RegisterIntents
    \/ InitForfeits \/ UpsertCommitmentTx \/ StartFinalization
    \/ StartWaiting \/ WakeOnSignal \/ (WakeOnTimeout /\ ~AllSent) \/ CheckUnsigned
    \/ PopForfeits \/ AttachSignatures \/ Broadcast \/ EndRound
    \/ FailRound /\ loop = "ready" /\ ~ (registered \cap Boarder \subseteq attached)

FairSpec ==
    /\ Spec
    /\ WF_vars(RoundProgress)
    /\ \A i \in Intent : WF_vars(HandlerStep(i))

-----------------------------------------------------------------------------
(* Properties.                                                             *)

\* Every variable has its type.
TypeOK ==
    /\ current \in CurrentRound /\ session \in Session /\ forfeits \in Forfeits
    /\ numBoarding \in Nat
    /\ boardingSigs \in [RoundOrNone -> SUBSET Intent]
    /\ loop \in Step /\ round \in RoundOrNone
    /\ selected \subseteq Intent /\ registered \subseteq Intent
    /\ woken \in {"no", "signal", "timer"}
    /\ collected \in [Intent -> RoundOrNone] /\ attached \subseteq Intent
    /\ watcher \in {"polling", "sending", "closed"}
    /\ signal \in BOOLEAN
    /\ announcing \subseteq Event
    /\ req \in [Intent -> Request]
    /\ told \in [Intent -> RoundOrNone]
    /\ settled \subseteq Intent
    /\ served \subseteq RoundOrNone \X Intent
    /\ convicted \subseteq RoundOrNone \X Intent

\* A commitment tx is broadcast only with a forfeit of every vtxo of the batch that
\* needs one, made for this very batch: one that a late handler verified against the
\* connectors of an earlier batch is never among them (collectForfeitTxs, Sign).
BroadcastCovered ==
    loop = "broadcast" => \A i \in registered \cap Forfeiter : collected[i] = round

\* Only intents whose owner confirmed them in the session of this round take part in
\* the batch, whichever of the timer and the watcher ended the wait
\* (startConfirmation).
ConfirmedOnly ==
    registered # {} => session.id = round /\ registered \subseteq session.confirmed

\* A client whose forfeit the server accepted for a batch is not convicted afterwards
\* for a missing forfeit in that batch (SubmitForfeitTxs, banForfeitCollectionTimeout).
ServedNotConvicted == [][\A c \in convicted' \ convicted : c \notin served]_vars

\* If the channel ends the wait of finalizeRound, every forfeit and every boarding
\* signature of the batch is there: the server does not convict early.
WokenMeansAll == loop = "woken" /\ woken = "signal" => AllSent

\* Every round ends, and the next one starts.  When all the signatures have been sent
\* it is the channel that wakes the server: no wake-up is lost between the checks of
\* concurrent handlers.
RoundsEnd == loop # "start" ~> loop = "start"
=============================================================================
