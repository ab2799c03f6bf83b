---------------------------- MODULE EventBroker ----------------------------
(***************************************************************************)
(* One listener of the broker that hands events to the streams of clients  *)
(* (internal/interface/grpc/handlers).                                     *)
(*                                                                         *)
(* A subscription of the indexer is created by SubscribeForScripts or, in  *)
(* line, by GetSubscription.  Streams attach to it by its id, one at a     *)
(* time: a new one displaces the old one.  Without a stream it is kept for *)
(* a while, and a timer removes it.  Any request that knows the id may     *)
(* change its filters or remove it.  The listener of GetEventStream lives  *)
(* as long as its only stream.                                             *)
(*                                                                         *)
(* A step is one critical section of the broker's lock, one operation on a *)
(* channel, or one select.  Topics are abstracted to whether there are any *)
(* (for GetEventStream, any that the events with a topic have).  A look-up *)
(* of the listener is merged with the change that follows: a listener that *)
(* is removed in between is read by nobody.  GetTransactionsStream is      *)
(* GetEventStream with batches of one plain event.                         *)
(***************************************************************************)
EXTENDS Naturals, Sequences, FiniteSets, Functions

CONSTANTS
    Stream,    \* calls of GetSubscription or GetEventStream, in the order they arrive
    Request,   \* calls that change or remove the subscription, likewise
    Batch,     \* numbers of the batches of events
    Events,    \* the events of each batch, in order
    Plain,     \* events without a topic
    Capacity,  \* how many events the channel of the listener holds
    Kinds      \* how the listener comes to be, in the behaviours to consider

Event == UNION {Range(Events[b]) : b \in Batch}
Timer == 1 .. Cardinality(Stream) + 1
Nobody == 0

ASSUME BrokerAssumption ==
    /\ IsFiniteSet(Stream) /\ Stream \subseteq Nat \ {0}
    /\ Request \subseteq Nat /\ Batch \subseteq Nat /\ Capacity \in Nat
    /\ Kinds \subseteq {"scripts", "inline", "events"}

\* An event happens once.
ASSUME EventsAssumption ==
    /\ Events \in [Batch -> Seq(Event)]
    /\ \A b, c \in Batch : \A i \in DOMAIN Events[b], j \in DOMAIN Events[c] :
           Events[b][i] = Events[c][j] => b = c /\ i = j

VARIABLES
    kind,      \* how this listener comes to be
    \* broker and listener
    entry,     \* "none", "live", or how it was removed
    creating,  \* the creation goes on, and nobody else knows the id
    owner,     \* the stream that created it
    scripts,   \* the listener has topics
    filters,   \* it has tx filters
    done,      \* its channel done is closed
    ch,        \* its channel of events
    attached,  \* the stream that holds it
    displaced, \* streams told that another one took over
    timer,     \* its current timer, 0 if there is none
    timers,    \* number of timers started
    armed,     \* timers that run
    fired,     \* timers whose callback waits for the lock
    \* streams and requests
    stream,    \* step of each stream
    gone,      \* streams whose client is gone
    req,       \* what each request still has to do
    \* delivery
    todo,      \* events each delivering goroutine still has to send
    next,      \* next batch
    \* history
    taken,     \* events each stream of GetEventStream took from the channel
    late,      \* how many a stream took after it was displaced or the listener removed
    skipped    \* events that no topic matched

listenerVars == <<entry, creating, owner, scripts, filters, done>>
holdVars == <<attached, displaced, timer, timers, armed, fired>>
clientVars == <<stream, gone, req>>
eventVars == <<ch, todo, next, taken, late, skipped>>
vars == <<kind, listenerVars, holdVars, clientVars, eventVars>>

Init ==
    /\ kind \in Kinds
    /\ entry = "none" /\ creating = FALSE /\ owner = Nobody
    /\ scripts = FALSE /\ filters = FALSE /\ done = FALSE
    /\ attached = Nobody /\ displaced = {}
    /\ timer = 0 /\ timers = 0 /\ armed = {} /\ fired = {}
    /\ stream = [s \in Stream |-> "idle"] /\ gone = {}
    /\ req = [r \in Request |-> <<"idle">>]
    /\ ch = <<>> /\ todo = [b \in Batch |-> <<>>] /\ next = 1
    /\ taken = [s \in Stream |-> <<>>] /\ late = [s \in Stream |-> 0] /\ skipped = {}

-----------------------------------------------------------------------------
(* The broker.                                                             *)

\* scheduleExpiryLocked: a new timer takes the place of the current one.
Arm ==
    /\ timers' = timers + 1 /\ timer' = timers + 1
    /\ armed' = (armed \ {timer}) \cup {timers + 1}

\* The listener leaves the broker, and whoever waits on it is told.
Discard(how) == entry' = how /\ done' = TRUE

\* attach: the timer is stopped, the stream that holds the listener displaced.
Attach(s) ==
    /\ timer' = 0 /\ armed' = armed \ {timer}
    /\ displaced' = displaced \cup ({attached} \ {Nobody})
    /\ attached' = s
    /\ UNCHANGED <<timers, fired>>

Go(s, step) == stream' = [stream EXCEPT ![s] = step]

\* Others know the id once the creation has returned it.
Known == entry # "none" /\ ~creating

-----------------------------------------------------------------------------
(* Creation.                                                               *)

SubscribeForScripts ==
    /\ kind = "scripts" /\ entry = "none"
    /\ entry' = "live" /\ scripts' = TRUE /\ creating' = TRUE
    /\ UNCHANGED <<kind, owner, filters, done, holdVars, clientVars, eventVars>>

\* startTimeout
StartTimeout ==
    /\ kind = "scripts" /\ creating
    /\ creating' = FALSE
    /\ IF entry = "live" /\ attached = Nobody THEN Arm ELSE UNCHANGED <<timers, timer, armed>>
    /\ UNCHANGED <<kind, entry, owner, scripts, filters, done>>
    /\ UNCHANGED <<attached, displaced, fired, clientVars, eventVars>>

\* GetSubscription without an id creates the listener ...
GetSubscriptionInline(s) ==
    /\ kind = "inline" /\ entry = "none"
    /\ entry' = "live" /\ creating' = TRUE /\ owner' = s
    /\ Go(s, "opening")
    /\ UNCHANGED <<kind, scripts, filters, done, holdVars, gone, req, eventVars>>

\* ... attaches to it ...
AttachInline(s) ==
    /\ stream[s] = "opening"
    /\ Attach(s)
    /\ Go(s, "initial")
    /\ UNCHANGED <<kind, listenerVars, gone, req, eventVars>>

\* ... and applies the filter of the request before it tells the id.
applyInitialFilter(s) ==
    /\ stream[s] = "initial"
    /\ filters' \in BOOLEAN /\ scripts' \in BOOLEAN
    /\ \/ creating' = FALSE /\ Go(s, "loop")
       \/ UNCHANGED creating /\ Go(s, "exit")
    /\ UNCHANGED <<kind, entry, owner, done, holdVars, gone, req, eventVars>>

\* GetEventStream has no id to attach to.
GetEventStream(s) ==
    /\ kind = "events" /\ entry = "none"
    /\ entry' = "live" /\ owner' = s
    /\ scripts' \in BOOLEAN
    /\ Go(s, "select") \/ Go(s, "exit")
    /\ UNCHANGED <<kind, creating, filters, done, holdVars, gone, req, eventVars>>

-----------------------------------------------------------------------------
(* Streams.                                                                *)

\* Mutant: the stream that is attached is not told.
GetSubscriptionShared(s) ==
    /\ kind # "events" /\ Known /\ stream[s] = "idle"
    /\ \/ /\ entry = "live"
          /\ timer' = 0 /\ armed' = armed \ {timer} /\ attached' = s
          /\ Go(s, "loop")
          /\ UNCHANGED <<displaced, timers, fired>>
       \/ entry # "live" /\ Go(s, "ended") /\ UNCHANGED holdVars
    /\ UNCHANGED <<kind, listenerVars, gone, req, eventVars>>

GetSubscription(s) ==
    /\ kind # "events" /\ Known /\ stream[s] = "idle"
    /\ \/ entry = "live" /\ Attach(s) /\ Go(s, "loop")
       \/ entry # "live" /\ Go(s, "ended") /\ UNCHANGED holdVars
    /\ UNCHANGED <<kind, listenerVars, gone, req, eventVars>>

Cancel(s) ==
    /\ stream[s] \in {"loop", "select"} /\ s \notin gone
    /\ gone' = gone \cup {s}
    /\ UNCHANGED <<kind, listenerVars, holdVars, stream, req, eventVars>>

\* The signals that end a stream.
Told(s) == s \in gone \cup displaced \/ done

\* Mutant: there is no first select.
FirstSelectSkipped(s) ==
    /\ stream[s] = "loop"
    /\ Go(s, "select")
    /\ UNCHANGED <<kind, listenerVars, holdVars, gone, req, eventVars>>

\* The first select does not wait: a signal that is there ends the stream.
FirstSelect(s) ==
    /\ stream[s] = "loop"
    /\ Go(s, IF Told(s) THEN "exit" ELSE "select")
    /\ UNCHANGED <<kind, listenerVars, holdVars, gone, req, eventVars>>

\* The second one waits, and takes whichever is there.  A heartbeat that is sent leads
\* back here, one that is not ends the stream as its client does.
SelectSignal(s) ==
    /\ stream[s] = "select" /\ Told(s)
    /\ Go(s, "exit")
    /\ UNCHANGED <<kind, listenerVars, holdVars, gone, req, eventVars>>

\* GetEventStream has only the second select.  To send fails if the client is gone.
SelectEvent(s) ==
    /\ stream[s] = "select" /\ ch # <<>>
    /\ ch' = Tail(ch)
    /\ taken' = [taken EXCEPT ![s] = IF kind = "events" THEN Append(@, Head(ch)) ELSE @]
    /\ late' = [late EXCEPT ![s] = IF done \/ s \in displaced THEN @ + 1 ELSE @]
    /\ Go(s, IF s \in gone THEN "exit" ELSE IF kind = "events" THEN "select" ELSE "loop")
    /\ UNCHANGED <<kind, listenerVars, holdVars, gone, req, todo, next, skipped>>

\* Mutant: a subscription without a stream is kept for good.
ReleaseKeeps(s) ==
    /\ stream[s] = "exit"
    /\ Go(s, "ended")
    /\ IF entry = "live" /\ attached = s
       THEN attached' = Nobody ELSE UNCHANGED attached
    /\ UNCHANGED <<kind, entry, done, timer, timers, armed>>
    /\ UNCHANGED <<creating, owner, scripts, filters, displaced, fired, gone, req, eventVars>>

\* release: the stream that created the subscription leaves nothing behind, the others
\* leave it for a client that comes back.  GetEventStream calls removeListener.
Release(s) ==
    /\ stream[s] = "exit"
    /\ Go(s, "ended")
    /\ \/ /\ kind = "events"
          /\ Discard("released")
          /\ UNCHANGED <<attached, timer, timers, armed>>
       \/ /\ kind # "events" /\ entry = "live" /\ attached = s
          /\ attached' = Nobody
          /\ IF s # owner /\ (scripts \/ filters)
             THEN Arm /\ UNCHANGED <<entry, done>>
             ELSE Discard("released") /\ UNCHANGED <<timer, timers, armed>>
       \/ /\ kind # "events" /\ ~(entry = "live" /\ attached = s)
          /\ UNCHANGED <<entry, done, attached, timer, timers, armed>>
    /\ UNCHANGED <<kind, creating, owner, scripts, filters, displaced, fired>>
    /\ UNCHANGED <<gone, req, eventVars>>

-----------------------------------------------------------------------------
(* Timers.  One that fired can no longer be stopped; its callback has to   *)
(* wait for the lock.                                                      *)

Fire(t) ==
    /\ t \in armed
    /\ armed' = armed \ {t} /\ fired' = fired \cup {t}
    /\ UNCHANGED <<kind, listenerVars, attached, displaced, timer, timers, clientVars, eventVars>>

\* Mutant: the callback does not ask whether it is still the current timer.
ExpireAny(t) ==
    /\ t \in fired
    /\ fired' = fired \ {t}
    /\ IF entry = "live" THEN Discard("expired") ELSE UNCHANGED <<entry, done>>
    /\ UNCHANGED <<kind, creating, owner, scripts, filters>>
    /\ UNCHANGED <<attached, displaced, timer, timers, armed, clientVars, eventVars>>

Expire(t) ==
    /\ t \in fired
    /\ fired' = fired \ {t}
    /\ IF entry = "live" /\ timer = t THEN Discard("expired") ELSE UNCHANGED <<entry, done>>
    /\ UNCHANGED <<kind, creating, owner, scripts, filters>>
    /\ UNCHANGED <<attached, displaced, timer, timers, armed, clientVars, eventVars>>

-----------------------------------------------------------------------------
(* Requests.  Each is a sequence of critical sections: SubscribeForScripts *)
(* with an id, UnsubscribeForScripts, UpdateSubscription (applyFilter) and *)
(* UpdateStreamTopics.                                                     *)

Calls ==
    IF kind = "events"
    THEN {<<"overwrite">>, <<"add">>, <<"remove">>, <<"add", "remove">>}
    ELSE {<<"add">>, <<"remove">>, <<"clear", "check", "drop">>}
           \cup {<<"filters">> \o c : c \in {<<>>, <<"add">>, <<"remove">>, <<"add", "remove">>, <<"clear">>}}

Call(r) ==
    /\ Known /\ req[r] = <<"idle">>
    /\ \E c \in Calls : req' = [req EXCEPT ![r] = c]
    /\ UNCHANGED <<kind, listenerVars, holdVars, stream, gone, eventVars>>

\* An error, one of a limit on topics included, ends the request.
Proceed(r) == req' = [req EXCEPT ![r] = Tail(@)]
Fail(r) == req' = [req EXCEPT ![r] = <<>>]
Turn(r, step) == req[r] # <<>> /\ Head(req[r]) = step

NotFound(r) ==
    /\ req[r] \notin {<<>>, <<"idle">>} /\ entry # "live"
    /\ Fail(r)
    /\ UNCHANGED <<kind, listenerVars, holdVars, stream, gone, eventVars>>

ChangeTopics(r) ==
    /\ entry = "live"
    /\ \/ Turn(r, "add") /\ Proceed(r) /\ scripts' \in {scripts, TRUE}
       \/ Turn(r, "remove") /\ Proceed(r) /\ scripts' \in {scripts, FALSE}
       \/ Turn(r, "overwrite") /\ Proceed(r) /\ scripts' \in BOOLEAN
       \/ Turn(r, "clear") /\ Proceed(r) /\ scripts' = FALSE
       \/ (Turn(r, "add") \/ Turn(r, "overwrite")) /\ Fail(r) /\ UNCHANGED scripts
    /\ UNCHANGED <<kind, entry, creating, owner, filters, done, holdVars, stream, gone, eventVars>>

installTxFilters(r) ==
    /\ entry = "live" /\ Turn(r, "filters")
    /\ filters' \in BOOLEAN
    /\ Proceed(r)
    /\ UNCHANGED <<kind, entry, creating, owner, scripts, done, holdVars, stream, gone, eventVars>>

getTxFilters(r) ==
    /\ entry = "live" /\ Turn(r, "check")
    /\ IF filters THEN Fail(r) ELSE Proceed(r)
    /\ UNCHANGED <<kind, listenerVars, holdVars, stream, gone, eventVars>>

removeListener(r) ==
    /\ entry = "live" /\ Turn(r, "drop")
    /\ Discard("unsubscribed")
    /\ armed' = armed \ {timer}
    /\ Proceed(r)
    /\ UNCHANGED <<kind, creating, owner, scripts, filters>>
    /\ UNCHANGED <<attached, displaced, timer, timers, fired, stream, gone, eventVars>>

-----------------------------------------------------------------------------
(* Delivery.                                                               *)

\* One goroutine for each listener of the copy and each batch.  A subscription gets one
\* event, if its filters match it.
Broadcast ==
    /\ next \in Batch
    /\ next' = next + 1
    /\ IF entry # "live" THEN UNCHANGED todo
       ELSE \/ /\ kind = "events"
               /\ todo' = [todo EXCEPT ![next] = Events[next]]
            \/ /\ kind # "events" /\ (scripts \/ filters)
               /\ todo' = [todo EXCEPT ![next] = <<Head(Events[next])>>]
            \/ kind # "events" /\ UNCHANGED todo
    /\ UNCHANGED <<kind, listenerVars, holdVars, clientVars, ch, taken, late, skipped>>

Stop(b) == todo' = [todo EXCEPT ![b] = <<>>]
Continue(b) == todo' = [todo EXCEPT ![b] = Tail(@)]
Match(b) == kind # "events" \/ scripts \/ Head(todo[b]) \in Plain

\* includesAny
Skip(b) ==
    /\ todo[b] # <<>> /\ ~Match(b)
    /\ skipped' = skipped \cup {Head(todo[b])}
    /\ Continue(b)
    /\ UNCHANGED <<kind, listenerVars, holdVars, clientVars, ch, next, taken, late>>

\* Mutant: a goroutine for each event.
DeliverAnyOrder(b) ==
    /\ todo[b] # <<>> /\ Match(b) /\ Len(ch) < Capacity
    /\ \E i \in DOMAIN todo[b] :
           /\ ch' = Append(ch, todo[b][i])
           /\ todo' = [todo EXCEPT ![b] = SubSeq(@, 1, i - 1) \o SubSeq(@, i + 1, Len(@))]
    /\ UNCHANGED <<kind, listenerVars, holdVars, clientVars, next, taken, late, skipped>>

Deliver(b) ==
    /\ todo[b] # <<>> /\ Match(b) /\ Len(ch) < Capacity
    /\ ch' = Append(ch, Head(todo[b]))
    /\ Continue(b)
    /\ UNCHANGED <<kind, listenerVars, holdVars, clientVars, next, taken, late, skipped>>

\* The event of a subscription is dropped when the channel is full.
Drop(b) ==
    /\ kind # "events" /\ todo[b] # <<>> /\ Len(ch) = Capacity
    /\ Continue(b)
    /\ UNCHANGED <<kind, listenerVars, holdVars, clientVars, ch, next, taken, late, skipped>>

\* The goroutine of GetEventStream waits; it gives up once the stream is done ...
GiveUp(b) ==
    /\ kind = "events" /\ todo[b] # <<>> /\ Match(b) /\ done
    /\ Stop(b)
    /\ UNCHANGED <<kind, listenerVars, holdVars, clientVars, ch, next, taken, late, skipped>>

\* Mutant: the goroutine that waited too long does not end the stream.
TimeoutStops(b) ==
    /\ kind = "events" /\ todo[b] # <<>> /\ Match(b) /\ Len(ch) = Capacity
    /\ Stop(b)
    /\ UNCHANGED <<kind, listenerVars, holdVars, clientVars, ch, next, taken, late, skipped>>

\* ... and after a timeout, which ends the stream.
Timeout(b) ==
    /\ kind = "events" /\ todo[b] # <<>> /\ Match(b) /\ Len(ch) = Capacity
    /\ done' = TRUE
    /\ Stop(b)
    /\ UNCHANGED <<kind, entry, creating, owner, scripts, filters, holdVars, clientVars>>
    /\ UNCHANGED <<ch, next, taken, late, skipped>>

-----------------------------------------------------------------------------
Open(s) ==
    /\ \A q \in Stream : q < s => stream[q] # "idle"
    /\ GetSubscriptionInline(s) \/ GetEventStream(s) \/ GetSubscription(s)
StreamStep(s) ==
    \/ AttachInline(s) \/ applyInitialFilter(s)
    \/ FirstSelect(s) \/ SelectSignal(s) \/ SelectEvent(s) \/ Release(s)
TimerStep(t) == Fire(t) \/ Expire(t)
RequestStep(r) ==
    NotFound(r) \/ ChangeTopics(r) \/ installTxFilters(r) \/ getTxFilters(r) \/ removeListener(r)
DeliveryStep(b) == Skip(b) \/ Deliver(b) \/ Drop(b) \/ GiveUp(b) \/ Timeout(b)

ServerStep ==
    \/ StartTimeout
    \/ \E s \in Stream : StreamStep(s)
    \/ \E t \in Timer : TimerStep(t)
    \/ \E r \in Request : RequestStep(r)
    \/ \E b \in Batch : DeliveryStep(b)

Next ==
    \/ SubscribeForScripts \/ Broadcast \/ ServerStep
    \/ \E s \in Stream : Open(s) \/ Cancel(s)
    \/ \E r \in Request : (\A q \in Request : q < r => req[q] # <<"idle">>) /\ Call(r)

Spec == Init /\ [][Next]_vars

\* Behaviours are finite, so that it is enough that the server does not stop while it can go on.
\* Clients owe nothing, but that to send to one of them returns.
FairSpec == Spec /\ WF_vars(ServerStep)

-----------------------------------------------------------------------------
(* Properties.                                                             *)

Active(s) == stream[s] \in {"loop", "select"}
Ran(s) == stream[s] \in {"exit", "ended"}

\* Types.  Timers are as many as Release and StartTimeout can start, the channel never holds
\* more than its capacity, and done is closed once the listener is removed.
TypeOK ==
    /\ kind \in Kinds
    /\ entry \in {"none", "live", "released", "expired", "unsubscribed"}
    /\ creating \in BOOLEAN /\ owner \in Stream \cup {Nobody}
    /\ scripts \in BOOLEAN /\ filters \in BOOLEAN
    /\ done \in BOOLEAN /\ (entry \notin {"none", "live"} => done)
    /\ ch \in Seq(Event) /\ Len(ch) <= Capacity
    /\ attached \in Stream \cup {Nobody} /\ displaced \subseteq Stream
    /\ timer \in Timer \cup {0} /\ timers \in Timer \cup {0}
    /\ armed \subseteq Timer /\ fired \subseteq Timer /\ armed \cap fired = {}
    /\ stream \in [Stream -> {"idle", "opening", "initial", "loop", "select", "exit", "ended"}]
    /\ gone \subseteq Stream
    /\ \A r \in Request : req[r] = <<"idle">> \/ Len(req[r]) <= 3
    /\ \A b \in Batch : todo[b] \in Seq(Event)
    /\ next \in Nat /\ skipped \subseteq Event
    /\ \A s \in Stream : taken[s] \in Seq(Event) /\ late[s] \in Nat

\* attach makes "the calling stream the listener's sole consumer": while the subscription
\* exists, a stream that was not told to end is the one that holds it.
SoleConsumer ==
    \A s \in Stream :
        kind # "events" /\ Active(s) /\ entry = "live" /\ s \notin displaced => attached = s

\* "Two selects are intentional": a stream that was displaced, or whose subscription was
\* removed, takes at most one more event; the others are left to its successor.
LateTakesOne == \A s \in Stream : kind # "events" => late[s] <= 1

\* What a stream took of a batch: an event after those before it in the batch, except for
\* the ones that were skipped.
TakenInOrder(s, b) ==
    \A p \in DOMAIN taken[s], j \in DOMAIN Events[b] : taken[s][p] = Events[b][j] =>
        \A i \in 1 .. j - 1 : \/ Events[b][i] \in skipped
                              \/ \E q \in 1 .. p - 1 : taken[s][q] = Events[b][i]

\* "Ordering is preserved within a single batch": a stream of GetEventStream that takes an
\* event took those before it in the batch earlier, except for the ones it has no topic of.
BatchInOrder == kind = "events" => \A s \in Stream, b \in Batch : TakenInOrder(s, b)

\* "only the current timer may remove the listener": a timer that fired before a stream
\* attached does not remove the subscription from under it.
WatchedNotExpired ==
    [][entry = "live" /\ entry' = "expired" => attached = Nobody]_vars

\* Who the listener is kept for.
Watched == (IF kind = "events" THEN owner ELSE attached) \in Stream \ gone /\ ~done

\* No listener stays in the broker without a client: the broker holds a limited number of them.
Reaped == entry = "live" ~> entry # "live" \/ Watched

\* An event on its way to a stream of GetEventStream is taken, or no topic matches it, or the
\* stream ends: a client never misses one on a stream that goes on.
NoSilentLoss ==
    \A b \in Batch : \A i \in DOMAIN Events[b] :
        kind = "events" /\ Events[b][i] \in Range(todo[b])
            ~> \/ Events[b][i] \in skipped
               \/ \E s \in Stream : Events[b][i] \in Range(taken[s]) \/ Ran(s)
=============================================================================
