------------------------- MODULE EventBrokerProofs -------------------------
(***************************************************************************)
(* The theorems of EventBroker, for any number of streams, requests,       *)
(* timers and batches and any capacity of the channel.                     *)
(*                                                                         *)
(* HoldInv is the inductive invariant about who holds the listener, and    *)
(* OrderInv the one about the events of GetEventStream.  An event goes     *)
(* from the batch to the channel and from there to the stream; in each of  *)
(* the three places, the events before it in its batch are in front of it, *)
(* further on, or skipped.                                                 *)
(***************************************************************************)
EXTENDS EventBroker, TLAPS

\* Most leaves are first-order: Zenon is tried before SMT.
USE Zenon, SMT

HoldTypes ==
    /\ kind \in Kinds /\ owner \in Stream \cup {Nobody}
    /\ attached \in Stream \cup {Nobody} /\ displaced \subseteq Stream
    /\ timer \in Nat /\ timers \in Nat
    /\ stream \in [Stream -> {"idle", "opening", "initial", "loop", "select", "exit", "ended"}]
    /\ late \in [Stream -> Nat]

\* The stream that creates a subscription holds it before anybody else knows it; one that
\* took an event too many is told so in its next select; a timer runs for a subscription
\* that nobody holds.
StreamFacts ==
    \A s \in Stream :
        /\ stream[s] \in {"opening", "initial"} => kind = "inline" /\ creating /\ s = owner
        /\ stream[s] = "initial" => attached = s
        /\ kind = "events" => stream[s] # "loop" /\ (stream[s] = "select" => s = owner)
        /\ kind # "events" /\ late[s] # 0 =>
               \/ stream[s] \in {"exit", "ended"}
               \/ stream[s] = "loop" /\ (done \/ s \in displaced)

TimerFacts ==
    /\ entry = "none" => attached = Nobody /\ timer = 0 /\ \A s \in Stream : stream[s] = "idle"
    /\ entry = "live" /\ timer # 0 => attached = Nobody

HoldInv == HoldTypes /\ StreamFacts /\ TimerFacts /\ SoleConsumer /\ LateTakesOne

\* What the stream of GetEventStream took, and what is on its way to it.
InTaken(e) == \E p \in DOMAIN taken[owner] : taken[owner][p] = e
InChannel(e) == \E p \in DOMAIN ch : ch[p] = e

OrderTypes == ch \in Seq(Event) /\ todo \in [Batch -> Seq(Event)] /\ taken \in [Stream -> Seq(Event)]

\* What was taken was taken in order.
TakenFacts == \A s \in Stream, b \in Batch : TakenInOrder(s, b)

\* The events before one in the channel were skipped, or taken, or are in front of it.
ChannelFacts ==
    \A b \in Batch : \A p \in DOMAIN ch, j \in DOMAIN Events[b] :
        ch[p] = Events[b][j] =>
            \A i \in 1 .. j - 1 : \/ Events[b][i] \in skipped \/ InTaken(Events[b][i])
                                  \/ \E q \in 1 .. p - 1 : ch[q] = Events[b][i]

\* What a goroutine has to send is the end of its batch; the beginning was skipped, taken,
\* or is in the channel.
Sent(b) == Len(Events[b]) - Len(todo[b])
TodoFacts ==
    \A b \in Batch : todo[b] # <<>> =>
        /\ Sent(b) \in Nat
        /\ \A i \in 1 .. Len(todo[b]) : todo[b][i] = Events[b][Sent(b) + i]
        /\ \A i \in 1 .. Sent(b) : \/ Events[b][i] \in skipped
                                   \/ InTaken(Events[b][i]) \/ InChannel(Events[b][i])

OrderFacts == OrderTypes /\ TakenFacts /\ ChannelFacts /\ TodoFacts

OrderInv ==
    kind = "events" =>
        /\ OrderFacts
        /\ entry = "none" => /\ ch = <<>> /\ \A b \in Batch : todo[b] = <<>>
                             /\ \A s \in Stream : taken[s] = <<>>

-----------------------------------------------------------------------------
(* Who holds the listener.                                                 *)

\* The steps that change the listener, its holder, its timer or a stream.
HoldStep ==
    \/ SubscribeForScripts \/ StartTimeout
    \/ \E s \in Stream :
          \/ GetSubscriptionInline(s) \/ GetEventStream(s) \/ GetSubscription(s)
          \/ AttachInline(s) \/ applyInitialFilter(s)
          \/ FirstSelect(s) \/ SelectSignal(s) \/ SelectEvent(s) \/ Release(s)
    \/ \E t \in Timer : Expire(t)
    \/ \E r \in Request : removeListener(r)
    \/ \E b \in Batch : Timeout(b)

holdVariables == <<kind, entry, creating, owner, done, attached, displaced, timer, timers, stream, late>>

\* The others leave all of this alone.
LEMMA OtherHoldSteps ==
  ASSUME Next
  PROVE  HoldStep \/ UNCHANGED holdVariables
<1> USE DEF holdVariables, listenerVars, holdVars, clientVars, eventVars
<1>1. ASSUME NEW s \in Stream, Cancel(s)  PROVE UNCHANGED holdVariables
  BY <1>1 DEF Cancel
<1>2. ASSUME NEW t \in Timer, Fire(t)  PROVE UNCHANGED holdVariables
  BY <1>2 DEF Fire
<1>3. ASSUME NEW r \in Request,
             Call(r) \/ NotFound(r) \/ ChangeTopics(r) \/ installTxFilters(r) \/ getTxFilters(r)
      PROVE  UNCHANGED holdVariables
  BY Zenon, <1>3 DEF Call, NotFound, ChangeTopics, installTxFilters, getTxFilters
<1>4. ASSUME NEW b \in Batch, Skip(b) \/ Deliver(b) \/ Drop(b) \/ GiveUp(b)
      PROVE  UNCHANGED holdVariables
  BY <1>4 DEF Skip, Deliver, Drop, GiveUp
<1>5. CASE Broadcast  BY <1>5 DEF Broadcast
<1> HIDE DEF holdVariables
<1> QED
  BY <1>1, <1>2, <1>3, <1>4, <1>5
  DEF Next, ServerStep, Open, StreamStep, TimerStep, RequestStep, DeliveryStep, HoldStep

\* A stream changes its step alone.
LEMMA Going ==
  ASSUME HoldTypes, NEW s \in Stream, NEW step, Go(s, step)
  PROVE  \A q \in Stream : stream'[q] = IF q = s THEN step ELSE stream[q]
  BY DEF Go, HoldTypes

\* The types of what the streams and the broker share.
LEMMA HoldTypesKept ==
  ASSUME HoldInv, Next
  PROVE  HoldTypes'
<1>0. HoldTypes  BY DEF HoldInv
<1> USE <1>0 DEF HoldTypes, listenerVars, holdVars, clientVars, eventVars, Go, Arm, Attach
<1>1. CASE SubscribeForScripts  BY <1>1 DEF SubscribeForScripts
<1>2. CASE StartTimeout  BY SMT, <1>2 DEF StartTimeout
<1>3. ASSUME NEW s \in Stream, GetSubscriptionInline(s)  PROVE HoldTypes'
  BY <1>3 DEF GetSubscriptionInline
<1>4. ASSUME NEW s \in Stream, GetEventStream(s)  PROVE HoldTypes'
  BY <1>4 DEF GetEventStream
<1>5. ASSUME NEW s \in Stream, GetSubscription(s)  PROVE HoldTypes'
  BY SMT, <1>5 DEF GetSubscription
<1>6. ASSUME NEW s \in Stream, AttachInline(s)  PROVE HoldTypes'
  BY <1>6 DEF AttachInline
<1>7. ASSUME NEW s \in Stream, applyInitialFilter(s)  PROVE HoldTypes'
  BY <1>7 DEF applyInitialFilter
<1>8. ASSUME NEW s \in Stream, FirstSelect(s) \/ SelectSignal(s)  PROVE HoldTypes'
  BY <1>8 DEF FirstSelect, SelectSignal
<1>9. ASSUME NEW s \in Stream, SelectEvent(s)  PROVE HoldTypes'
  BY SMT, <1>9 DEF SelectEvent
<1>10. ASSUME NEW s \in Stream, Release(s)  PROVE HoldTypes'
  BY SMT, <1>10 DEF Release
<1>11. ASSUME NEW t \in Timer, Expire(t)  PROVE HoldTypes'
  BY <1>11 DEF Expire
<1>12. ASSUME NEW r \in Request, removeListener(r)  PROVE HoldTypes'
  BY <1>12 DEF removeListener
<1>13. ASSUME NEW b \in Batch, Timeout(b)  PROVE HoldTypes'
  BY <1>13 DEF Timeout
<1>14. CASE UNCHANGED holdVariables  BY <1>14 DEF holdVariables
<1> QED
  BY OtherHoldSteps, <1>1, <1>2, <1>3, <1>4, <1>5, <1>6, <1>7, <1>8, <1>9, <1>10, <1>11, <1>12, <1>13,
     <1>14 DEF HoldStep

\* A timer runs only for a subscription that nobody holds.
LEMMA TimerFactsKept ==
  ASSUME HoldInv, Next
  PROVE  TimerFacts'
<1>0. HoldTypes /\ TimerFacts  BY DEF HoldInv
<1> USE <1>0 DEF TimerFacts, listenerVars, holdVars, clientVars, eventVars
<1>1. CASE SubscribeForScripts  BY <1>1 DEF SubscribeForScripts
<1>2. CASE StartTimeout  BY <1>2 DEF StartTimeout, Arm, HoldTypes
<1>3. ASSUME NEW s \in Stream, GetSubscriptionInline(s)  PROVE TimerFacts'
  BY <1>3 DEF GetSubscriptionInline
<1>4. ASSUME NEW s \in Stream, GetEventStream(s)  PROVE TimerFacts'
  BY <1>4 DEF GetEventStream
<1>5. ASSUME NEW s \in Stream, GetSubscription(s)  PROVE TimerFacts'
  BY <1>5 DEF GetSubscription, Known, Attach
<1>6. ASSUME NEW s \in Stream, AttachInline(s)  PROVE TimerFacts'
  BY <1>6 DEF AttachInline, Attach
<1>7. ASSUME NEW s \in Stream,
             applyInitialFilter(s) \/ FirstSelect(s) \/ SelectSignal(s) \/ SelectEvent(s)
      PROVE  TimerFacts'
  BY <1>7 DEF applyInitialFilter, FirstSelect, SelectSignal, SelectEvent
<1>8. ASSUME NEW s \in Stream, Release(s)  PROVE TimerFacts'
  BY <1>8 DEF Release, Discard, Arm
<1>9. ASSUME NEW t \in Timer, Expire(t)  PROVE TimerFacts'
  BY <1>9 DEF Expire, Discard
<1>10. ASSUME NEW r \in Request, removeListener(r)  PROVE TimerFacts'
  BY <1>10 DEF removeListener, Discard
<1>11. ASSUME NEW b \in Batch, Timeout(b)  PROVE TimerFacts'
  BY <1>11 DEF Timeout
<1>12. CASE UNCHANGED holdVariables  BY <1>12 DEF holdVariables
<1> QED
  BY OtherHoldSteps, <1>1, <1>2, <1>3, <1>4, <1>5, <1>6, <1>7, <1>8, <1>9, <1>10, <1>11, <1>12
  DEF HoldStep

\* What each stream is at.
LEMMA StreamFactsKept ==
  ASSUME HoldInv, Next
  PROVE  StreamFacts'
<1>0. HoldTypes /\ StreamFacts /\ TimerFacts  BY DEF HoldInv
<1> USE <1>0 DEF listenerVars, holdVars, clientVars, eventVars
<1>1. CASE SubscribeForScripts  BY <1>1 DEF SubscribeForScripts, StreamFacts, TimerFacts
<1>2. CASE StartTimeout  BY <1>2 DEF StartTimeout, StreamFacts
<1>3. ASSUME NEW s \in Stream, GetSubscriptionInline(s)  PROVE StreamFacts'
  <2>1. \A q \in Stream : stream'[q] = IF q = s THEN "opening" ELSE "idle"
    BY <1>3, Going DEF GetSubscriptionInline, TimerFacts
  <2>2. \A q \in Stream : late'[q] = 0
    BY <1>3 DEF GetSubscriptionInline, StreamFacts, TimerFacts
  <2> QED  BY <1>3, <2>1, <2>2 DEF GetSubscriptionInline, StreamFacts
<1>4. ASSUME NEW s \in Stream, GetEventStream(s)  PROVE StreamFacts'
  <2>1. \A q \in Stream : stream'[q] \in (IF q = s THEN {"select", "exit"} ELSE {"idle"})
    BY <1>4, Going DEF GetEventStream, TimerFacts
  <2> QED  BY <1>4, <2>1 DEF GetEventStream, StreamFacts
<1>5. ASSUME NEW s \in Stream, GetSubscription(s)  PROVE StreamFacts'
  <2>1. \A q \in Stream : stream'[q] \in (IF q = s THEN {"loop", "ended"} ELSE {stream[q]})
    BY <1>5, Going DEF GetSubscription
  <2>2. displaced \subseteq displaced'  BY <1>5 DEF GetSubscription, Attach
  <2>3. ~ creating  BY <1>5 DEF GetSubscription, Known
  <2>4. UNCHANGED <<kind, creating, owner, done, late>> /\ kind # "events" /\ stream[s] = "idle"
    BY <1>5 DEF GetSubscription
  <2> QED  BY Zenon, <2>1, <2>2, <2>3, <2>4 DEF StreamFacts
<1>6. ASSUME NEW s \in Stream, AttachInline(s)  PROVE StreamFacts'
  <2>1. \A q \in Stream : stream'[q] = IF q = s THEN "initial" ELSE stream[q]
    BY <1>6, Going DEF AttachInline
  <2>2. displaced \subseteq displaced' /\ attached' = s  BY <1>6 DEF AttachInline, Attach
  <2>3. UNCHANGED <<kind, creating, owner, done, late>> /\ stream[s] = "opening"
    BY <1>6 DEF AttachInline
  <2> QED  BY <2>1, <2>2, <2>3 DEF StreamFacts
<1>7. ASSUME NEW s \in Stream, applyInitialFilter(s)  PROVE StreamFacts'
  <2>1. \A q \in Stream : stream'[q] \in (IF q = s THEN {"loop", "exit"} ELSE {stream[q]})
    BY <1>7, Going DEF applyInitialFilter
  <2> QED  BY Zenon, <1>7, <2>1 DEF applyInitialFilter, StreamFacts
<1>8. ASSUME NEW s \in Stream, FirstSelect(s)  PROVE StreamFacts'
  <2>1. \A q \in Stream :
            stream'[q] = IF q = s THEN (IF Told(s) THEN "exit" ELSE "select") ELSE stream[q]
    BY <1>8, Going DEF FirstSelect
  <2> QED  BY <1>8, <2>1 DEF FirstSelect, Told, StreamFacts
<1>9. ASSUME NEW s \in Stream, SelectSignal(s)  PROVE StreamFacts'
  <2>1. \A q \in Stream : stream'[q] = IF q = s THEN "exit" ELSE stream[q]
    BY <1>9, Going DEF SelectSignal
  <2> QED  BY <1>9, <2>1 DEF SelectSignal, StreamFacts
<1>10. ASSUME NEW s \in Stream, SelectEvent(s)  PROVE StreamFacts'
  <2>1. \A q \in Stream :
            stream'[q] = IF q # s THEN stream[q]
                         ELSE IF s \in gone THEN "exit" ELSE IF kind = "events" THEN "select" ELSE "loop"
    BY <1>10, Going DEF SelectEvent
  <2>2. \A q \in Stream : late'[q] # late[q] => q = s /\ (done \/ s \in displaced)
    BY <1>10 DEF SelectEvent, HoldTypes
  <2> QED  BY <1>10, <2>1, <2>2 DEF SelectEvent, StreamFacts
<1>11. ASSUME NEW s \in Stream, Release(s)  PROVE StreamFacts'
  <2>1. \A q \in Stream : stream'[q] = IF q = s THEN "ended" ELSE stream[q]
    BY <1>11, Going DEF Release
  <2>2. attached' = attached \/ attached = s  BY <1>11 DEF Release
  <2>3. done => done'  BY Zenon, <1>11 DEF Release, Discard
  <2>4. UNCHANGED <<kind, creating, owner, displaced, late>> /\ stream[s] = "exit"
    BY <1>11 DEF Release
  <2> QED  BY <2>1, <2>2, <2>3, <2>4 DEF StreamFacts
<1>12. ASSUME NEW t \in Timer, Expire(t)  PROVE StreamFacts'
  BY SMT, <1>12 DEF Expire, Discard, StreamFacts
<1>13. ASSUME NEW r \in Request, removeListener(r)  PROVE StreamFacts'
  BY <1>13 DEF removeListener, Discard, StreamFacts
<1>14. ASSUME NEW b \in Batch, Timeout(b)  PROVE StreamFacts'
  BY <1>14 DEF Timeout, StreamFacts
<1>15. CASE UNCHANGED holdVariables  BY <1>15 DEF holdVariables, StreamFacts
<1> QED
  BY OtherHoldSteps, <1>1, <1>2, <1>3, <1>4, <1>5, <1>6, <1>7, <1>8, <1>9, <1>10, <1>11, <1>12, <1>13,
     <1>14, <1>15 DEF HoldStep

\* A stream that takes over displaces the one that held the listener.
LEMMA AttachSole ==
  ASSUME HoldTypes, SoleConsumer, NEW s \in Stream, Attach(s), UNCHANGED kind,
         \A q \in Stream \ {s} : stream'[q] = stream[q], entry = "live"
  PROVE  SoleConsumer'
<1>1. SUFFICES ASSUME NEW q \in Stream, kind # "events", Active(q)', q \notin displaced'
               PROVE  attached' = q
  BY DEF SoleConsumer
<1>2. CASE q = s  BY <1>2 DEF Attach
<1>3. CASE q # s
  <2>1. attached = q  BY <1>1, <1>3 DEF Attach, SoleConsumer, Active
  <2>2. q # Nobody  BY BrokerAssumption DEF Nobody
  <2> QED  BY <1>1, <2>1, <2>2 DEF Attach
<1> QED  BY <1>2, <1>3

\* The other steps do not make a stream active, unless it holds the listener.
LEMMA StaysSole ==
  ASSUME SoleConsumer, UNCHANGED kind, displaced \subseteq displaced', entry' = "live" => entry = "live",
         \A q \in Stream : Active(q)' /\ entry = "live" => (Active(q) /\ (attached = q => attached' = q))
                                                          \/ attached' = q
  PROVE  SoleConsumer'
  BY DEF SoleConsumer

\* Every step leaves one consumer: attach displaces the one before.
LEMMA SoleConsumerKept ==
  ASSUME HoldInv, Next
  PROVE  SoleConsumer'
<1>0. HoldTypes /\ StreamFacts /\ TimerFacts /\ SoleConsumer  BY DEF HoldInv
<1> USE <1>0 DEF listenerVars, holdVars, clientVars, eventVars
<1>1. CASE SubscribeForScripts  BY <1>1 DEF SubscribeForScripts, TimerFacts, SoleConsumer, Active
<1>2. CASE StartTimeout  BY <1>2 DEF StartTimeout, SoleConsumer, Active
<1>3. ASSUME NEW s \in Stream, GetSubscriptionInline(s)  PROVE SoleConsumer'
  <2>1. \A q \in Stream : stream'[q] = IF q = s THEN "opening" ELSE "idle"
    BY <1>3, Going DEF GetSubscriptionInline, TimerFacts
  <2> QED  BY <2>1 DEF SoleConsumer, Active
<1>4. ASSUME NEW s \in Stream, GetEventStream(s)  PROVE SoleConsumer'
  BY <1>4 DEF GetEventStream, SoleConsumer
<1>5. ASSUME NEW s \in Stream, GetSubscription(s)  PROVE SoleConsumer'
  <2>1. CASE entry = "live"
    <3>1. Attach(s) /\ UNCHANGED kind /\ Go(s, "loop")  BY <1>5, <2>1 DEF GetSubscription
    <3> QED  BY <2>1, <3>1, Going, AttachSole
  <2>2. CASE entry # "live"  BY <1>5, <2>2 DEF GetSubscription, SoleConsumer
  <2> QED  BY <2>1, <2>2
<1>6. ASSUME NEW s \in Stream, AttachInline(s)  PROVE SoleConsumer'
  <2>1. CASE entry = "live"
    <3>1. Attach(s) /\ UNCHANGED kind /\ Go(s, "initial")  BY <1>6 DEF AttachInline
    <3> QED  BY <2>1, <3>1, Going, AttachSole
  <2>2. CASE entry # "live"  BY <1>6, <2>2 DEF AttachInline, SoleConsumer
  <2> QED  BY <2>1, <2>2
<1>7. ASSUME NEW s \in Stream, applyInitialFilter(s)  PROVE SoleConsumer'
  <2>1. attached = s  BY <1>7 DEF applyInitialFilter, StreamFacts
  <2>2. \A q \in Stream \ {s} : stream'[q] = stream[q]  BY <1>7, Going DEF applyInitialFilter
  <2>3. UNCHANGED <<kind, entry, displaced, attached>>  BY <1>7 DEF applyInitialFilter
  <2> QED  BY <2>1, <2>2, <2>3, StaysSole DEF Active
<1>8. ASSUME NEW s \in Stream, FirstSelect(s) \/ SelectSignal(s) \/ SelectEvent(s)
      PROVE  SoleConsumer'
  <2>1. Active(s) /\ \A q \in Stream \ {s} : stream'[q] = stream[q]
    BY <1>8, Going DEF FirstSelect, SelectSignal, SelectEvent, Active
  <2>2. UNCHANGED <<kind, entry, displaced, attached>>
    BY <1>8 DEF FirstSelect, SelectSignal, SelectEvent
  <2> QED  BY <2>1, <2>2, StaysSole DEF Active
<1>9. ASSUME NEW s \in Stream, Release(s)  PROVE SoleConsumer'
  <2>1. stream'[s] = "ended" /\ \A q \in Stream \ {s} : stream'[q] = stream[q]
    BY <1>9, Going DEF Release
  <2>2. attached' = attached \/ attached = s  BY <1>9 DEF Release
  <2>3. UNCHANGED <<kind, displaced>>  BY <1>9 DEF Release
  <2>4. entry' = "live" => entry = "live"  BY <1>9 DEF Release, Discard
  <2> QED  BY <2>1, <2>2, <2>3, <2>4, StaysSole DEF Active
<1>10. ASSUME NEW t \in Timer, Expire(t)  PROVE SoleConsumer'
  BY <1>10 DEF Expire, Discard, SoleConsumer, Active
<1>11. ASSUME NEW r \in Request, removeListener(r)  PROVE SoleConsumer'
  BY <1>11 DEF removeListener, Discard, SoleConsumer, Active
<1>12. ASSUME NEW b \in Batch, Timeout(b)  PROVE SoleConsumer'
  BY <1>12 DEF Timeout, SoleConsumer, Active
<1>13. CASE UNCHANGED holdVariables  BY <1>13 DEF holdVariables, SoleConsumer, Active
<1> QED
  BY OtherHoldSteps, <1>1, <1>2, <1>3, <1>4, <1>5, <1>6, <1>7, <1>8, <1>9, <1>10, <1>11, <1>12, <1>13
  DEF HoldStep

\* A stream counts as late once: it meets its first select before it takes another event.
LEMMA LateTakesOneKept ==
  ASSUME HoldInv, Next
  PROVE  LateTakesOne'
<1>0. HoldTypes /\ StreamFacts /\ LateTakesOne  BY DEF HoldInv
<1> USE <1>0 DEF listenerVars, holdVars, clientVars, eventVars
<1>1. ASSUME NEW s \in Stream, SelectEvent(s)  PROVE LateTakesOne'
  <2>1. \A q \in Stream : late'[q] = late[q] \/ (q = s /\ late'[q] = late[q] + 1)
    BY <1>1 DEF SelectEvent, HoldTypes
  <2>2. kind # "events" => late[s] = 0  BY <1>1 DEF SelectEvent, StreamFacts
  <2>3. UNCHANGED kind  BY <1>1 DEF SelectEvent
  <2> QED  BY SMT, <2>1, <2>2, <2>3 DEF LateTakesOne
<1>2. CASE UNCHANGED <<kind, late>>  BY <1>2 DEF LateTakesOne
<1>3. HoldStep => UNCHANGED <<kind, late>> \/ \E s \in Stream : SelectEvent(s)
  BY Zenon DEF HoldStep, SubscribeForScripts, StartTimeout, GetSubscriptionInline, GetEventStream, GetSubscription,
         AttachInline, applyInitialFilter, FirstSelect, SelectSignal, Release, Expire, removeListener, Timeout
<1> QED  BY <1>1, <1>2, <1>3, OtherHoldSteps DEF holdVariables

\* Nobody holds a listener that does not exist.
LEMMA HoldInit == Init => HoldInv
  BY SMT DEF Init, HoldInv, HoldTypes, StreamFacts, TimerFacts, SoleConsumer, LateTakesOne, Active

\* Every step keeps what is known of the holder, the streams and the timer.
LEMMA HoldStepKept == HoldInv /\ [Next]_vars => HoldInv'
<1>1. ASSUME HoldInv, Next  PROVE HoldInv'
  BY <1>1, HoldTypesKept, StreamFactsKept, TimerFactsKept, SoleConsumerKept, LateTakesOneKept DEF HoldInv
<1>2. ASSUME HoldInv, UNCHANGED vars  PROVE HoldInv'
  BY <1>2 DEF vars, listenerVars, holdVars, clientVars, eventVars, HoldInv, HoldTypes, StreamFacts,
              TimerFacts, SoleConsumer, LateTakesOne, Active
<1> QED  BY <1>1, <1>2

\* A stream of a subscription holds it or has been told to end, and a stream that has been
\* told takes at most one more event.
THEOREM HoldAlways == Spec => []HoldInv
<1> QED  BY HoldInit, HoldStepKept, PTL DEF Spec

\* attach makes the calling stream the sole consumer: a stream of a subscription that exists
\* holds it, unless the stream was told that another one took over.
THEOREM AlwaysSoleConsumer == Spec => []SoleConsumer
<1>1. HoldInv => SoleConsumer  BY DEF HoldInv
<1> QED  BY <1>1, HoldAlways, PTL

\* The two selects of GetSubscription: a stream takes at most one event after it was
\* displaced or its subscription removed.
THEOREM LateAlwaysTakesOne == Spec => []LateTakesOne
<1>1. HoldInv => LateTakesOne  BY DEF HoldInv
<1> QED  BY <1>1, HoldAlways, PTL

\* The callback of a timer removes a subscription only if no stream holds it, whenever the
\* timer fired and however long its callback waited for the lock.
THEOREM WatchedNeverExpired == Spec => WatchedNotExpired
<1>1. ASSUME HoldInv, [Next]_vars  PROVE entry = "live" /\ entry' = "expired" => attached = Nobody
  <2> SUFFICES ASSUME entry = "live", entry' = "expired"  PROVE attached = Nobody  OBVIOUS
  <2> USE DEF listenerVars
  <2>1. ASSUME NEW t \in Timer, Expire(t)  PROVE attached = Nobody
    <3>1. timer = t  BY <2>1 DEF Expire
    <3>2. timer # 0  BY SMT, <3>1 DEF Timer
    <3> QED  BY <1>1, <3>2 DEF HoldInv, TimerFacts
  <2>2. HoldStep => (\E t \in Timer : Expire(t)) \/ entry' # "expired"
    BY Zenon DEF HoldStep, SubscribeForScripts, StartTimeout, GetSubscriptionInline, GetEventStream, GetSubscription,
           AttachInline, applyInitialFilter, FirstSelect, SelectSignal, SelectEvent, Release, removeListener,
           Timeout, Discard
  <2>3. ~ UNCHANGED entry  OBVIOUS
  <2> QED  BY <1>1, <2>1, <2>2, <2>3, OtherHoldSteps DEF holdVariables, vars
<1> QED  BY <1>1, HoldAlways, PTL DEF Spec, WatchedNotExpired

-----------------------------------------------------------------------------
(* The order of the events of GetEventStream.                              *)

\* The end of a sequence that grew, and the rest of one that lost its head.
LEMMA AppendFacts ==
  ASSUME NEW S, NEW q \in Seq(S), NEW e \in S
  PROVE  /\ Append(q, e) \in Seq(S) /\ DOMAIN Append(q, e) = 1 .. Len(q) + 1 /\ DOMAIN q = 1 .. Len(q)
         /\ \A p \in 1 .. Len(q) : Append(q, e)[p] = q[p]
         /\ Append(q, e)[Len(q) + 1] = e /\ Len(q) \in Nat
  BY SMT

\* What a receive leaves in the channel.
LEMMA TailFacts ==
  ASSUME NEW S, NEW q \in Seq(S), q # <<>>
  PROVE  /\ Tail(q) \in Seq(S) /\ Len(Tail(q)) = Len(q) - 1 /\ Len(q) \in Nat \ {0}
         /\ DOMAIN Tail(q) = 1 .. Len(q) - 1 /\ DOMAIN q = 1 .. Len(q)
         /\ \A p \in 1 .. Len(q) - 1 : Tail(q)[p] = q[p + 1]
         /\ Head(q) = q[1] /\ Head(q) \in S
  BY SMT

\* The events of a batch are events.
LEMMA EventsFacts ==
  ASSUME NEW b \in Batch
  PROVE  /\ Events[b] \in Seq(Event) /\ Len(Events[b]) \in Nat
         /\ DOMAIN Events[b] = 1 .. Len(Events[b])
  BY SMT, EventsAssumption

\* Steps that leave the events where they are.
LEMMA OrderQuiet ==
  ASSUME OrderInv, UNCHANGED <<kind, ch, todo, taken, skipped>>, entry' = "none" => entry = "none",
         kind = "events" => UNCHANGED owner
  PROVE  OrderInv'
<1>1. CASE kind = "events"
  <2>1. OrderFacts /\ UNCHANGED <<owner, ch, todo, taken, skipped>>  BY <1>1 DEF OrderInv
  <2>2. OrderTypes'  BY <2>1 DEF OrderFacts, OrderTypes
  <2>3. TakenFacts'  BY SMT, <2>1 DEF OrderFacts, TakenFacts, TakenInOrder
  <2>4. ChannelFacts'  BY SMT, <2>1 DEF OrderFacts, ChannelFacts, InTaken
  <2>5. TodoFacts'
    <3>1. \A b \in Batch : Sent(b)' = Sent(b)  BY <2>1 DEF Sent
    <3>2. \A e : (InTaken(e) => InTaken(e)') /\ (InChannel(e) => InChannel(e)')
      BY <2>1 DEF InTaken, InChannel
    <3> QED  BY <2>1, <3>1, <3>2 DEF OrderFacts, TodoFacts
  <2> QED  BY <1>1, <2>2, <2>3, <2>4, <2>5 DEF OrderInv, OrderFacts
<1> QED  BY <1>1 DEF OrderInv

\* A stream that comes finds nothing.
LEMMA OrderOpen ==
  ASSUME OrderInv, NEW s \in Stream, GetEventStream(s)
  PROVE  OrderInv'
<1> USE DEF listenerVars, holdVars, clientVars, eventVars
<1>1. kind' = "events" /\ entry' = "live" /\ OrderTypes
  BY DEF GetEventStream, OrderInv, OrderFacts
<1>2. ch' = <<>> /\ (\A b \in Batch : todo'[b] = <<>>) /\ \A q \in Stream : taken'[q] = <<>>
  BY DEF GetEventStream, OrderInv
<1>3. OrderTypes'  BY <1>1 DEF GetEventStream, OrderTypes
<1>4. TakenFacts'  BY SMT, <1>2 DEF TakenFacts, TakenInOrder
<1>5. ChannelFacts'  BY SMT, <1>2 DEF ChannelFacts
<1>6. TodoFacts'  BY <1>2 DEF TodoFacts
<1> QED  BY <1>1, <1>3, <1>4, <1>5, <1>6 DEF OrderInv, OrderFacts

\* A batch that goes out is to be sent from its beginning.
LEMMA OrderBroadcast ==
  ASSUME OrderInv, Broadcast
  PROVE  OrderInv'
<1> USE DEF listenerVars, holdVars, clientVars, eventVars
<1>0. CASE UNCHANGED todo  BY <1>0, OrderQuiet DEF Broadcast
<1>1. CASE kind # "events"  BY <1>1 DEF Broadcast, OrderInv
<1>2. CASE kind = "events" /\ ~ UNCHANGED todo
  <2>1. entry = "live" /\ next \in Batch /\ todo' = [todo EXCEPT ![next] = Events[next]]
    BY <1>2 DEF Broadcast
  <2>2. OrderTypes /\ TakenFacts /\ ChannelFacts /\ TodoFacts  BY <1>2 DEF OrderInv, OrderFacts
  <2>3. UNCHANGED <<kind, entry, owner, ch, taken, skipped>>  BY DEF Broadcast
  <2>4. OrderTypes'  BY <2>1, <2>2, <2>3, EventsFacts DEF OrderTypes
  <2>5. TakenFacts' /\ ChannelFacts'  BY SMT, <2>2, <2>3 DEF TakenFacts, TakenInOrder, ChannelFacts, InTaken
  <2>6. TodoFacts'
    <3> SUFFICES ASSUME NEW b \in Batch, todo'[b] # <<>>
                 PROVE  /\ Sent(b)' \in Nat
                        /\ \A i \in 1 .. Len(todo'[b]) : todo'[b][i] = Events[b][Sent(b)' + i]
                        /\ \A i \in 1 .. Sent(b)' : \/ Events[b][i] \in skipped'
                                                    \/ InTaken(Events[b][i])' \/ InChannel(Events[b][i])'
      BY DEF TodoFacts
    <3>1. CASE b = next
      <4>1. todo'[b] = Events[b]  BY <2>1, <2>2, <3>1 DEF OrderTypes
      <4>2. Sent(b)' = 0  BY SMT, <4>1, EventsFacts DEF Sent
      <4> QED  BY SMT, <4>1, <4>2, EventsFacts
    <3>2. CASE b # next
      <4>1. todo'[b] = todo[b]  BY <2>1, <2>2, <3>2 DEF OrderTypes
      <4> QED  BY Zenon, <2>2, <2>3, <4>1 DEF TodoFacts, Sent, InTaken, InChannel
    <3> QED  BY <3>1, <3>2
  <2> QED  BY <1>2, <2>1, <2>3, <2>4, <2>5, <2>6 DEF OrderInv, OrderFacts
<1> QED  BY <1>0, <1>1, <1>2

\* A goroutine that gives up has nothing to send.
LEMMA OrderStop ==
  ASSUME OrderInv, NEW b \in Batch, kind = "events", todo[b] # <<>>, Stop(b),
         UNCHANGED <<kind, entry, owner, ch, taken, skipped>>
  PROVE  OrderInv'
<1>1. OrderTypes /\ TakenFacts /\ ChannelFacts /\ TodoFacts /\ entry # "none"
  BY DEF OrderInv, OrderFacts
<1>2. OrderTypes'  BY SMT, <1>1 DEF OrderTypes, Stop
<1>3. TakenFacts' /\ ChannelFacts'  BY SMT, <1>1 DEF TakenFacts, TakenInOrder, ChannelFacts, InTaken
<1>4. \A c \in Batch : todo'[c] # <<>> => todo'[c] = todo[c]  BY <1>1 DEF OrderTypes, Stop
<1>5. TodoFacts'
  <2> SUFFICES ASSUME NEW c \in Batch, todo'[c] # <<>>
               PROVE  /\ Sent(c)' \in Nat
                      /\ \A i \in 1 .. Len(todo'[c]) : todo'[c][i] = Events[c][Sent(c)' + i]
                      /\ \A i \in 1 .. Sent(c)' : \/ Events[c][i] \in skipped'
                                                  \/ InTaken(Events[c][i])' \/ InChannel(Events[c][i])'
    BY DEF TodoFacts
  <2>1. todo'[c] = todo[c] /\ Sent(c)' = Sent(c)  BY Zenon, <1>4 DEF Sent
  <2>2. \A e : (InTaken(e) => InTaken(e)') /\ (InChannel(e) => InChannel(e)')
    BY DEF InTaken, InChannel
  <2> QED  BY <1>1, <2>1, <2>2 DEF TodoFacts
<1> QED  BY <1>1, <1>2, <1>3, <1>5 DEF OrderInv, OrderFacts

\* A goroutine that goes on: the first event of the rest of its batch is behind it.
LEMMA ContinueFacts ==
  ASSUME OrderTypes, TodoFacts, NEW b \in Batch, todo[b] # <<>>, Continue(b)
  PROVE  /\ OrderTypes => todo' \in [Batch -> Seq(Event)]
         /\ \A c \in Batch : c # b => todo'[c] = todo[c]
         /\ todo'[b] = Tail(todo[b])
         /\ Sent(b) \in Nat /\ Sent(b)' = Sent(b) + 1 /\ Sent(b)' \in DOMAIN Events[b]
         /\ Head(todo[b]) = Events[b][Sent(b)']
         /\ \A i \in 1 .. Len(todo'[b]) : todo'[b][i] = Events[b][Sent(b)' + i]
<1>1. todo[b] \in Seq(Event)  BY DEF OrderTypes
<1>2. todo' \in [Batch -> Seq(Event)] /\ todo'[b] = Tail(todo[b])
      /\ \A c \in Batch : c # b => todo'[c] = todo[c]
  BY <1>1, TailFacts DEF OrderTypes, Continue
<1>3. Sent(b) \in Nat /\ \A i \in 1 .. Len(todo[b]) : todo[b][i] = Events[b][Sent(b) + i]
  BY DEF TodoFacts
<1>4. Len(todo'[b]) = Len(todo[b]) - 1 /\ Len(todo[b]) \in Nat \ {0} /\ Head(todo[b]) = todo[b][1]
      /\ \A i \in 1 .. Len(todo[b]) - 1 : todo'[b][i] = todo[b][i + 1]
  BY SMT, <1>1, <1>2, TailFacts
<1>5. Sent(b)' = Sent(b) + 1  BY SMT, <1>4, EventsFacts DEF Sent
<1>6. Sent(b)' \in 1 .. Len(Events[b])
  <2>1. Sent(b) = Len(Events[b]) - Len(todo[b])  BY DEF Sent
  <2>2. Len(Events[b]) \in Nat /\ Sent(b) \in Nat /\ Len(todo[b]) \in Nat \ {0}
    BY <1>3, <1>4, EventsFacts
  <2>3. \A m, n, k \in Nat : k = n - m /\ m # 0 => k + 1 \in 1 .. n  BY SMT
  <2> QED  BY Zenon, <1>5, <2>1, <2>2, <2>3
<1>7. Head(todo[b]) = Events[b][Sent(b)']  BY SMT, <1>3, <1>4, <1>5
<1>8. ASSUME NEW i \in 1 .. Len(todo'[b])  PROVE todo'[b][i] = Events[b][Sent(b)' + i]
  <2>1. i \in 1 .. Len(todo[b]) - 1 /\ i + 1 \in 1 .. Len(todo[b])  BY SMT, <1>4
  <2>2. todo'[b][i] = Events[b][Sent(b) + (i + 1)]  BY <1>3, <1>4, <2>1
  <2>3. Sent(b) + (i + 1) = Sent(b)' + i  BY SMT, <1>3, <1>5, <2>1
  <2> QED  BY <2>2, <2>3
<1> QED  BY <1>2, <1>3, <1>5, <1>6, <1>7, <1>8, EventsFacts

\* What was skipped, taken or in the channel still is, and so is the event it goes on from.
LEMMA TodoContinue ==
  ASSUME OrderTypes, TodoFacts, NEW b \in Batch, todo[b] # <<>>, Continue(b),
         skipped \subseteq skipped', \A e \in Event : InTaken(e) => InTaken(e)',
         \A e \in Event : InChannel(e) => InChannel(e)',
         NEW h, h = Head(todo[b]), h \in skipped' \/ InChannel(h)'
  PROVE  TodoFacts'
<1>1. SUFFICES ASSUME NEW c \in Batch, todo'[c] # <<>>
               PROVE  /\ Sent(c)' \in Nat
                      /\ \A i \in 1 .. Len(todo'[c]) : todo'[c][i] = Events[c][Sent(c)' + i]
                      /\ \A i \in 1 .. Sent(c)' : \/ Events[c][i] \in skipped'
                                                  \/ InTaken(Events[c][i])' \/ InChannel(Events[c][i])'
  BY DEF TodoFacts
<1>2. ASSUME NEW i \in DOMAIN Events[c]  PROVE Events[c][i] \in Event  BY SMT, EventsFacts
<1>3. CASE c # b
  <2>1. todo'[c] = todo[c] /\ Sent(c)' = Sent(c)  BY Zenon, <1>3, ContinueFacts DEF Sent
  <2>2. Sent(c) \in Nat /\ Sent(c) <= Len(Events[c])
    BY SMT, <1>1, <2>1, EventsFacts DEF TodoFacts, Sent, OrderTypes
  <2>3. ASSUME NEW i \in 1 .. Sent(c)  PROVE i \in DOMAIN Events[c]  BY SMT, <2>2, EventsFacts
  <2>4. \A i \in 1 .. Sent(c) : \/ Events[c][i] \in skipped'
                                \/ InTaken(Events[c][i])' \/ InChannel(Events[c][i])'
    <3> TAKE i \in 1 .. Sent(c)
    <3>1. Events[c][i] \in skipped \/ InTaken(Events[c][i]) \/ InChannel(Events[c][i])
      BY <1>1, <2>1 DEF TodoFacts
    <3>2. Events[c][i] \in Event  BY <1>2, <2>3
    <3> QED  BY <3>1, <3>2
  <2> QED  BY ZenonT(30), <1>1, <2>1, <2>2, <2>4 DEF TodoFacts
<1>4. CASE c = b
  <2>1. /\ Sent(b) \in Nat /\ Sent(b)' = Sent(b) + 1 /\ Sent(b)' \in 1 .. Len(Events[b])
        /\ h = Events[b][Sent(b)']
        /\ \A i \in 1 .. Len(todo'[b]) : todo'[b][i] = Events[b][Sent(b)' + i]
    BY ContinueFacts, EventsFacts
  <2>2. \A i \in 1 .. Sent(b)' : \/ Events[b][i] \in skipped'
                                 \/ InTaken(Events[b][i])' \/ InChannel(Events[b][i])'
    <3> TAKE i \in 1 .. Sent(b)'
    <3>1. CASE i = Sent(b)'  BY <2>1, <3>1
    <3>2. CASE i # Sent(b)'
      <4>1. i \in 1 .. Sent(b) /\ i \in DOMAIN Events[b]  BY SMT, <2>1, <3>2, EventsFacts
      <4>2. Events[b][i] \in skipped \/ InTaken(Events[b][i]) \/ InChannel(Events[b][i])
        BY <4>1 DEF TodoFacts
      <4>3. Events[b][i] \in Event  BY <1>2, <1>4, <4>1
      <4> QED  BY <4>2, <4>3
    <3> QED  BY <3>1, <3>2
  <2> QED  BY SMT, <1>4, <2>1, <2>2
<1> QED  BY <1>3, <1>4

\* No topic matches the event.
LEMMA OrderSkip ==
  ASSUME OrderInv, NEW b \in Batch, Skip(b)
  PROVE  OrderInv'
<1> USE DEF listenerVars, holdVars, clientVars, eventVars
<1>1. UNCHANGED <<kind, entry, owner, ch, taken>> /\ todo[b] # <<>> /\ Continue(b)
      /\ skipped' = skipped \cup {Head(todo[b])}
  BY DEF Skip
<1>2. CASE kind = "events"
  <2>1. OrderTypes /\ TakenFacts /\ ChannelFacts /\ TodoFacts /\ entry # "none"
    BY <1>1, <1>2 DEF OrderInv, OrderFacts
  <2>2. OrderTypes'  BY <1>1, <2>1, ContinueFacts DEF OrderTypes
  <2>3. TakenFacts'  BY SMT, <1>1, <2>1 DEF TakenFacts, TakenInOrder
  <2>4. ChannelFacts'  BY SMT, <1>1, <2>1 DEF ChannelFacts, InTaken
  <2>5. \A e \in Event : (InTaken(e) => InTaken(e)') /\ (InChannel(e) => InChannel(e)')
    BY <1>1 DEF InTaken, InChannel
  <2>6. TodoFacts'  BY <1>1, <2>1, <2>5, TodoContinue
  <2> QED  BY <1>1, <2>1, <2>2, <2>3, <2>4, <2>6 DEF OrderInv, OrderFacts
<1> QED  BY <1>1, <1>2 DEF OrderInv

\* The event goes to the end of the channel, behind those before it in its batch.
LEMMA OrderDeliver ==
  ASSUME OrderInv, NEW b \in Batch, Deliver(b)
  PROVE  OrderInv'
<1> USE DEF listenerVars, holdVars, clientVars, eventVars
<1>0. PICK h : h = Head(todo[b])  OBVIOUS
<1>1. UNCHANGED <<kind, entry, owner, taken, skipped>> /\ todo[b] # <<>> /\ Continue(b)
      /\ ch' = Append(ch, h)
  BY <1>0 DEF Deliver
<1>2. CASE kind = "events"
  <2>1. OrderTypes /\ TakenFacts /\ ChannelFacts /\ TodoFacts /\ entry # "none"
    BY <1>1, <1>2 DEF OrderInv, OrderFacts
  <2>2. h \in Event  BY <1>0, <1>1, <2>1, TailFacts DEF OrderTypes
  <2>3. PICK n \in Nat : n = Sent(b) /\ n + 1 \in DOMAIN Events[b] /\ h = Events[b][n + 1]
    BY SMT, <1>0, <1>1, <2>1, ContinueFacts
  <2>4. /\ ch \in Seq(Event) /\ ch' \in Seq(Event) /\ DOMAIN ch' = 1 .. Len(ch) + 1
        /\ DOMAIN ch = 1 .. Len(ch) /\ \A p \in 1 .. Len(ch) : ch'[p] = ch[p]
        /\ ch'[Len(ch) + 1] = h /\ Len(ch) \in Nat
    BY SMT, <1>1, <2>1, <2>2, AppendFacts DEF OrderTypes
  <2>5. OrderTypes'  BY <1>1, <2>1, <2>4, ContinueFacts DEF OrderTypes
  <2>6. TakenFacts'  BY SMT, <1>1, <2>1 DEF TakenFacts, TakenInOrder
  <2>7. \A e : (InTaken(e) => InTaken(e)') /\ (InChannel(e) => InChannel(e)')
    BY SMT, <1>1, <2>4 DEF InTaken, InChannel
  <2>8. InChannel(h)'  BY SMT, <2>4 DEF InChannel
  <2>9. TodoFacts'  BY <1>0, <1>1, <2>1, <2>7, <2>8, TodoContinue
  <2>10. ChannelFacts'
    <3> SUFFICES ASSUME NEW c \in Batch, NEW p \in DOMAIN ch', NEW j \in DOMAIN Events[c],
                        ch'[p] = Events[c][j], NEW i \in 1 .. j - 1
                 PROVE  \/ Events[c][i] \in skipped' \/ InTaken(Events[c][i])'
                        \/ \E q \in 1 .. p - 1 : ch'[q] = Events[c][i]
      BY DEF ChannelFacts
    <3>1. CASE p \in 1 .. Len(ch)
      <4>1. \/ Events[c][i] \in skipped \/ InTaken(Events[c][i])
            \/ \E q \in 1 .. p - 1 : ch[q] = Events[c][i]
        <5>1. p \in DOMAIN ch /\ ch[p] = Events[c][j]  BY <2>4, <3>1
        <5> QED  BY <2>1, <5>1 DEF ChannelFacts
      <4>2. \A q \in 1 .. p - 1 : ch'[q] = ch[q]  BY SMT, <2>4, <3>1
      <4> QED  BY <1>1, <2>7, <4>1, <4>2
    <3>2. CASE p = Len(ch) + 1
      <4>1. c = b /\ j = n + 1  BY SMT, <2>3, <2>4, <3>2, EventsAssumption
      <4>2. i \in 1 .. Sent(b)  BY SMT, <2>3, <4>1
      <4>3. Events[b][i] \in skipped \/ InTaken(Events[b][i]) \/ InChannel(Events[b][i])
        BY <1>1, <2>1, <4>2 DEF TodoFacts
      <4>4. CASE InChannel(Events[b][i])
        <5>1. PICK q \in 1 .. Len(ch) : ch[q] = Events[b][i]  BY <2>4, <4>4 DEF InChannel
        <5>2. q \in 1 .. p - 1 /\ ch'[q] = Events[b][i]  BY SMT, <2>4, <3>2, <5>1
        <5> QED  BY <4>1, <5>2
      <4> QED  BY <1>1, <2>7, <4>1, <4>3, <4>4
    <3> QED  BY SMT, <2>4, <3>1, <3>2
  <2> QED  BY <1>1, <2>1, <2>5, <2>6, <2>9, <2>10 DEF OrderInv, OrderFacts
<1> QED  BY <1>1, <1>2 DEF OrderInv

\* The stream takes the head of the channel: what is before it in its batch was taken.
LEMMA OrderSelect ==
  ASSUME HoldInv, OrderInv, NEW s \in Stream, SelectEvent(s)
  PROVE  OrderInv'
<1> USE DEF listenerVars, holdVars, clientVars, eventVars
<1>0. PICK h : h = Head(ch)  OBVIOUS
<1>1. /\ UNCHANGED <<kind, entry, owner, todo, skipped>> /\ ch # <<>> /\ ch' = Tail(ch)
      /\ stream[s] = "select"
  BY DEF SelectEvent
<1>2. CASE kind = "events"
  <2>1. OrderTypes /\ TakenFacts /\ ChannelFacts /\ TodoFacts /\ entry # "none"
    BY <1>1, <1>2 DEF OrderInv, OrderFacts
  <2>2. s = owner  BY <1>1, <1>2 DEF HoldInv, StreamFacts
  <2>3. /\ ch \in Seq(Event) /\ ch' \in Seq(Event) /\ Len(ch) \in Nat \ {0} /\ h = ch[1] /\ h \in Event
        /\ DOMAIN ch = 1 .. Len(ch) /\ DOMAIN ch' = 1 .. Len(ch) - 1
        /\ \A p \in 1 .. Len(ch) - 1 : ch'[p] = ch[p + 1]
    BY <1>0, <1>1, <2>1, TailFacts DEF OrderTypes
  <2>4. /\ taken \in [Stream -> Seq(Event)] /\ taken'[s] = Append(taken[s], h)
        /\ \A q \in Stream : q # s => taken'[q] = taken[q]
    BY <1>0, <1>2, <2>1 DEF SelectEvent, OrderTypes
  <2>5. taken' \in [Stream -> Seq(Event)]
    BY SMT, <1>0, <1>2, <2>3, <2>4, AppendFacts DEF SelectEvent
  <2>6. /\ Len(taken[s]) \in Nat /\ DOMAIN taken[s] = 1 .. Len(taken[s])
        /\ DOMAIN taken'[s] = 1 .. Len(taken[s]) + 1 /\ taken'[s][Len(taken[s]) + 1] = h
        /\ \A p \in 1 .. Len(taken[s]) : taken'[s][p] = taken[s][p]
    BY SMT, <2>3, <2>4, AppendFacts
  <2>7. OrderTypes'  BY <1>1, <2>1, <2>3, <2>5 DEF OrderTypes
  <2>8. \A e : InTaken(e) => InTaken(e)'  BY SMT, <1>1, <2>2, <2>6 DEF InTaken
  <2>9. InTaken(h)'
    <3>1. Len(taken[s]) + 1 \in DOMAIN taken'[s]  BY SMT, <2>6
    <3> QED  BY <1>1, <2>2, <2>6, <3>1 DEF InTaken
  <2>10. \A e : InChannel(e) => e = h \/ InChannel(e)'
    <3> SUFFICES ASSUME NEW e, NEW p \in 1 .. Len(ch), ch[p] = e, e # h  PROVE InChannel(e)'
      BY <2>3 DEF InChannel
    <3>0. p # 1  BY <2>3
    <3>1. p - 1 \in 1 .. Len(ch) - 1  BY SMT, <2>3, <3>0
    <3>2. ch'[p - 1] = e  BY SMT, <2>3, <3>1
    <3> QED  BY <2>3, <3>1, <3>2 DEF InChannel
  <2>11. TakenFacts'
    <3> SUFFICES ASSUME NEW q \in Stream, NEW b \in Batch, NEW p \in DOMAIN taken'[q],
                        NEW j \in DOMAIN Events[b], taken'[q][p] = Events[b][j], NEW i \in 1 .. j - 1
                 PROVE  \/ Events[b][i] \in skipped'
                        \/ \E k \in 1 .. p - 1 : taken'[q][k] = Events[b][i]
      BY DEF TakenFacts, TakenInOrder
    <3>1. CASE q # s
      <4>1. taken'[q] = taken[q]  BY <2>4, <3>1
      <4> QED  BY SMT, <1>1, <2>1, <4>1 DEF TakenFacts, TakenInOrder
    <3>2. CASE q = s /\ p \in 1 .. Len(taken[s])
      <4>1. \/ Events[b][i] \in skipped
            \/ \E k \in 1 .. p - 1 : taken[s][k] = Events[b][i]
        <5>1. p \in DOMAIN taken[s] /\ taken[s][p] = Events[b][j]  BY <2>6, <3>2
        <5> QED  BY <2>1, <5>1 DEF TakenFacts, TakenInOrder
      <4>2. \A k \in 1 .. p - 1 : taken'[s][k] = taken[s][k]  BY SMT, <2>6, <3>2
      <4> QED  BY <1>1, <3>2, <4>1, <4>2
    <3>3. CASE q = s /\ p = Len(taken[s]) + 1
      <4>1. 1 \in DOMAIN ch /\ ch[1] = Events[b][j]  BY SMT, <2>3, <2>6, <3>3
      <4>2. \/ Events[b][i] \in skipped \/ InTaken(Events[b][i])
            \/ \E k \in 1 .. 1 - 1 : ch[k] = Events[b][i]
        BY <2>1, <4>1 DEF ChannelFacts
      <4>3. ASSUME InTaken(Events[b][i])
            PROVE  \E k \in 1 .. p - 1 : taken'[s][k] = Events[b][i]
        <5>1. PICK k \in 1 .. Len(taken[s]) : taken[s][k] = Events[b][i]
          BY <2>2, <2>6, <4>3 DEF InTaken
        <5>2. k \in 1 .. p - 1 /\ taken'[s][k] = Events[b][i]  BY SMT, <2>6, <3>3, <5>1
        <5> QED  BY <5>2
      <4>4. ~ \E k \in 1 .. 1 - 1 : ch[k] = Events[b][i]  BY SMT
      <4> QED  BY Zenon, <1>1, <3>3, <4>2, <4>3, <4>4
    <3> QED  BY SMT, <2>6, <3>1, <3>2, <3>3
  <2>12. ChannelFacts'
    <3> SUFFICES ASSUME NEW b \in Batch, NEW p \in DOMAIN ch', NEW j \in DOMAIN Events[b],
                        ch'[p] = Events[b][j], NEW i \in 1 .. j - 1
                 PROVE  \/ Events[b][i] \in skipped' \/ InTaken(Events[b][i])'
                        \/ \E q \in 1 .. p - 1 : ch'[q] = Events[b][i]
      BY DEF ChannelFacts
    <3>1. p \in 1 .. Len(ch) - 1 /\ p + 1 \in DOMAIN ch /\ ch[p + 1] = Events[b][j]  BY SMT, <2>3
    <3>2. \/ Events[b][i] \in skipped \/ InTaken(Events[b][i])
          \/ \E q \in 1 .. p + 1 - 1 : ch[q] = Events[b][i]
      BY SMT, <2>1, <3>1 DEF ChannelFacts
    <3>3. ASSUME NEW q \in 1 .. p + 1 - 1, ch[q] = Events[b][i], Events[b][i] # h
          PROVE  \E k \in 1 .. p - 1 : ch'[k] = Events[b][i]
      <4>1. q # 1  BY <2>3, <3>3
      <4>2. q - 1 \in 1 .. p - 1 /\ q - 1 \in 1 .. Len(ch) - 1  BY SMT, <2>3, <3>1, <4>1
      <4>3. ch'[q - 1] = Events[b][i]  BY SMT, <2>3, <3>3, <4>2
      <4> QED  BY <4>2, <4>3
    <3> QED  BY <1>1, <2>8, <2>9, <3>2, <3>3
  <2>13. TodoFacts'
    <3> SUFFICES ASSUME NEW b \in Batch, todo'[b] # <<>>
                 PROVE  /\ Sent(b)' \in Nat
                        /\ \A i \in 1 .. Len(todo'[b]) : todo'[b][i] = Events[b][Sent(b)' + i]
                        /\ \A i \in 1 .. Sent(b)' : \/ Events[b][i] \in skipped'
                                                    \/ InTaken(Events[b][i])' \/ InChannel(Events[b][i])'
      BY DEF TodoFacts
    <3>1. todo'[b] = todo[b] /\ Sent(b)' = Sent(b)  BY <1>1 DEF Sent
    <3> QED  BY Zenon, <1>1, <2>1, <2>8, <2>9, <2>10, <3>1 DEF TodoFacts
  <2> QED  BY <1>1, <2>1, <2>7, <2>11, <2>12, <2>13 DEF OrderInv, OrderFacts
<1> QED  BY <1>1, <1>2 DEF OrderInv

\* Nothing is sent before the listener exists.
LEMMA OrderInit == Init => OrderInv
<1>1. ASSUME Init  PROVE /\ OrderTypes /\ ch = <<>> /\ \A b \in Batch : todo[b] = <<>>
                         /\ \A s \in Stream : taken[s] = <<>>
  BY SMT, <1>1 DEF Init, OrderTypes
<1>2. ASSUME Init  PROVE TakenFacts /\ ChannelFacts /\ TodoFacts
  BY SMT, <1>1, <1>2 DEF TakenFacts, TakenInOrder, ChannelFacts, TodoFacts
<1> QED  BY <1>1, <1>2 DEF OrderInv, OrderFacts

\* Every step keeps the events of a batch in order.
LEMMA OrderStepKept == HoldInv /\ OrderInv /\ [Next]_vars => OrderInv'
<1> USE DEF listenerVars, holdVars, clientVars, eventVars
<1> DEFINE Quiet == /\ UNCHANGED <<kind, ch, todo, taken, skipped>> /\ (entry' = "none" => entry = "none")
                    /\ (kind = "events" => UNCHANGED owner)
<1>1. CASE UNCHANGED vars
  <2>1. Quiet  BY <1>1 DEF vars
  <2> QED  BY <2>1, OrderQuiet
<1>2. ASSUME NEW s \in Stream,
             \/ GetSubscriptionInline(s) \/ GetSubscription(s) \/ Cancel(s)
             \/ AttachInline(s) \/ applyInitialFilter(s) \/ FirstSelect(s) \/ SelectSignal(s) \/ Release(s)
      PROVE  Quiet
  BY <1>2 DEF GetSubscriptionInline, GetSubscription, Cancel, AttachInline, applyInitialFilter, FirstSelect,
              SelectSignal, Release, Discard
<1>3. ASSUME NEW t \in Timer, TimerStep(t)  PROVE Quiet
  BY <1>3 DEF TimerStep, Fire, Expire, Discard
<1>4. ASSUME NEW r \in Request, Call(r) \/ RequestStep(r)  PROVE Quiet
  BY Zenon, <1>4 DEF Call, RequestStep, NotFound, ChangeTopics, installTxFilters, getTxFilters, removeListener, Discard
<1>5. SubscribeForScripts \/ StartTimeout => Quiet  BY DEF SubscribeForScripts, StartTimeout
<1>6. ASSUME OrderInv, NEW b \in Batch, GiveUp(b) \/ Timeout(b)  PROVE OrderInv'
  <2>1. kind = "events" /\ todo[b] # <<>> /\ Stop(b) /\ UNCHANGED <<kind, entry, owner, ch, taken, skipped>>
    BY <1>6 DEF GiveUp, Timeout
  <2> QED  BY <1>6, <2>1, OrderStop
<1>7. ASSUME OrderInv, NEW b \in Batch, Drop(b)  PROVE OrderInv'
  BY ZenonT(30), <1>7 DEF Drop, OrderInv
<1>8. ASSUME HoldInv, OrderInv, Next, ~ Quiet  PROVE OrderInv'
  BY <1>2, <1>3, <1>4, <1>5, <1>6, <1>7, <1>8, OrderOpen, OrderBroadcast, OrderSkip, OrderDeliver, OrderSelect
  DEF Next, ServerStep, Open, StreamStep, DeliveryStep
<1> QED  BY <1>1, <1>8, OrderQuiet

\* The events of a batch reach a stream of GetEventStream in the order of the batch, without
\* a gap but for those no topic matches, whatever the goroutines of other batches send in
\* between and wherever the stream ends.
THEOREM BatchAlwaysInOrder == Spec => []BatchInOrder
<1>1. OrderInv => BatchInOrder  BY DEF OrderInv, OrderFacts, TakenFacts, BatchInOrder
<1> QED  BY <1>1, HoldInit, HoldStepKept, OrderInit, OrderStepKept, PTL DEF Spec
=============================================================================
