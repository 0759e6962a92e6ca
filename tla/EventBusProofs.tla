--------------------------- MODULE EventBusProofs ---------------------------
(***************************************************************************)
(* Proofs about EventBus for any sets of threads, events and ids.          *)
(*                                                                         *)
(* RegInv is the inductive strengthening of the registration properties:   *)
(* what the two dictionaries and the calls in progress know of each id.    *)
(* DeliveryInv adds what a running publish knows of its snapshot.          *)
(***************************************************************************)
EXTENDS EventBus, TLAPS

Busy(t) == pc[t] \in {"adding", "removing"}

\* A call that adds or removes a handler knows its id and its event.
Shape == \A t \in Threads : Busy(t) => sid[t] \in Ids /\ ev[t] \in Events

TypeInv == TypeOK /\ Shape

\* An id that was never added is nowhere.
Fresh ==
  \A id \in Ids : addedAt[id] = 0 =>
    /\ id \notin returned
    /\ \A e \in Events : id \notin handlers[e]

\* An id is in the list of one event at most.
OneList ==
  \A id \in Ids : \A e, f \in Events :
    id \in handlers[e] /\ id \in handlers[f] => e = f

\* The id of a busy call is in the list of its event and not in the other
\* dictionary; its caller holds it only if the call removes it.
BusyHolds ==
  \A t \in Threads : Busy(t) =>
    /\ sid[t] \in handlers[ev[t]]
    /\ subscriptionEvents[sid[t]] = None
    /\ removals[sid[t]] = 0
    /\ sid[t] \in returned <=> pc[t] = "removing"

\* No two busy calls work on the same id.
BusyAlone ==
  \A t, u \in Threads : Busy(t) /\ Busy(u) /\ sid[t] = sid[u] => t = u

\* An entry of _subscriptionEvents belongs to a returned id in that list.
EntryHolds ==
  \A id \in Ids, e \in Events :
    subscriptionEvents[id] = e => id \in returned /\ id \in handlers[e]

\* A handler without an entry is in the hands of a busy call.
HandlerHolds ==
  \A id \in Ids, e \in Events : id \in handlers[e] =>
    \/ subscriptionEvents[id] = e
    \/ \E t \in Threads : Busy(t) /\ sid[t] = id /\ ev[t] = e

\* A removed id is gone from both dictionaries, and was removed once.
RemovedGone ==
  \A id \in Ids : removals[id] # 0 =>
    /\ removals[id] = 1
    /\ id \in returned
    /\ subscriptionEvents[id] = None
    /\ \A e \in Events : id \notin handlers[e]

\* A returned id without an entry was removed or is being removed.
LostHasWinner ==
  \A id \in returned : subscriptionEvents[id] = None =>
    \/ removals[id] = 1
    \/ \E t \in Threads : pc[t] = "removing" /\ sid[t] = id

RefusedLost ==
  \A id \in refused : id \in returned /\ subscriptionEvents[id] = None

RegInv ==
  /\ TypeInv
  /\ Fresh
  /\ OneList
  /\ BusyHolds
  /\ BusyAlone
  /\ EntryHolds
  /\ HandlerHolds
  /\ RemovedGone
  /\ LostHasWinner
  /\ RefusedLost

-----------------------------------------------------------------------------
(* The variables keep their shapes (TypeOK), for any number of threads,    *)
(* events and ids: the first half of every other invariant.                *)
LEMMA TypeInvInit == Init => TypeInv
<1> SUFFICES ASSUME Init PROVE TypeInv
  OBVIOUS
<1> USE DEF Init
<1>1. TypeOK
  BY DEF TypeOK, PCs, Outcomes
<1>2. Shape
  BY DEF Shape, Busy
<1> QED
  BY <1>1, <1>2 DEF TypeInv

\* What the winning TryRemove of an Unsubscribe changes.
LEMMA ClaimEffect ==
  ASSUME NEW t, NEW id, RemovedSubscriptionEvent(t, id),
         subscriptionEvents[id] # None
  PROVE  /\ pc[t] = "idle" /\ id \in returned
         /\ subscriptionEvents' = [subscriptionEvents EXCEPT ![id] = None]
         /\ pc' = [pc EXCEPT ![t] = "removing"]
         /\ ev' = [ev EXCEPT ![t] = subscriptionEvents[id]]
         /\ sid' = [sid EXCEPT ![t] = id]
         /\ UNCHANGED <<handlers, addedAt, clock, pending, returned, removals,
                        refused, log, audience, excluded, outcome>>
BY DEF RemovedSubscriptionEvent, Call, pubHist

LEMMA TypeInvNext == TypeInv /\ [Next]_vars => TypeInv'
<1> SUFFICES ASSUME TypeInv, [Next]_vars PROVE TypeInv'
  OBVIOUS
<1> USE DEF TypeInv, TypeOK, Shape, Busy, PCs, Outcomes, table, subHist, pubHist
<1>1. ASSUME NEW t \in Threads, NEW e \in Events, NEW id \in Ids,
             Subscribe(t, e, id)
      PROVE  TypeInv'
  BY <1>1 DEF Subscribe, Call
<1>2. ASSUME NEW t \in Threads, RecordSubscription(t) PROVE TypeInv'
  BY <1>2 DEF RecordSubscription, Return, Call
<1>3. ASSUME NEW t \in Threads, NEW e \in Events, Publish(t, e) PROVE TypeInv'
  BY <1>3 DEF Publish, Call, SnapshotHandlers, Closed
<1>4. ASSUME NEW t \in Threads, NEW id \in Ids, Invoke(t, id) PROVE TypeInv'
  BY <1>4 DEF Invoke
<1>5. ASSUME NEW t \in Threads, HandlerCompletes(t) PROVE TypeInv'
  BY <1>5 DEF HandlerCompletes
<1>6. ASSUME NEW t \in Threads, NEW how \in Outcomes, EndPublish(t, how)
      PROVE  TypeInv'
  BY <1>6 DEF EndPublish, Return, Call
<1>7. ASSUME NEW t \in Threads, NEW id \in Ids, RemovedSubscriptionEvent(t, id)
      PROVE  TypeInv'
  <2>1. CASE subscriptionEvents[id] = None
    BY <1>7, <2>1 DEF RemovedSubscriptionEvent
  <2>2. CASE subscriptionEvents[id] # None
    <3>1. /\ subscriptionEvents[id] \in Events
          /\ subscriptionEvents' = [subscriptionEvents EXCEPT ![id] = None]
          /\ pc' = [pc EXCEPT ![t] = "removing"]
          /\ ev' = [ev EXCEPT ![t] = subscriptionEvents[id]]
          /\ sid' = [sid EXCEPT ![t] = id]
          /\ UNCHANGED <<handlers, addedAt, clock, pending, returned, removals,
                         refused, log, audience, excluded, outcome>>
      BY <1>7, <2>2, ClaimEffect
    <3>2. TypeOK'
      BY <3>1
    <3>3. Shape'
      BY <3>1
    <3> QED
      BY <3>2, <3>3
  <2> QED
    BY <2>1, <2>2
<1>8. ASSUME NEW t \in Threads, RemoveHandler(t) PROVE TypeInv'
  BY <1>8 DEF RemoveHandler, Return, Call
<1>9. CASE UNCHANGED vars
  BY <1>9 DEF vars
<1> QED
  BY <1>1, <1>2, <1>3, <1>4, <1>5, <1>6, <1>7, <1>8, <1>9
  DEF Next, Step, HandlerThrows, CancelPublish, FinishPublish

THEOREM TypeCorrect == Spec => []TypeOK
<1>1. TypeInv => TypeOK
  BY DEF TypeInv
<1> QED
  BY TypeInvInit, TypeInvNext, <1>1, PTL DEF Spec
-----------------------------------------------------------------------------
LEMMA RegInvInit == Init => RegInv
<1> SUFFICES ASSUME Init PROVE RegInv
  OBVIOUS
<1> USE EventBusAssumption DEF Init, Busy
<1>1. Fresh /\ OneList
  BY DEF Fresh, OneList
<1>2. BusyHolds /\ BusyAlone
  BY DEF BusyHolds, BusyAlone
<1>3. EntryHolds /\ HandlerHolds
  BY DEF EntryHolds, HandlerHolds
<1>4. RemovedGone /\ LostHasWinner /\ RefusedLost
  BY DEF RemovedGone, LostHasWinner, RefusedLost
<1> QED
  BY TypeInvInit, <1>1, <1>2, <1>3, <1>4 DEF RegInv

\* The steps of a publish leave everything RegInv speaks of alone, except that
\* the thread moves between states in which it is not busy.
LEMMA RegInvPublish ==
  ASSUME RegInv, TypeInv', NEW t \in Threads,
         ~Busy(t), ~Busy(t)',
         \A u \in Threads \ {t} : pc'[u] = pc[u] /\ sid'[u] = sid[u] /\ ev'[u] = ev[u],
         UNCHANGED <<table, subHist>>
  PROVE  RegInv'
<1> USE DEF table, subHist, Busy
<1>1. Fresh' /\ OneList'
  BY DEF RegInv, Fresh, OneList
<1>2. BusyHolds' /\ BusyAlone'
  BY DEF RegInv, BusyHolds, BusyAlone
<1>3. EntryHolds' /\ HandlerHolds'
  BY DEF RegInv, EntryHolds, HandlerHolds
<1>4. RemovedGone' /\ LostHasWinner' /\ RefusedLost'
  BY DEF RegInv, RemovedGone, LostHasWinner, RefusedLost
<1> QED
  BY <1>1, <1>2, <1>3, <1>4 DEF RegInv

LEMMA RegInvSubscribe ==
  ASSUME RegInv, TypeInv', NEW t \in Threads, NEW e \in Events, NEW id \in Ids,
         Subscribe(t, e, id)
  PROVE  RegInv'
<1> USE EventBusAssumption DEF Subscribe, Call, Busy, subHist, TypeInv, TypeOK, Shape
<1>1. Fresh' /\ OneList'
  BY DEF RegInv, Fresh, OneList
<1>2. BusyHolds'
  BY DEF RegInv, BusyHolds, Fresh, EntryHolds, RemovedGone
<1>3. BusyAlone'
  BY DEF RegInv, BusyAlone, BusyHolds, Fresh
<1>4. EntryHolds'
  BY DEF RegInv, EntryHolds
<1>5. HandlerHolds'
  <2> SUFFICES ASSUME NEW i \in Ids, NEW f \in Events, i \in handlers'[f],
                      subscriptionEvents'[i] # f
               PROVE  \E u \in Threads : Busy(u)' /\ sid'[u] = i /\ ev'[u] = f
    BY DEF HandlerHolds
  <2>1. CASE i \in handlers[f]
    <3>1. PICK u \in Threads : Busy(u) /\ sid[u] = i /\ ev[u] = f
      BY <2>1 DEF RegInv, HandlerHolds
    <3> QED
      BY <3>1
  <2>2. CASE i \notin handlers[f]
    <3>1. i = id /\ f = e
      BY <2>2 DEF RegInv
    <3> QED
      BY <3>1 DEF RegInv
  <2> QED
    BY <2>1, <2>2
<1>6. RemovedGone' /\ LostHasWinner' /\ RefusedLost'
  BY DEF RegInv, RemovedGone, LostHasWinner, RefusedLost, Fresh
<1> QED
  BY <1>1, <1>2, <1>3, <1>4, <1>5, <1>6 DEF RegInv

LEMMA RegInvRecord ==
  ASSUME RegInv, TypeInv', NEW t \in Threads, RecordSubscription(t)
  PROVE  RegInv'
<1> USE EventBusAssumption
    DEF RecordSubscription, Return, Call, Busy, TypeInv, TypeOK, Shape
<1>1. Fresh' /\ OneList'
  BY DEF RegInv, Fresh, OneList, BusyHolds
<1>2. BusyHolds'
  BY DEF RegInv, BusyHolds, BusyAlone
<1>3. BusyAlone'
  BY DEF RegInv, BusyAlone
<1>4. EntryHolds'
  BY DEF RegInv, EntryHolds, BusyHolds
<1>5. HandlerHolds'
  BY DEF RegInv, HandlerHolds, BusyHolds
<1>6. RemovedGone'
  BY DEF RegInv, RemovedGone, BusyHolds
<1>7. LostHasWinner' /\ RefusedLost'
  BY DEF RegInv, LostHasWinner, RefusedLost, BusyHolds
<1> QED
  BY <1>1, <1>2, <1>3, <1>4, <1>5, <1>6, <1>7 DEF RegInv

LEMMA RegInvClaim ==
  ASSUME RegInv, TypeInv', NEW t \in Threads, NEW id \in Ids,
         RemovedSubscriptionEvent(t, id)
  PROVE  RegInv'
<1> USE EventBusAssumption
    DEF Busy, TypeInv, TypeOK, Shape
<1>a. CASE subscriptionEvents[id] = None
  <2>1. RefusedLost'
    BY <1>a DEF RegInv, RefusedLost, RemovedSubscriptionEvent
  <2> QED
    BY <1>a, <2>1 DEF RegInv, Fresh, OneList, BusyHolds, BusyAlone, EntryHolds,
                      HandlerHolds, RemovedGone, LostHasWinner,
                      RemovedSubscriptionEvent
<1>b. CASE subscriptionEvents[id] # None
  <2> USE <1>b
  <2>0. /\ subscriptionEvents[id] \in Events
        /\ id \in returned /\ pc[t] = "idle"
        /\ subscriptionEvents' = [subscriptionEvents EXCEPT ![id] = None]
        /\ pc' = [pc EXCEPT ![t] = "removing"]
        /\ ev' = [ev EXCEPT ![t] = subscriptionEvents[id]]
        /\ sid' = [sid EXCEPT ![t] = id]
        /\ UNCHANGED <<handlers, addedAt, clock, returned, removals, refused>>
    BY ClaimEffect DEF RegInv
  <2>1. Fresh' /\ OneList'
    BY <2>0 DEF RegInv, Fresh, OneList
  <2>2. BusyHolds'
    BY <2>0 DEF RegInv, BusyHolds, EntryHolds, RemovedGone
  <2>3. BusyAlone'
    BY <2>0 DEF RegInv, BusyAlone, BusyHolds
  <2>4. EntryHolds'
    BY <2>0 DEF RegInv, EntryHolds
  <2>5. HandlerHolds'
    <3> SUFFICES ASSUME NEW i \in Ids, NEW f \in Events, i \in handlers'[f],
                        subscriptionEvents'[i] # f
                 PROVE  \E u \in Threads : Busy(u)' /\ sid'[u] = i /\ ev'[u] = f
      BY DEF HandlerHolds
    <3>1. CASE i = id
      <4>1. f = subscriptionEvents[id]
        BY <2>0, <3>1 DEF RegInv, EntryHolds, OneList
      <4>2. Busy(t)' /\ sid'[t] = i /\ ev'[t] = f
        BY <2>0, <3>1, <4>1 DEF RegInv
      <4> QED
        BY <4>2
    <3>2. CASE i # id
      <4>1. PICK u \in Threads : Busy(u) /\ sid[u] = i /\ ev[u] = f
        BY <2>0, <3>2 DEF RegInv, HandlerHolds
      <4>2. Busy(u)' /\ sid'[u] = i /\ ev'[u] = f
        BY <2>0, <4>1 DEF RegInv
      <4> QED
        BY <4>2
    <3> QED
      BY <3>1, <3>2
  <2>6. RemovedGone' /\ RefusedLost'
    BY <2>0 DEF RegInv, RemovedGone, RefusedLost
  <2>7. LostHasWinner'
    BY <2>0 DEF RegInv, LostHasWinner
  <2> QED
    BY <2>1, <2>2, <2>3, <2>4, <2>5, <2>6, <2>7 DEF RegInv
<1> QED
  BY <1>a, <1>b

LEMMA RegInvRemove ==
  ASSUME RegInv, TypeInv', NEW t \in Threads, RemoveHandler(t)
  PROVE  RegInv'
<1> USE EventBusAssumption
    DEF RemoveHandler, Return, Call, Busy, TypeInv, TypeOK, Shape
<1>a. /\ sid[t] \in Ids /\ ev[t] \in Events
      /\ removals' = [removals EXCEPT ![sid[t]] = @ + 1]
      /\ UNCHANGED refused
  BY DEF RegInv, BusyHolds
<1>1. Fresh' /\ OneList'
  BY DEF RegInv, Fresh, OneList
<1>2. BusyHolds'
  BY <1>a DEF RegInv, BusyHolds, BusyAlone
<1>3. BusyAlone'
  BY DEF RegInv, BusyAlone
<1>4. EntryHolds'
  BY <1>a DEF RegInv, EntryHolds, BusyHolds
<1>5. HandlerHolds'
  BY DEF RegInv, HandlerHolds
<1>6. RemovedGone'
  BY <1>a DEF RegInv, RemovedGone, BusyHolds, OneList
<1>7. LostHasWinner'
  BY <1>a DEF RegInv, LostHasWinner, BusyHolds
<1>8. RefusedLost'
  BY <1>a DEF RegInv, RefusedLost
<1> QED
  BY <1>1, <1>2, <1>3, <1>4, <1>5, <1>6, <1>7, <1>8 DEF RegInv

LEMMA RegInvNext == RegInv /\ [Next]_vars => RegInv'
<1> SUFFICES ASSUME RegInv, [Next]_vars PROVE RegInv'
  OBVIOUS
<1>0. TypeInv'
  BY TypeInvNext DEF RegInv
<1> USE <1>0 DEF RegInv, TypeInv, TypeOK, Busy
<1>1. ASSUME NEW t \in Threads, NEW e \in Events, Publish(t, e) PROVE RegInv'
  BY <1>1, RegInvPublish DEF Publish, Call
<1>2. ASSUME NEW t \in Threads, NEW id \in Ids, Invoke(t, id) PROVE RegInv'
  BY <1>2, RegInvPublish DEF Invoke
<1>3. ASSUME NEW t \in Threads, HandlerCompletes(t) PROVE RegInv'
  BY <1>3, RegInvPublish DEF HandlerCompletes, pubHist
<1>4. ASSUME NEW t \in Threads, NEW how \in Outcomes, EndPublish(t, how),
             pc[t] \in {"publishing", "handling"}
      PROVE  RegInv'
  BY <1>4, RegInvPublish DEF EndPublish, Return, Call
<1>5. CASE UNCHANGED vars
  BY <1>5 DEF vars, table, subHist, Fresh, OneList, BusyHolds, BusyAlone, EntryHolds,
              HandlerHolds, RemovedGone, LostHasWinner, RefusedLost
<1> QED
  BY <1>1, <1>2, <1>3, <1>4, <1>5,
     RegInvSubscribe, RegInvRecord, RegInvClaim, RegInvRemove
  DEF Next, Step, HandlerThrows, CancelPublish, FinishPublish, Outcomes

LEMMA RegInvCorrect == Spec => []RegInv
  BY RegInvInit, RegInvNext, PTL DEF Spec

(* No subscription is left in a list without the id that removes it, for   *)
(* any number of concurrent callers.                                       *)
THEOREM NoOrphanedHandlerCorrect == Spec => []NoOrphanedHandler
<1>1. RegInv => NoOrphanedHandler
  BY DEF RegInv, NoOrphanedHandler, EntryHolds, HandlerHolds, Busy
<1> QED
  BY RegInvCorrect, <1>1, PTL

(* Exactly one of the callers that unsubscribe an id is told so.           *)
THEOREM OneUnsubscribeWinsCorrect == Spec => []OneUnsubscribeWins
<1>1. RegInv => OneUnsubscribeWins
  BY DEF RegInv, OneUnsubscribeWins, RemovedGone, LostHasWinner, RefusedLost
<1> QED
  BY RegInvCorrect, <1>1, PTL

-----------------------------------------------------------------------------
\* The order of additions is a strict order on the ids that were added.
Stamped ==
  /\ \A id \in Ids : addedAt[id] <= clock
  /\ \A i, j \in Ids : addedAt[i] = addedAt[j] /\ addedAt[i] # 0 => i = j

\* Only handlers that were in a list are invoked.
PendingAdded ==
  \A t \in Threads : \A id \in pending[t] : addedAt[id] # 0

\* Only a running publish has anything left to invoke.
PendingRuns ==
  \A t \in Threads : pending[t] # {} => Running(t)

LogAdded ==
  \A t \in Threads : \A i \in DOMAIN log[t] : addedAt[log[t][i]] # 0

\* What is still to be invoked was added after all that was invoked.
PendingLater ==
  \A t \in Threads : \A i \in DOMAIN log[t] : \A id \in pending[t] :
    addedAt[log[t][i]] < addedAt[id]

\* While it runs, a publish still has every member of its audience in hand.
AudienceInHand ==
  \A t \in Threads :
    /\ Running(t) => audience[t] \subseteq Invoked(t) \cup pending[t]
    /\ Running(t) => outcome[t] = "none"

DeliveryInv ==
  /\ RegInv
  /\ Stamped
  /\ PendingAdded
  /\ PendingRuns
  /\ LogAdded
  /\ PendingLater
  /\ DeliveryFollowsSubscriptionOrder
  /\ NoDeliveryAfterUnsubscribe
  /\ AudienceInHand
  /\ CompletedPublishMissesNobody

LEMMA DeliveryInvInit == Init => DeliveryInv
<1> SUFFICES ASSUME Init PROVE DeliveryInv
  OBVIOUS
<1>1. RegInv
  BY RegInvInit
<1>2. Stamped /\ PendingAdded /\ PendingRuns /\ LogAdded /\ PendingLater
  BY DEF Init, Stamped, PendingAdded, PendingRuns, LogAdded, PendingLater
<1>3. DeliveryFollowsSubscriptionOrder /\ NoDeliveryAfterUnsubscribe
  BY DEF Init, DeliveryFollowsSubscriptionOrder, NoDeliveryAfterUnsubscribe, Invoked
<1>4. AudienceInHand /\ CompletedPublishMissesNobody
  BY DEF Init, AudienceInHand, CompletedPublishMissesNobody, Running
<1> QED
  BY <1>1, <1>2, <1>3, <1>4 DEF DeliveryInv

\* A step of another call leaves every publish alone; a subscription adds an
\* id that no publish has heard of.
LEMMA DeliveryInvOthers ==
  ASSUME DeliveryInv, RegInv', Stamped',
         UNCHANGED <<pending, log, audience, excluded, outcome>>,
         \A t \in Threads : Running(t)' <=> Running(t),
         \A id \in Ids : addedAt[id] # 0 => addedAt'[id] = addedAt[id]
  PROVE  DeliveryInv'
<1> USE DEF DeliveryInv, RegInv, TypeInv, TypeOK
<1>1. \A t \in Threads : \A i \in DOMAIN log[t] :
        log[t][i] \in Ids /\ addedAt'[log[t][i]] = addedAt[log[t][i]]
  BY DEF LogAdded
<1>2. \A t \in Threads : \A id \in pending[t] : addedAt'[id] = addedAt[id]
  BY DEF PendingAdded
<1>3. PendingAdded' /\ PendingRuns' /\ LogAdded' /\ PendingLater'
  BY <1>1, <1>2 DEF PendingAdded, PendingRuns, LogAdded, PendingLater
<1>4. DeliveryFollowsSubscriptionOrder'
  BY <1>1 DEF DeliveryFollowsSubscriptionOrder
<1>5. \A t \in Threads : Invoked(t)' = Invoked(t)
  BY DEF Invoked
<1>6. NoDeliveryAfterUnsubscribe' /\ AudienceInHand' /\ CompletedPublishMissesNobody'
  BY <1>5 DEF NoDeliveryAfterUnsubscribe, AudienceInHand, CompletedPublishMissesNobody
<1> QED
  BY <1>3, <1>4, <1>6

LEMMA StampedNext == DeliveryInv /\ [Next]_vars => Stamped'
<1> SUFFICES ASSUME DeliveryInv, [Next]_vars PROVE Stamped'
  OBVIOUS
<1> USE DEF DeliveryInv, RegInv, TypeInv, TypeOK
<1>1. ASSUME NEW t \in Threads, NEW e \in Events, NEW id \in Ids,
             Subscribe(t, e, id)
      PROVE  Stamped'
  BY <1>1 DEF Subscribe, Stamped
<1>2. ASSUME UNCHANGED <<addedAt, clock>> PROVE Stamped'
  BY <1>2 DEF Stamped
<1> QED
  BY <1>1, <1>2 DEF Next, Step, vars, table, RecordSubscription, Publish, Invoke,
     HandlerCompletes, HandlerThrows, CancelPublish, FinishPublish, EndPublish,
     RemovedSubscriptionEvent, RemoveHandler

LEMMA DeliveryInvPublish ==
  ASSUME DeliveryInv, RegInv', Stamped', NEW t \in Threads, NEW e \in Events,
         Publish(t, e)
  PROVE  DeliveryInv'
<1> USE DEF DeliveryInv, RegInv, TypeInv, TypeOK, Publish, Call, SnapshotHandlers,
            table, subHist
<1>1. PendingAdded' /\ PendingRuns' /\ LogAdded' /\ PendingLater'
  BY DEF PendingAdded, PendingRuns, Running, LogAdded, PendingLater, Fresh
<1>2. DeliveryFollowsSubscriptionOrder'
  BY DEF DeliveryFollowsSubscriptionOrder
<1>3. Invoked(t)' = {} /\ \A u \in Threads \ {t} : Invoked(u)' = Invoked(u)
  BY DEF Invoked
<1>4. handlers[e] \cap Closed = {}
  <2> SUFFICES ASSUME NEW id \in Ids, removals[id] > 0 PROVE id \notin handlers[e]
    BY DEF Closed
  <2>1. removals[id] # 0
    OBVIOUS
  <2> QED
    BY <2>1 DEF RemovedGone
<1>5. NoDeliveryAfterUnsubscribe'
  BY <1>3, <1>4 DEF NoDeliveryAfterUnsubscribe
<1>6. {id \in returned : subscriptionEvents[id] = e} \subseteq handlers[e]
  BY DEF EntryHolds
<1>7. AudienceInHand'
  BY <1>3, <1>6 DEF AudienceInHand, Running
<1>8. CompletedPublishMissesNobody'
  BY <1>3 DEF CompletedPublishMissesNobody
<1> QED
  BY <1>1, <1>2, <1>5, <1>7, <1>8

LEMMA DeliveryInvInvoke ==
  ASSUME DeliveryInv, RegInv', Stamped', NEW t \in Threads, NEW id \in Ids,
         Invoke(t, id)
  PROVE  DeliveryInv'
<1> USE DEF DeliveryInv, RegInv, TypeInv, TypeOK, Invoke, IsNext, table
<1>1. /\ log'[t] = Append(log[t], id)
      /\ pending'[t] = pending[t] \ {id}
      /\ \A u \in Threads \ {t} : log'[u] = log[u] /\ pending'[u] = pending[u]
      /\ UNCHANGED <<addedAt, audience, excluded, outcome>>
  OBVIOUS
<1>2. /\ DOMAIN log'[t] = 1..(Len(log[t]) + 1)
      /\ DOMAIN log[t] = 1..Len(log[t])
      /\ Len(log[t]) \in Nat
      /\ log'[t][Len(log[t]) + 1] = id
      /\ \A i \in 1..Len(log[t]) : log'[t][i] = log[t][i] /\ log[t][i] \in Ids
  BY <1>1
<1>3. \A other \in pending'[t] : addedAt[id] < addedAt[other]
  BY <1>1 DEF Stamped, PendingAdded
<1>4. \A i \in 1..Len(log[t]) : addedAt[log[t][i]] < addedAt[id]
  BY <1>2 DEF PendingLater
<1>5. PendingAdded' /\ PendingRuns' /\ LogAdded'
  BY <1>1, <1>2 DEF PendingAdded, PendingRuns, Running, LogAdded
<1>6. PendingLater'
  <2> SUFFICES ASSUME NEW u \in Threads, NEW i \in DOMAIN log'[u],
                      NEW other \in pending'[u]
               PROVE  addedAt[log'[u][i]] < addedAt[other]
    BY <1>1 DEF PendingLater
  <2>1. CASE u # t
    BY <1>1, <2>1 DEF PendingLater
  <2>2. CASE u = t /\ i = Len(log[t]) + 1
    BY <1>2, <1>3, <2>2
  <2>3. CASE u = t /\ i # Len(log[t]) + 1
    <3>1. i \in DOMAIN log[t] /\ log'[t][i] = log[t][i] /\ other \in pending[t]
      BY <1>1, <1>2, <2>3
    <3> QED
      BY <2>3, <3>1 DEF PendingLater
  <2> QED
    BY <2>1, <2>2, <2>3
<1>7. DeliveryFollowsSubscriptionOrder'
  <2>1. ASSUME NEW i \in DOMAIN log'[t], NEW j \in DOMAIN log'[t], i < j
        PROVE  addedAt[log'[t][i]] < addedAt[log'[t][j]]
    <3>1. CASE j = Len(log[t]) + 1
      BY <1>2, <1>4, <2>1, <3>1
    <3>2. CASE j # Len(log[t]) + 1
      <4>0. i \in 1..Len(log[t]) /\ j \in 1..Len(log[t])
        <5> HIDE DEF DeliveryInv, RegInv, TypeInv, TypeOK, Invoke, IsNext
        <5> QED
          BY <1>2, <2>1, <3>2
      <4>1. /\ i \in DOMAIN log[t] /\ log'[t][i] = log[t][i]
            /\ j \in DOMAIN log[t] /\ log'[t][j] = log[t][j]
        BY <1>2, <4>0
      <4> QED
        BY <2>1, <4>1 DEF DeliveryFollowsSubscriptionOrder
    <3> QED
      BY <3>1, <3>2
  <2> QED
    BY <1>1, <2>1 DEF DeliveryFollowsSubscriptionOrder
<1>8. Invoked(t)' = Invoked(t) \cup {id}
  <2>1. ASSUME NEW x \in Invoked(t) PROVE x \in Invoked(t)'
    <3>1. PICK i \in DOMAIN log[t] : x = log[t][i]
      BY DEF Invoked
    <3>2. i \in DOMAIN log'[t] /\ log'[t][i] = x
      BY <1>2, <3>1
    <3> QED
      BY <3>2 DEF Invoked
  <2>2. id \in Invoked(t)'
    <3>1. Len(log[t]) + 1 \in DOMAIN log'[t]
      BY <1>2
    <3> QED
      BY <1>2, <3>1 DEF Invoked
  <2>3. ASSUME NEW x \in Invoked(t)', x # id PROVE x \in Invoked(t)
    <3>1. PICK i \in DOMAIN log'[t] : x = log'[t][i]
      BY DEF Invoked
    <3>2. i \in DOMAIN log[t] /\ log[t][i] = x
      BY <1>2, <2>3, <3>1
    <3> QED
      BY <3>2 DEF Invoked
  <2> QED
    BY <2>1, <2>2, <2>3
<1>9. \A u \in Threads \ {t} : Invoked(u)' = Invoked(u)
  BY <1>1 DEF Invoked
<1>10. NoDeliveryAfterUnsubscribe'
  BY <1>1, <1>8, <1>9 DEF NoDeliveryAfterUnsubscribe
<1>11. Running(t) /\ \A u \in Threads : Running(u)' <=> Running(u)
  BY DEF Running
<1>12. AudienceInHand'
  BY <1>1, <1>8, <1>9, <1>11 DEF AudienceInHand
<1>13. CompletedPublishMissesNobody'
  <2>1. outcome[t] = "none"
    BY <1>11 DEF AudienceInHand
  <2> SUFFICES ASSUME NEW u \in Threads, outcome'[u] = "completed"
               PROVE  audience'[u] \subseteq Invoked(u)'
    BY DEF CompletedPublishMissesNobody
  <2>2. u # t /\ outcome[u] = "completed" /\ audience'[u] = audience[u]
    BY <1>1, <2>1
  <2> QED
    BY <1>9, <2>2 DEF CompletedPublishMissesNobody
<1> QED
  BY <1>5, <1>6, <1>7, <1>10, <1>12, <1>13

LEMMA DeliveryInvEnd ==
  ASSUME DeliveryInv, RegInv', Stamped', NEW t \in Threads, NEW how \in Outcomes,
         Running(t), EndPublish(t, how),
         how = "completed" => pending[t] = {}
  PROVE  DeliveryInv'
<1> USE DEF DeliveryInv, RegInv, TypeInv, TypeOK, EndPublish, Return, Call, table
<1>1. PendingAdded' /\ PendingRuns' /\ LogAdded' /\ PendingLater'
  BY DEF PendingAdded, PendingRuns, Running, LogAdded, PendingLater
<1>2. DeliveryFollowsSubscriptionOrder'
  BY DEF DeliveryFollowsSubscriptionOrder
<1>3. \A u \in Threads : Invoked(u)' = Invoked(u)
  BY DEF Invoked
<1>4. NoDeliveryAfterUnsubscribe'
  BY <1>3 DEF NoDeliveryAfterUnsubscribe
<1>5. AudienceInHand' /\ CompletedPublishMissesNobody'
  BY <1>3 DEF AudienceInHand, CompletedPublishMissesNobody, Running
<1> QED
  BY <1>1, <1>2, <1>4, <1>5

LEMMA DeliveryInvNext == DeliveryInv /\ [Next]_vars => DeliveryInv'
<1> SUFFICES ASSUME DeliveryInv, [Next]_vars PROVE DeliveryInv'
  OBVIOUS
<1>0. RegInv' /\ Stamped'
  BY RegInvNext, StampedNext DEF DeliveryInv
<1> USE <1>0 DEF Running, table, pubHist
<1>t. TypeOK
  BY DEF DeliveryInv, RegInv, TypeInv
<1>1. ASSUME NEW t \in Threads, NEW e \in Events, NEW id \in Ids,
             Subscribe(t, e, id)
      PROVE  DeliveryInv'
  BY <1>1, <1>t, DeliveryInvOthers DEF Subscribe, Call, TypeOK
<1>2. ASSUME NEW t \in Threads, RecordSubscription(t) PROVE DeliveryInv'
  BY <1>2, <1>t, DeliveryInvOthers DEF RecordSubscription, Return, Call, TypeOK
<1>3. ASSUME NEW t \in Threads, HandlerCompletes(t) PROVE DeliveryInv'
  BY <1>3, <1>t, DeliveryInvOthers DEF HandlerCompletes, TypeOK
<1>4. ASSUME NEW t \in Threads, NEW id \in Ids, RemovedSubscriptionEvent(t, id)
      PROVE  DeliveryInv'
  <2>1. CASE subscriptionEvents[id] = None
    BY <1>4, <2>1, DeliveryInvOthers DEF RemovedSubscriptionEvent
  <2>2. CASE subscriptionEvents[id] # None
    <3>1. pc[t] = "idle" /\ pc' = [pc EXCEPT ![t] = "removing"]
      BY <1>4, <2>2, ClaimEffect
    <3>2. UNCHANGED <<addedAt, pending, log, audience, excluded, outcome>>
      BY <1>4, <2>2, ClaimEffect
    <3> QED
      BY <1>t, <3>1, <3>2, DeliveryInvOthers DEF TypeOK
  <2> QED
    BY <2>1, <2>2
<1>5. ASSUME NEW t \in Threads, RemoveHandler(t) PROVE DeliveryInv'
  BY <1>5, <1>t, DeliveryInvOthers DEF RemoveHandler, Return, Call, TypeOK
<1>6. ASSUME NEW t \in Threads,
             HandlerThrows(t) \/ CancelPublish(t) \/ FinishPublish(t)
      PROVE  DeliveryInv'
  BY <1>6, DeliveryInvEnd
  DEF HandlerThrows, CancelPublish, FinishPublish, Outcomes
<1>7. CASE UNCHANGED vars
  BY <1>7, DeliveryInvOthers DEF vars
<1> QED
  BY <1>1, <1>2, <1>3, <1>4, <1>5, <1>6, <1>7, DeliveryInvPublish, DeliveryInvInvoke
  DEF Next, Step

LEMMA DeliveryInvCorrect == Spec => []DeliveryInv
  BY DeliveryInvInit, DeliveryInvNext, PTL DEF Spec

(* Whatever subscribes or unsubscribes meanwhile, a publish invokes the    *)
(* handlers of its snapshot in subscription order and none of them twice.  *)
THEOREM DeliveryFollowsSubscriptionOrderCorrect ==
  Spec => []DeliveryFollowsSubscriptionOrder
<1>1. DeliveryInv => DeliveryFollowsSubscriptionOrder
  BY DEF DeliveryInv
<1> QED
  BY DeliveryInvCorrect, <1>1, PTL

(* No publish that starts after an Unsubscribe returned true reaches the   *)
(* handler it removed.                                                     *)
THEOREM NoDeliveryAfterUnsubscribeCorrect == Spec => []NoDeliveryAfterUnsubscribe
<1>1. DeliveryInv => NoDeliveryAfterUnsubscribe
  BY DEF DeliveryInv
<1> QED
  BY DeliveryInvCorrect, <1>1, PTL

(* A publish that returns normally has reached everybody who was           *)
(* subscribed when it started.                                             *)
THEOREM CompletedPublishMissesNobodyCorrect ==
  Spec => []CompletedPublishMissesNobody
<1>1. DeliveryInv => CompletedPublishMissesNobody
  BY DEF DeliveryInv
<1> QED
  BY DeliveryInvCorrect, <1>1, PTL

-----------------------------------------------------------------------------
(* The bus with its two dictionaries and its snapshots implements PubSub:  *)
(* every step is one PubSub step or leaves PubSub's state unchanged.       *)
THEOREM EventBusImplementsPubSub == Spec => Abstract!Spec
<1>1. Init => Abstract!Init
  BY DEF Init, Abstract!Init
<1>2. DeliveryInv /\ [Next]_vars => [Abstract!Next]_(Abstract!vars)
  <2> SUFFICES ASSUME DeliveryInv, [Next]_vars
               PROVE  Abstract!Next \/ UNCHANGED Abstract!vars
    OBVIOUS
  <2>t. TypeOK
    BY DEF DeliveryInv, RegInv, TypeInv
  <2> USE DEF table
  <2>1. ASSUME NEW t \in Threads, NEW e \in Events, NEW id \in Ids,
               Subscribe(t, e, id)
        PROVE  Abstract!Join(e, id)
    <3>1. {i \in Ids : addedAt'[i] # 0} = {i \in Ids : addedAt[i] # 0} \cup {id}
      BY <2>1, <2>t DEF Subscribe, TypeOK
    <3> QED
      BY <2>1, <3>1 DEF Subscribe, Abstract!Join
  <2>2. ASSUME NEW t \in Threads, NEW e \in Events, Publish(t, e)
        PROVE  Abstract!Start(t, e)
    <3>1. pending[t] = {}
      BY <2>2 DEF DeliveryInv, PendingRuns, Running, Publish
    <3> QED
      BY <2>2, <3>1 DEF Publish, SnapshotHandlers, Abstract!Start
  <2>3. ASSUME NEW t \in Threads, NEW id \in Ids, Invoke(t, id)
        PROVE  Abstract!Pay(t, id)
    BY <2>3 DEF Invoke, IsNext, Abstract!Pay
  <2>4. ASSUME NEW t \in Threads, NEW how \in Outcomes, EndPublish(t, how)
        PROVE  Abstract!GiveUp(t)
    BY <2>4 DEF EndPublish, Abstract!GiveUp
  <2>5. ASSUME NEW t \in Threads, RemoveHandler(t)
        PROVE  Abstract!Leave(ev[t], sid[t]) /\ ev[t] \in Events /\ sid[t] \in Ids
    BY <2>5 DEF RemoveHandler, Abstract!Leave, DeliveryInv, RegInv, TypeInv, Shape, Busy
  <2>6. ASSUME UNCHANGED <<handlers, addedAt, pending>> PROVE UNCHANGED Abstract!vars
    BY <2>6 DEF Abstract!vars
  <2> QED
    BY <2>1, <2>2, <2>3, <2>4, <2>5, <2>6
    DEF Next, Step, vars, RecordSubscription, HandlerCompletes, HandlerThrows,
        CancelPublish, FinishPublish, Outcomes, RemovedSubscriptionEvent,
        Abstract!Next
<1> QED
  BY <1>1, <1>2, DeliveryInvCorrect, PTL DEF Spec, Abstract!Spec
=============================================================================
