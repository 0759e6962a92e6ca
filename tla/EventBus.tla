------------------------------ MODULE EventBus ------------------------------
(***************************************************************************)
(* EventBusProvider: the in-memory event bus of the standard providers.    *)
(* Two concurrent dictionaries are updated by separate steps, the list of  *)
(* an event is protected by its own lock, and a publish works on a         *)
(* snapshot of the list while subscribers come and go.                     *)
(*                                                                         *)
(* A List<Subscription> is kept as the set of the ids in it together with  *)
(* addedAt, the order in which they were added: a list is only appended to *)
(* and filtered, so its order is always the order of addition.  A list     *)
(* that does not exist and an empty one answer every call alike.           *)
(* A handler that calls the bus again is one more thread: the publisher    *)
(* that awaits it stays in "handling" meanwhile.  Calls refused by an      *)
(* argument check change nothing and are not modelled.                     *)
(*                                                                         *)
(* A definition named X_Fault is X with a plausible programming error.     *)
(* Nothing uses it: putting it in the place of X shows that a property     *)
(* notices the error.                                                      *)
(***************************************************************************)
EXTENDS Naturals, Sequences

CONSTANTS Threads,   \* concurrent callers of the bus
          Events,    \* event names
          Ids,       \* the Guids that Subscribe can draw; bounds the model
          None       \* absence of a dictionary entry

ASSUME EventBusAssumption == None \notin Events \cup Ids

VARIABLES
  handlers,            \* _handlers: event -> ids in its list
  addedAt,             \* id -> position in the order of additions, 0 = never added
  clock,               \* number of additions so far
  subscriptionEvents,  \* _subscriptionEvents: id -> event, None = no entry
  pc,                  \* where each thread is in its call
  ev,                  \* the event of the thread's current call
  sid,                 \* the subscription id of the thread's current call
  pending,             \* snapshot entries the publish has not invoked yet
  \* History, read by the properties only:
  returned,            \* ids that Subscribe has returned to its caller
  removals,            \* id -> number of Unsubscribe calls that returned true
  refused,             \* returned ids for which an Unsubscribe returned false
  log,                 \* handlers invoked by the thread's latest publish, in order
  audience,            \* ids subscribed, and not being unsubscribed, when it started
  excluded,            \* ids already unsubscribed when it started
  outcome              \* how the thread's latest publish ended

table   == <<handlers, addedAt, clock, subscriptionEvents>>
subHist == <<returned, removals, refused>>
pubHist == <<log, audience, excluded, outcome>>
vars    == <<table, pc, ev, sid, pending, subHist, pubHist>>

PCs == {"idle", "adding", "publishing", "handling", "removing"}
Outcomes == {"none", "completed", "cancelled", "faulted"}

\* Ids for which an Unsubscribe has returned true.
Closed == {id \in Ids : removals[id] > 0}

Init ==
  /\ handlers = [e \in Events |-> {}]
  /\ addedAt = [id \in Ids |-> 0]
  /\ clock = 0
  /\ subscriptionEvents = [id \in Ids |-> None]
  /\ pc = [t \in Threads |-> "idle"]
  /\ ev = [t \in Threads |-> None]
  /\ sid = [t \in Threads |-> None]
  /\ pending = [t \in Threads |-> {}]
  /\ returned = {}
  /\ removals = [id \in Ids |-> 0]
  /\ refused = {}
  /\ log = [t \in Threads |-> <<>>]
  /\ audience = [t \in Threads |-> {}]
  /\ excluded = [t \in Threads |-> {}]
  /\ outcome = [t \in Threads |-> "none"]

Call(t, state, e, id) ==
  /\ pc' = [pc EXCEPT ![t] = state]
  /\ ev' = [ev EXCEPT ![t] = e]
  /\ sid' = [sid EXCEPT ![t] = id]

Return(t) == Call(t, "idle", None, None)

-----------------------------------------------------------------------------
\* The caller learns the id before _subscriptionEvents has it.
Subscribe_ReturnsEarly(t, e, id) ==
  /\ pc[t] = "idle"
  /\ addedAt[id] = 0
  /\ handlers' = [handlers EXCEPT ![e] = @ \cup {id}]
  /\ clock' = clock + 1
  /\ addedAt' = [addedAt EXCEPT ![id] = clock + 1]
  /\ returned' = returned \cup {id}
  /\ Call(t, "adding", e, id)
  /\ UNCHANGED <<subscriptionEvents, pending, removals, refused, pubHist>>

\* A publish enumerates the list itself and meets what is added meanwhile.
Subscribe_SharedList(t, e, id) ==
  /\ pc[t] = "idle"
  /\ addedAt[id] = 0
  /\ handlers' = [handlers EXCEPT ![e] = @ \cup {id}]
  /\ clock' = clock + 1
  /\ addedAt' = [addedAt EXCEPT ![id] = clock + 1]
  /\ pending' = [u \in Threads |->
       IF pc[u] \in {"publishing", "handling"} /\ ev[u] = e
       THEN pending[u] \cup {id} ELSE pending[u]]
  /\ Call(t, "adding", e, id)
  /\ UNCHANGED <<subscriptionEvents, subHist, pubHist>>

(* Subscribe: a fresh Guid joins the list of the event under its lock ...  *)
Subscribe(t, e, id) ==
  /\ pc[t] = "idle"
  /\ addedAt[id] = 0
  /\ handlers' = [handlers EXCEPT ![e] = @ \cup {id}]
  /\ clock' = clock + 1
  /\ addedAt' = [addedAt EXCEPT ![id] = clock + 1]
  /\ Call(t, "adding", e, id)
  /\ UNCHANGED <<subscriptionEvents, pending, subHist, pubHist>>

\* The entry in _subscriptionEvents is forgotten.
RecordSubscription_NoEntry(t) ==
  /\ pc[t] = "adding"
  /\ returned' = returned \cup {sid[t]}
  /\ Return(t)
  /\ UNCHANGED <<table, pending, removals, refused, pubHist>>

(* ... and is entered in _subscriptionEvents afterwards, outside the lock, *)
(* before the caller learns it.                                            *)
RecordSubscription(t) ==
  /\ pc[t] = "adding"
  /\ subscriptionEvents' = [subscriptionEvents EXCEPT ![sid[t]] = ev[t]]
  /\ returned' = returned \cup {sid[t]}
  /\ Return(t)
  /\ UNCHANGED <<handlers, addedAt, clock, pending, removals, refused, pubHist>>

-----------------------------------------------------------------------------
(* PublishAsync takes its snapshot under the lock of the list.             *)
SnapshotHandlers(e) == handlers[e]

Publish(t, e) ==
  /\ pc[t] = "idle"
  /\ Call(t, "publishing", e, None)
  /\ pending' = [pending EXCEPT ![t] = SnapshotHandlers(e)]
  /\ log' = [log EXCEPT ![t] = <<>>]
  /\ audience' = [audience EXCEPT
                    ![t] = {id \in returned : subscriptionEvents[id] = e}]
  /\ excluded' = [excluded EXCEPT ![t] = Closed]
  /\ outcome' = [outcome EXCEPT ![t] = "none"]
  /\ UNCHANGED <<table, subHist>>

\* The snapshot is enumerated in no particular order.
IsNext_AnyOrder(t, id) == id \in pending[t]

\* The foreach visits the snapshot in list order.
IsNext(t, id) ==
  id \in pending[t] /\ \A other \in pending[t] : addedAt[id] <= addedAt[other]

\* One iteration: the cancellation check passed and the handler is called.
Invoke(t, id) ==
  /\ pc[t] = "publishing"
  /\ IsNext(t, id)
  /\ pending' = [pending EXCEPT ![t] = @ \ {id}]
  /\ log' = [log EXCEPT ![t] = Append(@, id)]
  /\ pc' = [pc EXCEPT ![t] = "handling"]
  /\ UNCHANGED <<table, ev, sid, subHist, audience, excluded, outcome>>

\* The awaited handler completes; the loop goes on.
HandlerCompletes(t) ==
  /\ pc[t] = "handling"
  /\ pc' = [pc EXCEPT ![t] = "publishing"]
  /\ UNCHANGED <<table, ev, sid, pending, subHist, pubHist>>

\* The publish ends without looking at what is left of its snapshot.
EndPublish(t, how) ==
  /\ pending' = [pending EXCEPT ![t] = {}]
  /\ outcome' = [outcome EXCEPT ![t] = how]
  /\ Return(t)
  /\ UNCHANGED <<table, subHist, log, audience, excluded>>

\* The exception is swallowed, and with it the rest of the snapshot.
HandlerThrows_Swallowed(t) == pc[t] = "handling" /\ EndPublish(t, "completed")

\* The exception leaves the thread in a state no call starts from.
HandlerThrows_Stuck(t) ==
  /\ pc[t] = "handling"
  /\ pc' = [pc EXCEPT ![t] = "faulted"]
  /\ UNCHANGED <<table, ev, sid, pending, subHist, pubHist>>

\* The handler throws (a failed cast of Subscribe<T> too): nothing catches it.
HandlerThrows(t) == pc[t] = "handling" /\ EndPublish(t, "faulted")

\* The check at the head of an iteration finds the token cancelled.
CancelPublish(t) ==
  pc[t] = "publishing" /\ pending[t] # {} /\ EndPublish(t, "cancelled")

FinishPublish(t) ==
  pc[t] = "publishing" /\ pending[t] = {} /\ EndPublish(t, "completed")

-----------------------------------------------------------------------------
(* Unsubscribe: TryRemove on _subscriptionEvents decides between callers.  *)
RemovedSubscriptionEvent(t, id) ==
  /\ pc[t] = "idle"
  /\ id \in returned
  /\ IF subscriptionEvents[id] = None
     THEN /\ refused' = refused \cup {id}
          /\ UNCHANGED <<subscriptionEvents, pc, ev, sid>>
     ELSE /\ subscriptionEvents' = [subscriptionEvents EXCEPT ![id] = None]
          /\ Call(t, "removing", subscriptionEvents[id], id)
          /\ UNCHANGED refused
  /\ UNCHANGED <<handlers, addedAt, clock, pending, returned, removals, pubHist>>

\* The handler is removed from a copy of the list.
RemoveHandler_OnCopy(t) ==
  /\ pc[t] = "removing"
  /\ removals' = [removals EXCEPT ![sid[t]] = @ + 1]
  /\ Return(t)
  /\ UNCHANGED <<table, pending, returned, refused, pubHist>>

\* A publish holds the lock of the list while it awaits a handler.
RemoveHandler_WaitsForHandlers(t) ==
  /\ pc[t] = "removing"
  /\ \A u \in Threads : ~(pc[u] = "handling" /\ ev[u] = ev[t])
  /\ handlers' = [handlers EXCEPT ![ev[t]] = @ \ {sid[t]}]
  /\ removals' = [removals EXCEPT ![sid[t]] = @ + 1]
  /\ Return(t)
  /\ UNCHANGED <<addedAt, clock, subscriptionEvents, pending, returned, refused,
                 pubHist>>

(* The winner filters the list under its lock; RemoveAll(...) > 0 is the   *)
(* result of the call.                                                     *)
RemoveHandler(t) ==
  /\ pc[t] = "removing"
  /\ handlers' = [handlers EXCEPT ![ev[t]] = @ \ {sid[t]}]
  /\ IF sid[t] \in handlers[ev[t]]
     THEN /\ removals' = [removals EXCEPT ![sid[t]] = @ + 1]
          /\ UNCHANGED refused
     ELSE /\ refused' = refused \cup {sid[t]}
          /\ UNCHANGED removals
  /\ Return(t)
  /\ UNCHANGED <<addedAt, clock, subscriptionEvents, pending, returned, pubHist>>

-----------------------------------------------------------------------------
Step(t) ==
  \/ RecordSubscription(t)
  \/ \E id \in Ids : Invoke(t, id)
  \/ HandlerCompletes(t)
  \/ HandlerThrows(t)
  \/ CancelPublish(t)
  \/ FinishPublish(t)
  \/ RemoveHandler(t)

Next ==
  \E t \in Threads :
    \/ \E e \in Events, id \in Ids : Subscribe(t, e, id)
    \/ \E e \in Events : Publish(t, e)
    \/ \E id \in Ids : RemovedSubscriptionEvent(t, id)
    \/ Step(t)

Spec == Init /\ [][Next]_vars

(* Clients may stop calling, but a call that has begun is run to its end:  *)
(* no step of the bus waits for another caller (the locks are held for one *)
(* step), and a handler is assumed to complete or to throw.                *)
FairSpec == Spec /\ \A t \in Threads : WF_vars(Step(t))

-----------------------------------------------------------------------------
(* The variables keep their shapes.                                        *)
TypeOK ==
  /\ handlers \in [Events -> SUBSET Ids]
  /\ addedAt \in [Ids -> Nat]
  /\ clock \in Nat
  /\ subscriptionEvents \in [Ids -> Events \cup {None}]
  /\ pc \in [Threads -> PCs]
  /\ ev \in [Threads -> Events \cup {None}]
  /\ sid \in [Threads -> Ids \cup {None}]
  /\ pending \in [Threads -> SUBSET Ids]
  /\ returned \in SUBSET Ids
  /\ removals \in [Ids -> Nat]
  /\ refused \in SUBSET Ids
  /\ log \in [Threads -> Seq(Ids)]
  /\ audience \in [Threads -> SUBSET Ids]
  /\ excluded \in [Threads -> SUBSET Ids]
  /\ outcome \in [Threads -> Outcomes]

Running(t) == pc[t] \in {"publishing", "handling"}
Invoked(t) == {log[t][i] : i \in DOMAIN log[t]}

(* However calls interleave, the two dictionaries agree up to the calls in *)
(* progress: an entry of _subscriptionEvents has its handler in the list   *)
(* of that event, and a handler without an entry is being added or removed *)
(* by a running call.  No subscription can be left in a list for ever with *)
(* no id that would remove it.                                             *)
NoOrphanedHandler ==
  /\ \A id \in Ids, e \in Events :
       subscriptionEvents[id] = e => id \in handlers[e]
  /\ \A id \in Ids, e \in Events :
       id \in handlers[e] =>
         \/ subscriptionEvents[id] = e
         \/ \E t \in Threads :
              pc[t] \in {"adding", "removing"} /\ sid[t] = id /\ ev[t] = e

(* Of all the Unsubscribe calls for one subscription at most one returns   *)
(* true, and if one returned false then another one has returned true or   *)
(* is about to: an id that Subscribe handed out is never refused to all.   *)
OneUnsubscribeWins ==
  /\ \A id \in Ids : removals[id] <= 1
  /\ \A id \in refused :
       removals[id] = 1 \/ \E t \in Threads : pc[t] = "removing" /\ sid[t] = id

(* A publish invokes handlers in the order of their subscription, none of  *)
(* them twice, whatever the other callers do between two invocations.      *)
DeliveryFollowsSubscriptionOrder ==
  \A t \in Threads : \A i, j \in DOMAIN log[t] :
    i < j => addedAt[log[t][i]] < addedAt[log[t][j]]

(* A handler whose Unsubscribe has returned true is never called by a      *)
(* publish that starts later.  (A publish that took its snapshot earlier   *)
(* may still call it.)                                                     *)
NoDeliveryAfterUnsubscribe ==
  \A t \in Threads : (Invoked(t) \cup pending[t]) \cap excluded[t] = {}

(* A publish that returns normally has called every handler whose          *)
(* Subscribe had returned, and whose Unsubscribe had not begun, when the   *)
(* publish started.                                                        *)
CompletedPublishMissesNobody ==
  \A t \in Threads : outcome[t] = "completed" => audience[t] \subseteq Invoked(t)

(* Every call that begins returns.                                         *)
EveryCallReturns == \A t \in Threads : pc[t] # "idle" ~> pc[t] = "idle"

-----------------------------------------------------------------------------
(* Seen from outside, the bus is PubSub: a subscription takes effect when  *)
(* its handler enters the list and ends when it leaves it, and a publish   *)
(* owes a call to each member it saw when it started.                      *)
Abstract == INSTANCE PubSub WITH
  members <- handlers,
  joined  <- {id \in Ids : addedAt[id] # 0},
  owed    <- pending

(* EventBus implements PubSub.                                             *)
ImplementsPubSub == Abstract!Spec
=============================================================================
