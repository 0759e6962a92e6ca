------------------------------- MODULE PubSub -------------------------------
(***************************************************************************)
(* What an event bus promises, with every operation in one step: members   *)
(* join an event once and leave it for good; a publish owes one call to    *)
(* each member of its event at the moment it starts, to nobody else, and   *)
(* may be given up half-way but never extended.                            *)
(***************************************************************************)
CONSTANTS Threads, Events, Ids

VARIABLES members,  \* event -> ids subscribed to it
          joined,   \* ids that have ever subscribed
          owed      \* publisher -> ids its running publish has still to call

vars == <<members, joined, owed>>

Init ==
  /\ members = [e \in Events |-> {}]
  /\ joined = {}
  /\ owed = [t \in Threads |-> {}]

Join(e, id) ==
  /\ id \notin joined
  /\ joined' = joined \cup {id}
  /\ members' = [members EXCEPT ![e] = @ \cup {id}]
  /\ UNCHANGED owed

Leave(e, id) ==
  /\ members' = [members EXCEPT ![e] = @ \ {id}]
  /\ UNCHANGED <<joined, owed>>

Start(t, e) ==
  /\ owed[t] = {}
  /\ owed' = [owed EXCEPT ![t] = members[e]]
  /\ UNCHANGED <<members, joined>>

Pay(t, id) ==
  /\ id \in owed[t]
  /\ owed' = [owed EXCEPT ![t] = @ \ {id}]
  /\ UNCHANGED <<members, joined>>

GiveUp(t) ==
  /\ owed' = [owed EXCEPT ![t] = {}]
  /\ UNCHANGED <<members, joined>>

Next ==
  \/ \E e \in Events, id \in Ids : Join(e, id) \/ Leave(e, id)
  \/ \E t \in Threads :
       \/ \E e \in Events : Start(t, e)
       \/ \E id \in Ids : Pay(t, id)
       \/ GiveUp(t)

Spec == Init /\ [][Next]_vars
=============================================================================
