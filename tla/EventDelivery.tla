----------------------------- MODULE EventDelivery -----------------------------
(***************************************************************************)
(* What the event outbox promises its producers and subscribers, without   *)
(* dispatchers, leases, retries or clocks.                                 *)
(*                                                                         *)
(* A durable event is published inside the transaction of the change it    *)
(* describes and is owed from the instant that change commits.  Any other  *)
(* event is owed once its own write succeeded.  What is owed is handled,   *)
(* perhaps several times, and then settled: delivered, or parked for a     *)
(* person to look at.  Settled means settled: only a person re-opens a     *)
(* parked event and nothing re-opens a delivered one.                      *)
(***************************************************************************)
CONSTANTS Events,    \* event ids
          Durable    \* the events published with the producer's transaction

VARIABLES change,    \* the producer's change: none, open, committed, rolledback
          stage,     \* none, owed, delivered, dead, forgotten
          handled    \* the events some handler run completed for

vars == <<change, stage, handled>>

Init == /\ change = [e \in Events |-> "none"]
        /\ stage = [e \in Events |-> "none"]
        /\ handled = {}

Begin(e) == /\ change[e] = "none"
            /\ change' = [change EXCEPT ![e] = "open"]
            /\ UNCHANGED <<stage, handled>>

(* The outbox write and the change it describes are one atomic step. *)
Commit(e) == /\ change[e] = "open"
             /\ change' = [change EXCEPT ![e] = "committed"]
             /\ stage' = IF e \in Durable THEN [stage EXCEPT ![e] = "owed"] ELSE stage
             /\ UNCHANGED handled

Rollback(e) == /\ change[e] = "open"
               /\ change' = [change EXCEPT ![e] = "rolledback"]
               /\ UNCHANGED <<stage, handled>>

Publish(e) == /\ e \notin Durable
              /\ change[e] = "committed" /\ stage[e] = "none"
              /\ stage' = [stage EXCEPT ![e] = "owed"]
              /\ UNCHANGED <<change, handled>>

(* At least once: nothing bounds how often an event is handled, but it is  *)
(* never handled before the change it describes has committed.             *)
Handle(e) == /\ change[e] = "committed"
             /\ stage[e] # "none" \/ e \notin Durable
             /\ handled' = handled \cup {e}
             /\ UNCHANGED <<change, stage>>

Deliver(e) == /\ stage[e] = "owed" /\ e \in handled
              /\ stage' = [stage EXCEPT ![e] = "delivered"]
              /\ UNCHANGED <<change, handled>>

Park(e) == /\ stage[e] = "owed"
           /\ stage' = [stage EXCEPT ![e] = "dead"]
           /\ UNCHANGED <<change, handled>>

Settle(e) == Deliver(e) \/ Park(e)

(* Operators act on every row that matches, hence the sets. *)
Requeue == /\ stage' = [e \in Events |-> IF stage[e] = "dead" THEN "owed" ELSE stage[e]]
           /\ UNCHANGED <<change, handled>>

Forget == \E S \in SUBSET {e \in Events : stage[e] = "delivered"} :
             /\ stage' = [e \in Events |-> IF e \in S THEN "forgotten" ELSE stage[e]]
             /\ UNCHANGED <<change, handled>>

Next == \/ \E e \in Events : \/ Begin(e) \/ Commit(e) \/ Rollback(e) \/ Publish(e)
                             \/ Handle(e) \/ Settle(e)
        \/ Requeue
        \/ Forget

Safety == Init /\ [][Next]_vars
Spec == Safety /\ \A e \in Events : WF_vars(Settle(e))
=================================================================================
