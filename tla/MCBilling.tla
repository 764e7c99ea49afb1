------------------------------- MODULE MCBilling -------------------------------
(* The subscription looked at from four sides, each an instance with the      *)
(* actors and the bounds its question needs; a behaviour stays on its side.   *)
(*  - "seats": one process and its hourly cron, people who come and go;       *)
(*  - "webhooks": two processes that race for reordered events;               *)
(*  - "guard": a process that caches verdicts, and one that applies events in *)
(*    the order they happened;                                                *)
(*  - "order": events delivered in order, and a second checkout of the plan.  *)
EXTENDS MCSubscription

VARIABLE side

Webhooks == INSTANCE Subscription WITH
    Processes <- {p1, p2}, Syncers <- {}, MaxEvents <- 5, MaxHires <- 0
Guarded == INSTANCE Subscription WITH
    Processes <- {p1, p2}, Guards <- {p1}, InOrder <- TRUE, Syncers <- {}, MaxTime <- 2,
    MaxEvents <- 4, MaxHires <- 0
Ordered == INSTANCE Subscription WITH
    Checkouts <- {c1, c2}, PlanOf <- [c \in {c1, c2} |-> "basic"], InOrder <- TRUE,
    Syncers <- {}, MaxEvents <- 6, MaxHires <- 0

SidesInit ==
    \/ side = "seats" /\ Init
    \/ side = "webhooks" /\ Webhooks!Init
    \/ side = "guard" /\ Guarded!Init
    \/ side = "order" /\ Ordered!Init
SidesNext ==
    /\ UNCHANGED side
    /\ \/ side = "seats" /\ Next
       \/ side = "webhooks" /\ Webhooks!Next
       \/ side = "guard" /\ Guarded!Next
       \/ side = "order" /\ Ordered!Next

(* As Fairness says, of the side that has a cron. *)
SidesFairness ==
    \A p \in Syncers :
        /\ SF_vars(side = "seats" /\ \E i \in DOMAIN sent : BeginApply(p, i))
        /\ SF_vars(side = "seats" /\ CommitApply(p))
        /\ WF_vars(side = "seats" /\ SyncLoad(p)) /\ SF_vars(side = "seats" /\ SyncCount(p))
        /\ SF_vars(side = "seats" /\ SyncProvider(p)) /\ SF_vars(side = "seats" /\ SyncStore(p))

SidesSpec == SidesInit /\ [][SidesNext]_<<side, vars>> /\ SidesFairness

(* On the side with the cron, the row comes to count the users once nobody    *)
(* joins or leaves, whatever late events and failed calls left in it.         *)
SeatsComeToFollow == side = "seats" => SeatsFollow
================================================================================
