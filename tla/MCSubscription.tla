---------------------------- MODULE MCSubscription ----------------------------
(* One organization's subscription on small instances. *)
EXTENDS Subscription, TLC

CONSTANTS c1, c2, p1, p2

OnePlan == [c \in Checkouts |-> "basic"]
TwoPlans == c1 :> "basic" @@ c2 :> "pro"

Interchangeable == Permutations(Processes)
================================================================================
