------------------------------- MODULE MCSettling -------------------------------
(* Two loops that have to finish what they owe, on small instances: the       *)
(* dispatchers of the outbox and the nightly billing of a recurring expense.  *)
(* They share no state, so a behaviour moves one of them.                     *)
(*  - "outbox": two dispatchers with the ratio of the defaults, timeout <     *)
(*    lease < batch * timeout (2 < 3 < 4);                                    *)
(*  - "expense": two replicas' nightly runs and one clerk over two periods.   *)
(* No symmetry: liveness properties are checked.                              *)
EXTENDS RecurringBilling

CONSTANTS d1, d2

VARIABLES loop,   \* the loop a behaviour moves
          change, status, attempts, wait, inproc, mode, batch, claim, phase, elapsed,
          orphans, handled, outboxFaults, requeues

outboxVars == <<change, status, attempts, wait, inproc, mode, batch, claim, phase, elapsed,
                orphans, handled, outboxFaults, requeues>>

Outbox == INSTANCE MCEventOutbox WITH
    Events <- {1, 2}, TxEvents <- {1}, Dispatchers <- {d1, d2},
    BatchSize <- 2, MaxAttempts <- 2, Lease <- 3, HandlerTimeout <- 2,
    BaseBackoff <- 1, MaxBackoff <- 2, OverdueCap <- 0,
    MaxFaults <- 1, MaxRequeues <- 0, faults <- outboxFaults

LoopsInit == loop \in {"outbox", "expense"} /\ Outbox!Init /\ RecurringInit
LoopsNext ==
    /\ UNCHANGED loop
    /\ \/ loop = "outbox" /\ Outbox!Next /\ UNCHANGED recurringVars
       \/ loop = "expense" /\ RecurringNext /\ UNCHANGED outboxVars

(* As Fairness of the outbox and RecurringFairness say, of the loop that moves. *)
LoopsFairness ==
    /\ WF_outboxVars(loop = "outbox" /\ Outbox!Tick)
    /\ \A d \in {d1, d2} : WF_outboxVars(loop = "outbox" /\ Outbox!Advance(d))
    /\ \A r \in Runs : /\ WF_recurringVars(loop = "expense" /\ StartRun(r))
                       /\ WF_recurringVars(loop = "expense" /\ Works(r))
    /\ \A n \in Periods : WF_recurringVars(loop = "expense" /\ ReleaseClaim(n))

LoopsSpec == LoopsInit /\ [][LoopsNext]_<<loop, outboxVars, recurringVars>> /\ LoopsFairness

NothingOwed == IF loop = "outbox" THEN Outbox!AllSettled ELSE NothingDue

(* What is owed is settled in the end.  However claims overlap, crash or lose *)
(* their marks, every row of the outbox comes to be delivered or parked; and  *)
(* no crash, failed statement or lost race stalls the billing of a period.    *)
OwedIsSettled == []<>NothingOwed
================================================================================
