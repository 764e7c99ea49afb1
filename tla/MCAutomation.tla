----------------------------- MODULE MCAutomation -----------------------------
(* What makes automations happen, on small instances: the runs an event       *)
(* starts, the runs a schedule or a webhook starts, the schedule itself, the  *)
(* approval step of one run and the guard of one activity.  They share no     *)
(* state (the runs see of a step only that its activity ends, the triggers of *)
(* the schedule only that it fires), so a behaviour moves one part while the  *)
(* others stay at one initial state, and the states explored are the sum of   *)
(* the parts' states rather than their product.                               *)
EXTENDS AutomationRuns, Approvals, IdempotencyGuard, KeyedTriggers, ScheduleSync, TLC

CONSTANT MaxMishaps   \* bound: breaks and late signals of an approval together

VARIABLE part   \* the part a behaviour moves

eventVars == <<vars, approvalsVars, guardVars>>
automationVars == <<eventVars, triggerVars, syncVars>>

PartsInit ==
    /\ part \in {"runs", "approvals", "guard", "triggers", "schedule"}
    /\ Init /\ ApprovalsInit /\ GuardInit /\ TriggersInit /\ SyncInit
    /\ part # "triggers" => trigger = "WEBHOOK"
    /\ part # "schedule" => automation.spec = Min(Specs)
PartsNext ==
    /\ UNCHANGED part
    /\ \/ /\ part = "runs" /\ Next
          /\ UNCHANGED <<approvalsVars, guardVars, triggerVars, syncVars>>
       \/ /\ part = "approvals" /\ ApprovalsNext
          /\ breaks' + stray' >= MaxBreaks + MaxLost - MaxMishaps
          /\ UNCHANGED <<vars, guardVars, triggerVars, syncVars>>
       \/ part = "guard" /\ GuardNext /\ UNCHANGED <<vars, approvalsVars, triggerVars, syncVars>>
       \/ part = "triggers" /\ TriggersNext /\ UNCHANGED <<eventVars, syncVars>>
       \/ part = "schedule" /\ SyncNext /\ UNCHANGED <<eventVars, triggerVars>>
PartsSpec == PartsInit /\ [][PartsNext]_<<part, automationVars>>

(* The deliveries, the people, the requests and the editors share their model *)
(* values: what is interchangeable in one part is so in all of them.          *)
Interchangeable == Permutations(Handlers \cup Users) \cup Permutations(Automations)
================================================================================
