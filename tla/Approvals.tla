------------------------------- MODULE Approvals -------------------------------
(***************************************************************************)
(* One approval step of one automation run: the workflow that waits on it, *)
(* the approval rows the worker records for it, and the people who decide  *)
(* it through the API.  A decision is claimed on the row, then signalled   *)
(* to the workflow.  A graph may lead to the step by more than one path,   *)
(* so the workflow can visit it several times; each visit has its own row. *)
(***************************************************************************)
EXTENDS Integers, FiniteSets

CONSTANTS
    Users,       \* people who may decide
    Nobody,      \* decidedByUserId before anyone decided
    MaxVisits,   \* bound: how often the run reaches the step
    MaxBreaks,   \* bound: crashes, failing queries and activities, undelivered signals
    MaxLost      \* bound: signals whose delivery the API gives up on too early

ASSUME ApprovalsAssumption ==
    /\ Nobody \notin Users
    /\ MaxVisits \in Nat \ {0} /\ MaxBreaks \in Nat /\ MaxLost \in Nat

VARIABLES
    dag,       \* the workflow: running, or how it ended
    step,      \* where it is: elsewhere, recording, waiting, resolved
    visit,     \* how often it has reached the step
    pending,   \* executionState.pendingApprovals holds the step
    approvers, rejecters,  \* approvedNodes and rejectedNodes for the step
    outcome,   \* what a visit ended with
    exec,      \* status of the execution row
    req,       \* status of the approval row of a visit
    by,        \* its decidedByUserId
    overdue,   \* its expiresAt has passed
    reached,   \* ghost: the decisions a visit received
    pc,        \* where a person's request is
    aim,       \* the row it decides
    choice,    \* APPROVED or REJECTED
    late,      \* signals still under way after the API gave up on them
    breaks, stray

workflowVars == <<dag, step, visit, pending, approvers, rejecters, outcome, reached>>
rowVars == <<exec, req, by, overdue>>
userVars == <<pc, aim, choice>>
limits == <<breaks, stray>>
approvalsVars == <<workflowVars, rowVars, userVars, late, limits>>

Visits == 1 .. MaxVisits
Decisions == {"APPROVED", "REJECTED"}
Ends == {"COMPLETED", "FAILED", "CANCELLED"}
Closed(k) == IF overdue[k] THEN "EXPIRED" ELSE "CANCELLED"

ApprovalsInit ==
    /\ dag = "running" /\ step = "elsewhere" /\ visit = 0
    /\ pending = FALSE /\ approvers = {} /\ rejecters = {}
    /\ outcome = [k \in Visits |-> "none"]
    /\ reached = [k \in Visits |-> {}]
    /\ exec = "RUNNING"
    /\ req = [k \in Visits |-> "ABSENT"]
    /\ by = [k \in Visits |-> Nobody]
    /\ overdue = [k \in Visits |-> FALSE]
    /\ pc = [u \in Users |-> "idle"]
    /\ aim = [u \in Users |-> 1]
    /\ choice = [u \in Users |-> "APPROVED"]
    /\ late = {}
    /\ breaks = MaxBreaks /\ stray = MaxLost

--------------------------------------------------------------------------------
(* The workflow and its record activities *)

Reach ==
    /\ dag = "running" /\ step = "elsewhere" /\ visit < MaxVisits
    /\ visit' = visit + 1
    /\ step' = "recording"
    /\ pending' = TRUE
    /\ UNCHANGED <<dag, approvers, rejecters, outcome, reached, rowVars, userVars, late, limits>>

(* The execution waits while any approval of it is pending. *)
ExecAfter(rows) ==
    IF exec \notin {"RUNNING", "WAITING_APPROVAL"} THEN exec
    ELSE IF \E k \in Visits : rows[k] = "PENDING" THEN "WAITING_APPROVAL" ELSE "RUNNING"

(* recordNodeResultActivity, WAITING: earlier requests of the step are     *)
(* cancelled and this one inserted, ON CONFLICT DO NOTHING since the       *)
(* activity runs again when its answer is lost.                            *)
RecordWaiting(again) ==
    LET rows == [k \in Visits |-> IF k = visit THEN IF req[k] = "ABSENT" THEN "PENDING" ELSE req[k]
                                  ELSE IF req[k] = "PENDING" THEN "CANCELLED" ELSE req[k]]
    IN  /\ dag = "running" /\ step = "recording"
        /\ again => breaks > 0
        /\ req' = rows /\ exec' = ExecAfter(rows)
        /\ step' = IF again THEN "recording" ELSE "waiting"
        /\ breaks' = IF again THEN breaks - 1 ELSE breaks
        /\ UNCHANGED <<dag, visit, pending, approvers, rejecters, outcome, reached, by, overdue,
                       userVars, late, stray>>

(* A record activity fails for good and with it the step; pendingApprovals *)
(* keeps a step that never got to wait.                                    *)
RecordFails ==
    /\ breaks > 0
    /\ dag = "running" /\ step \in {"recording", "resolved"}
    /\ outcome[visit] # "FAILED"
    /\ outcome' = [outcome EXCEPT ![visit] = "FAILED"]
    /\ step' = "resolved"
    /\ breaks' = breaks - 1
    /\ UNCHANGED <<dag, visit, pending, approvers, rejecters, reached, rowVars, userVars, late, stray>>

(* The deadline of the latest request passes, before or after the step     *)
(* noticed.                                                                *)
Overdue ==
    /\ visit > 0 /\ ~overdue[visit]
    /\ overdue' = [overdue EXCEPT ![visit] = TRUE]
    /\ UNCHANGED <<workflowVars, exec, req, by, userVars, late, limits>>

(* condition() returns: an approval wins over a rejection and either over  *)
(* the timeout.  The timer starts after requestedAt, so it is not early.   *)
Resolve ==
    /\ dag = "running" /\ step = "waiting"
    /\ \/ /\ approvers # {} /\ outcome' = [outcome EXCEPT ![visit] = "APPROVED"]
       \/ /\ approvers = {} /\ rejecters # {}
          /\ outcome' = [outcome EXCEPT ![visit] = "REJECTED"]
       \/ /\ approvers \cup rejecters = {} /\ overdue[visit]
          /\ outcome' = [outcome EXCEPT ![visit] = "TIMEOUT"]
    /\ pending' = FALSE
    /\ step' = "resolved"
    /\ UNCHANGED <<dag, visit, approvers, rejecters, reached, rowVars, userVars, late, limits>>

(* Variant: a claim made just before the timeout is left as it is. *)
RecordResolvedKeepsClaim(again) ==
    LET rows == [k \in Visits |-> IF req[k] = "PENDING" THEN Closed(k) ELSE req[k]]
    IN  /\ dag = "running" /\ step = "resolved"
        /\ req' = rows /\ exec' = ExecAfter(rows)
        /\ again => breaks > 0
        /\ step' = IF again THEN "resolved" ELSE "elsewhere"
        /\ breaks' = IF again THEN breaks - 1 ELSE breaks
        /\ UNCHANGED <<dag, visit, pending, approvers, rejecters, outcome, reached, by, overdue,
                       userVars, late, stray>>

(* recordNodeResultActivity, SUCCESS or FAILED: a step that timed out has  *)
(* its latest row say so, whatever was claimed on it; what is still        *)
(* pending is closed.                                                      *)
RecordResolved(again) ==
    LET timedOut(k) == /\ k = visit /\ outcome[k] = "TIMEOUT"
                       /\ req[k] \in Decisions \cup {"PENDING"}
        rows == [k \in Visits |-> IF timedOut(k) THEN "EXPIRED"
                                  ELSE IF req[k] = "PENDING" THEN Closed(k) ELSE req[k]]
    IN  /\ dag = "running" /\ step = "resolved"
        /\ req' = rows /\ exec' = ExecAfter(rows)
        /\ again => breaks > 0
        /\ step' = IF again THEN "resolved" ELSE "elsewhere"
        /\ breaks' = IF again THEN breaks - 1 ELSE breaks
        /\ UNCHANGED <<dag, visit, pending, approvers, rejecters, outcome, reached, by, overdue,
                       userVars, late, stray>>

(* recordRunFinishedActivity: at the end of the graph, on a failed step    *)
(* (whether its failure could be recorded or not), or wherever a           *)
(* cancellation finds the run.                                             *)
EndRun(how) ==
    /\ dag = "running"
    /\ how = "COMPLETED" => step = "elsewhere"
    /\ how = "FAILED" => step = "elsewhere" \/ (step = "resolved" /\ outcome[visit] = "FAILED")
    /\ dag' = how
    /\ exec' = IF exec \in Ends THEN exec ELSE how
    /\ req' = [k \in Visits |-> IF req[k] = "PENDING" THEN Closed(k) ELSE req[k]]
    /\ UNCHANGED <<step, visit, pending, approvers, rejecters, outcome, reached, by, overdue,
                   userVars, late, limits>>

(* The record activity fails for good, which fails a run that had not been *)
(* cancelled; rows and execution stay as they are.                         *)
FinishUnrecorded(how) ==
    /\ breaks > 0 /\ dag = "running"
    /\ how = "FAILED" => step = "elsewhere" \/ (step = "resolved" /\ outcome[visit] = "FAILED")
    /\ dag' = how
    /\ breaks' = breaks - 1
    /\ UNCHANGED <<step, visit, pending, approvers, rejecters, outcome, reached, rowVars,
                   userVars, late, stray>>

--------------------------------------------------------------------------------
(* decide: load, ask the workflow, claim, signal *)

Go(u, place) == pc' = [pc EXCEPT ![u] = place] /\ UNCHANGED <<aim, choice>>

(* The request answers and leaves nothing behind. *)
Leave(u) ==
    /\ pc' = [pc EXCEPT ![u] = "idle"]
    /\ aim' = [aim EXCEPT ![u] = 1]
    /\ choice' = [choice EXCEPT ![u] = "APPROVED"]

Load(u, k, c) ==
    /\ pc[u] = "idle" /\ req[k] = "PENDING"
    /\ aim' = [aim EXCEPT ![u] = k]
    /\ choice' = [choice EXCEPT ![u] = c]
    /\ pc' = [pc EXCEPT ![u] = "loaded"]
    /\ UNCHANGED <<workflowVars, rowVars, late, limits>>

(* The query also answers for a run that has ended; it is lost only once   *)
(* the run is no longer retained.  Nothing waiting: the row is closed.     *)
AskRun(u) ==
    /\ pc[u] = "loaded"
    /\ \/ /\ pending
          /\ Go(u, "asked") /\ UNCHANGED req
       \/ /\ ~pending \/ dag \in Ends
          /\ req' = IF req[aim[u]] = "PENDING" THEN [req EXCEPT ![aim[u]] = Closed(aim[u])] ELSE req
          /\ Leave(u)
    /\ UNCHANGED <<workflowVars, exec, by, overdue, late, limits>>

(* Variant: the claim does not ask for status = 'PENDING'. *)
ClaimRowBlindly(u) ==
    /\ pc[u] = "asked"
    /\ req' = [req EXCEPT ![aim[u]] = choice[u]]
    /\ by' = [by EXCEPT ![aim[u]] = u]
    /\ Go(u, "claimed")
    /\ UNCHANGED <<workflowVars, exec, overdue, late, limits>>

ClaimRow(u) ==
    /\ pc[u] = "asked"
    /\ IF req[aim[u]] = "PENDING"
       THEN /\ req' = [req EXCEPT ![aim[u]] = choice[u]]
            /\ by' = [by EXCEPT ![aim[u]] = u]
            /\ Go(u, "claimed")
       ELSE Leave(u) /\ UNCHANGED <<req, by>>
    /\ UNCHANGED <<workflowVars, exec, overdue, late, limits>>

(* The signal handlers drop what nobody waits for. *)
Receive(u, c) ==
    /\ IF pending
       THEN /\ approvers' = IF c = "APPROVED" THEN approvers \cup {u} ELSE approvers
            /\ rejecters' = IF c = "REJECTED" THEN rejecters \cup {u} ELSE rejecters
            /\ reached' = [reached EXCEPT ![visit] = @ \cup {<<u, c>>}]
       ELSE UNCHANGED <<approvers, rejecters, reached>>
    /\ UNCHANGED <<dag, step, visit, pending, outcome>>

SignalAccepted(u) ==
    /\ pc[u] = "claimed" /\ dag = "running"
    /\ Receive(u, choice[u])
    /\ Go(u, "signalled")
    /\ UNCHANGED <<rowVars, late, limits>>

IsClaimOf(u) == req[aim[u]] = choice[u] /\ by[aim[u]] = u

(* WorkflowNotFound: the request closes the row it claimed. *)
SignalNotFound(u) ==
    /\ pc[u] = "claimed" /\ dag \in Ends
    /\ req' = IF IsClaimOf(u) THEN [req EXCEPT ![aim[u]] = Closed(aim[u])] ELSE req
    /\ Leave(u)
    /\ UNCHANGED <<workflowVars, exec, by, overdue, late, limits>>

(* Any other error: not delivered, or given up on while still under way. *)
SignalFails(u) ==
    /\ pc[u] = "claimed"
    /\ \/ breaks > 0 /\ breaks' = breaks - 1 /\ UNCHANGED <<late, stray>>
       \/ /\ stray > 0 /\ stray' = stray - 1
          /\ late' = late \cup {<<u, choice[u]>>}
          /\ UNCHANGED breaks
    /\ Go(u, "failed")
    /\ UNCHANGED <<workflowVars, rowVars>>

SignalArrivesLate(s) ==
    /\ s \in late
    /\ late' = late \ {s}
    /\ IF dag = "running" THEN Receive(s[1], s[2]) ELSE UNCHANGED workflowVars
    /\ UNCHANGED <<rowVars, userVars, limits>>

(* Variant: the release does not ask whether the claim still stands. *)
UnclaimBlindly(u) ==
    /\ pc[u] = "failed"
    /\ req' = [req EXCEPT ![aim[u]] = "PENDING"]
    /\ by' = [by EXCEPT ![aim[u]] = Nobody]
    /\ Leave(u)
    /\ UNCHANGED <<workflowVars, exec, overdue, late, limits>>

Unclaim(u) ==
    /\ pc[u] = "failed"
    /\ IF IsClaimOf(u)
       THEN /\ req' = [req EXCEPT ![aim[u]] = "PENDING"]
            /\ by' = [by EXCEPT ![aim[u]] = Nobody]
       ELSE UNCHANGED <<req, by>>
    /\ Leave(u)
    /\ UNCHANGED <<workflowVars, exec, overdue, late, limits>>

ResumeRunIfNothingPending(u) ==
    /\ pc[u] = "signalled"
    /\ exec' = IF exec = "WAITING_APPROVAL" /\ (\A k \in Visits : req[k] # "PENDING")
               THEN "RUNNING" ELSE exec
    /\ Leave(u)
    /\ UNCHANGED <<workflowVars, req, by, overdue, late, limits>>

(* The API process dies, or a query of the request fails. *)
RequestDies(u) ==
    /\ breaks > 0 /\ pc[u] # "idle"
    /\ breaks' = breaks - 1
    /\ Leave(u)
    /\ UNCHANGED <<workflowVars, rowVars, late, stray>>

--------------------------------------------------------------------------------
RunSteps == \/ Reach \/ RecordWaiting(TRUE) \/ RecordWaiting(FALSE) \/ RecordFails
            \/ Resolve \/ RecordResolved(TRUE) \/ RecordResolved(FALSE)
            \/ \E how \in Ends : EndRun(how)
            \/ FinishUnrecorded("FAILED") \/ FinishUnrecorded("CANCELLED")

Request(u) == \/ AskRun(u) \/ ClaimRow(u)
              \/ SignalAccepted(u) \/ SignalNotFound(u) \/ SignalFails(u)
              \/ Unclaim(u) \/ ResumeRunIfNothingPending(u)

ApprovalsNext ==
    \/ RunSteps \/ Overdue
    \/ \E u \in Users : \/ \E k \in Visits, c \in Decisions : Load(u, k, c)
                        \/ Request(u) \/ RequestDies(u)
    \/ \E s \in late : SignalArrivesLate(s)

ApprovalsSpec == ApprovalsInit /\ [][ApprovalsNext]_approvalsVars

--------------------------------------------------------------------------------
(* Type correctness of every variable. *)
ApprovalsTypeOK ==
    /\ dag \in {"running"} \cup Ends
    /\ step \in {"elsewhere", "recording", "waiting", "resolved"}
    /\ visit \in 0 .. MaxVisits
    /\ pending \in BOOLEAN
    /\ approvers \subseteq Users /\ rejecters \subseteq Users
    /\ outcome \in [Visits -> Decisions \cup {"none", "TIMEOUT", "FAILED"}]
    /\ reached \in [Visits -> SUBSET (Users \X Decisions)]
    /\ exec \in {"RUNNING", "WAITING_APPROVAL"} \cup Ends
    /\ req \in [Visits -> Decisions \cup {"ABSENT", "PENDING", "EXPIRED", "CANCELLED"}]
    /\ by \in [Visits -> Users \cup {Nobody}]
    /\ overdue \in [Visits -> BOOLEAN]
    /\ pc \in [Users -> {"idle", "loaded", "asked", "claimed", "signalled", "failed"}]
    /\ aim \in [Users -> Visits] /\ choice \in [Users -> Decisions]
    /\ late \subseteq Users \X Decisions
    /\ breaks \in 0 .. MaxBreaks /\ stray \in 0 .. MaxLost

(* "of two people deciding at once exactly one reaches the workflow and    *)
(* the other is told who did": no visit receives two decisions.            *)
OneDecisionReaches ==
    \A k \in Visits : \A s, t \in reached[k] : s = t

(* Signals name the step and not the visit, and one that arrives after its *)
(* request gave up was released too early; the two promises below hold     *)
(* while neither has happened.                                             *)
Regular == visit <= 1 /\ stray = MaxLost

(* Two people deciding the same request at once, with failing signals,     *)
(* crashes, releases and timeouts: the run never hears two decisions.      *)
OneDecisionReachesRegularly == Regular => OneDecisionReaches

(* Once a visit is recorded, the inbox says of it what the run did: the    *)
(* decision it acted on and who took it, or that it expired.               *)
RowTellsOutcome ==
    Regular => \A k \in Visits :
        k = visit /\ step = "elsewhere" =>
            /\ outcome[k] \in Decisions =>
                  req[k] = outcome[k] /\ <<by[k], outcome[k]>> \in reached[k]
            /\ outcome[k] = "TIMEOUT" => req[k] = "EXPIRED"

(* "Wait for approval signal, rejection signal, or SLA timeout": a visit   *)
(* that ends approved or rejected received a decision while it waited.     *)
EachVisitIsDecided ==
    \A k \in Visits : outcome[k] \in Decisions => reached[k] # {}

(* A request that was closed stays closed: no decision that was under way, *)
(* no release of a claim and no retry of an activity re-opens it.          *)
ClosedStaysClosed ==
    [][\A k \in Visits : req[k] \in {"EXPIRED", "CANCELLED"} => req'[k] = req[k]]_approvalsVars
================================================================================
