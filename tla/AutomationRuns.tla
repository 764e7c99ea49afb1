---------------------------- MODULE AutomationRuns ----------------------------
(***************************************************************************)
(* One CRM event and the automations that match it.  The outbox delivers   *)
(* the event at least once; each delivery walks the automations and, for   *)
(* each, records an execution row, starts a Temporal workflow whose id is  *)
(* derived from the event, and saves the row again.  The workflow records  *)
(* its steps and its end in the same row from the worker process.          *)
(*                                                                         *)
(* Deliveries overlap: a handler abandoned by the outbox's timeout goes on *)
(* running, and a second dispatcher may re-claim the event (EventOutbox).  *)
(***************************************************************************)
EXTENDS Integers, FiniteSets

CONSTANTS
    NoAutomation,  \* the hand of a delivery that triggers nothing
    Automations,   \* the ACTIVE workflows whose trigger matches the event
    Handlers,      \* deliveries of the event that may be in progress at once
    Steps,         \* the steps of a run
    MaxAttempts,   \* deliveries before the outbox parks the event as DEAD
    MaxClaims,     \* bound: deliveries of a behaviour
    MaxRefusals,   \* bound: starts that fail for the caller
    MaxFaults      \* bound: crashes, failed queries, timed-out deliveries

ASSUME RunsAssumption ==
    /\ NoAutomation \notin Automations
    /\ MaxAttempts \in Nat \ {0} /\ MaxClaims \in Nat
    /\ MaxRefusals \in Nat /\ MaxFaults \in Nat

VARIABLES
    outbox,    \* the event's outbox row: PENDING, DELIVERED, DEAD
    claims,    \* how often it was claimed
    at,        \* where a delivery is: off, next, find, insert, start, started, failed
    attempt,   \* the attempt a delivery counts as
    todo,      \* the automations a delivery has not dealt with
    hand,      \* the automation it is triggering
    copy,      \* the execution entity it holds in memory
    errors,    \* some automation failed to start in this delivery
    orphan,    \* the dispatcher has stopped waiting for it
    row,       \* the execution row of an automation for this event
    run,       \* its Temporal workflow: none, running, or how it ended
    done,      \* steps the workflow has taken
    starts,    \* ghost: how often Temporal started a workflow for it
    refusals,  \* failing starts left
    faults     \* faults left

deliveryVars == <<at, attempt, todo, hand, copy, errors, orphan>>
runVars == <<run, done, starts>>
budgets == <<refusals, faults>>
vars == <<outbox, claims, deliveryVars, row, runVars, budgets>>

NoRow == [exists |-> FALSE]

(* temporalWorkflowId is a placeholder until started; steps is nodeResults *)
(* and closed tells whether finishedAt is set.                             *)
Row == [exists : {TRUE}, started : BOOLEAN, status : {"RUNNING", "COMPLETED", "FAILED"},
        steps : SUBSET Steps, closed : BOOLEAN]
NewRow == [exists |-> TRUE, started |-> FALSE, status |-> "RUNNING",
           steps |-> {}, closed |-> FALSE]

Ended == {"COMPLETED", "FAILED"}

Init ==
    /\ outbox = "PENDING" /\ claims = 0
    /\ at = [h \in Handlers |-> "off"]
    /\ attempt = [h \in Handlers |-> 0]
    /\ todo = [h \in Handlers |-> {}]
    /\ hand = [h \in Handlers |-> NoAutomation]
    /\ copy = [h \in Handlers |-> NoRow]
    /\ errors = [h \in Handlers |-> FALSE]
    /\ orphan = [h \in Handlers |-> FALSE]
    /\ row = [w \in Automations |-> NoRow]
    /\ run = [w \in Automations |-> "none"]
    /\ done = [w \in Automations |-> {}]
    /\ starts = [w \in Automations |-> 0]
    /\ refusals = MaxRefusals /\ faults = MaxFaults

--------------------------------------------------------------------------------
(* The outbox around the handler, as EventOutbox has it. *)

Claim(h) ==
    /\ outbox = "PENDING" /\ at[h] = "off" /\ claims < MaxClaims
    /\ claims' = claims + 1
    /\ at' = [at EXCEPT ![h] = "next"]
    /\ attempt' = [attempt EXCEPT ![h] = claims + 1]
    /\ todo' = [todo EXCEPT ![h] = Automations]
    /\ UNCHANGED <<outbox, hand, copy, errors, orphan, row, runVars, budgets>>

FailedStatus(h) == IF attempt[h] >= MaxAttempts THEN "DEAD" ELSE "PENDING"

(* The two minutes are over: marked failed, while the handler runs on. *)
TimeOut(h) ==
    /\ faults > 0
    /\ at[h] # "off" /\ ~orphan[h]
    /\ orphan' = [orphan EXCEPT ![h] = TRUE]
    /\ outbox' = FailedStatus(h)
    /\ faults' = faults - 1
    /\ UNCHANGED <<claims, at, attempt, todo, hand, copy, errors, row, runVars, refusals>>

(* The delivery leaves nothing behind in memory. *)
Forget(h) ==
    /\ at' = [at EXCEPT ![h] = "off"]
    /\ attempt' = [attempt EXCEPT ![h] = 0]
    /\ todo' = [todo EXCEPT ![h] = {}]
    /\ hand' = [hand EXCEPT ![h] = NoAutomation]
    /\ copy' = [copy EXCEPT ![h] = NoRow]
    /\ errors' = [errors EXCEPT ![h] = FALSE]
    /\ orphan' = [orphan EXCEPT ![h] = FALSE]

(* Variant: the bridge logs what failed and reports success. *)
FinishSwallowingErrors(h) ==
    /\ at[h] = "next" /\ todo[h] = {}
    /\ Forget(h)
    /\ outbox' = IF orphan[h] THEN outbox ELSE "DELIVERED"
    /\ UNCHANGED <<claims, row, runVars, budgets>>

(* The handler throws if any automation failed to start.  Its outcome is   *)
(* marked by id, unless nobody waits for it any more.                      *)
Finish(h) ==
    /\ at[h] = "next" /\ todo[h] = {}
    /\ Forget(h)
    /\ outbox' = IF orphan[h] THEN outbox
                 ELSE IF errors[h] THEN FailedStatus(h) ELSE "DELIVERED"
    /\ UNCHANGED <<claims, row, runVars, budgets>>

(* The API process dies under the handler; the lease brings the event back. *)
Crash(h) ==
    /\ faults > 0 /\ at[h] # "off"
    /\ Forget(h)
    /\ faults' = faults - 1
    /\ UNCHANGED <<outbox, claims, row, runVars, refusals>>

--------------------------------------------------------------------------------
(* triggerForEvent: find or record the execution, start the run, save. *)

Move(h, place) == at' = [at EXCEPT ![h] = place]
NextAutomation(h) ==
    /\ Move(h, "next")
    /\ todo' = [todo EXCEPT ![h] = @ \ {hand[h]}]
    /\ hand' = [hand EXCEPT ![h] = NoAutomation]
    /\ copy' = [copy EXCEPT ![h] = NoRow]

(* The handler cannot read the automations: it throws at once. *)
ListFails(h) ==
    /\ faults > 0
    /\ at[h] = "next" /\ todo[h] = Automations
    /\ todo' = [todo EXCEPT ![h] = {}]
    /\ errors' = [errors EXCEPT ![h] = TRUE]
    /\ faults' = faults - 1
    /\ UNCHANGED <<outbox, claims, at, attempt, hand, copy, orphan, row, runVars, refusals>>

Pick(h, w) ==
    /\ at[h] = "next" /\ w \in todo[h]
    /\ hand' = [hand EXCEPT ![h] = w]
    /\ Move(h, "find")
    /\ UNCHANGED <<outbox, claims, attempt, todo, copy, errors, orphan, row, runVars, budgets>>

(* A row with its workflow id in place needs nothing more. *)
FindExecution(h) ==
    LET found == row[hand[h]] IN
    /\ at[h] = "find"
    /\ \/ /\ ~found.exists
          /\ Move(h, "insert") /\ UNCHANGED <<todo, hand, copy>>
       \/ /\ found.exists /\ found.started
          /\ NextAutomation(h)
       \/ /\ found.exists /\ ~found.started
          /\ copy' = [copy EXCEPT ![h] = found]
          /\ Move(h, "start") /\ UNCHANGED <<todo, hand>>
    /\ UNCHANGED <<outbox, claims, attempt, errors, orphan, row, runVars, budgets>>

(* Variant: the row names its workflow before that was started. *)
InsertExecutionStarted(h) ==
    LET new == [NewRow EXCEPT !.started = TRUE] IN
    /\ at[h] = "insert"
    /\ IF row[hand[h]].exists
       THEN Move(h, "find") /\ UNCHANGED <<row, copy>>
       ELSE /\ row' = [row EXCEPT ![hand[h]] = new]
            /\ copy' = [copy EXCEPT ![h] = new]
            /\ Move(h, "start")
    /\ UNCHANGED <<outbox, claims, attempt, todo, hand, errors, orphan, runVars, budgets>>

(* Two deliveries meet at the unique (workflowId, sourceEventId) index:    *)
(* the loser reads the winner's row.                                       *)
InsertExecution(h) ==
    /\ at[h] = "insert"
    /\ IF row[hand[h]].exists
       THEN Move(h, "find") /\ UNCHANGED <<row, copy>>
       ELSE /\ row' = [row EXCEPT ![hand[h]] = NewRow]
            /\ copy' = [copy EXCEPT ![h] = NewRow]
            /\ Move(h, "start")
    /\ UNCHANGED <<outbox, claims, attempt, todo, hand, errors, orphan, runVars, budgets>>

(* Variant: Temporal's default policy, which lets a closed id run again. *)
StartAllowingDuplicates(h) ==
    LET w == hand[h] IN
    /\ at[h] = "start"
    /\ run' = [run EXCEPT ![w] = "running"]
    /\ done' = IF run[w] = "running" THEN done ELSE [done EXCEPT ![w] = {}]
    /\ starts' = IF run[w] = "running" THEN starts ELSE [starts EXCEPT ![w] = @ + 1]
    /\ Move(h, "started")
    /\ UNCHANGED <<outbox, claims, attempt, todo, hand, copy, errors, orphan, row, budgets>>

(* The id is derived from the event and REJECT_DUPLICATE refuses it for    *)
(* ever after; AlreadyStarted counts as started.                           *)
StartRun(h) ==
    LET w == hand[h] IN
    /\ at[h] = "start"
    /\ IF run[w] = "none"
       THEN /\ run' = [run EXCEPT ![w] = "running"]
            /\ starts' = [starts EXCEPT ![w] = @ + 1]
       ELSE UNCHANGED <<run, starts>>
    /\ Move(h, "started")
    /\ UNCHANGED <<outbox, claims, attempt, todo, hand, copy, errors, orphan, row, done, budgets>>

(* The start fails for the caller; Temporal may have accepted it all the same. *)
StartFails(h) ==
    LET w == hand[h] IN
    /\ refusals > 0
    /\ at[h] = "start"
    /\ \/ UNCHANGED <<run, starts>>
       \/ /\ run[w] = "none"
          /\ run' = [run EXCEPT ![w] = "running"]
          /\ starts' = [starts EXCEPT ![w] = @ + 1]
    /\ Move(h, "failed")
    /\ refusals' = refusals - 1
    /\ UNCHANGED <<outbox, claims, attempt, todo, hand, copy, errors, orphan, row, done, faults>>

(* What the code makes of the entity before each of its two saves.         *)
StartedEntity(exec) ==
    [exec EXCEPT !.started = TRUE,
                 !.status = IF @ = "FAILED" THEN "RUNNING" ELSE @,
                 !.closed = @ /\ exec.status # "FAILED"]
FailedEntity(exec) == [exec EXCEPT !.status = "FAILED", !.closed = TRUE]

(* save(exec) compares every column of the entity with the row and writes  *)
(* the ones that differ, whoever changed the row since it was loaded: the  *)
(* row becomes the entity.  This holds of a row inserted here as well: the *)
(* insert filled the entity's undefined columns, finishedAt among them.    *)
SaveStarted(h) ==
    /\ at[h] = "started"
    /\ row' = [row EXCEPT ![hand[h]] = StartedEntity(copy[h])]
    /\ NextAutomation(h)
    /\ UNCHANGED <<outbox, claims, attempt, errors, orphan, runVars, budgets>>

(* Variant: the failure is rethrown without being recorded. *)
SaveFailedSkipped(h) ==
    /\ at[h] = "failed"
    /\ errors' = [errors EXCEPT ![h] = TRUE]
    /\ NextAutomation(h)
    /\ UNCHANGED <<outbox, claims, attempt, orphan, row, runVars, budgets>>

SaveFailed(h) ==
    /\ at[h] = "failed"
    /\ row' = [row EXCEPT ![hand[h]] = FailedEntity(copy[h])]
    /\ errors' = [errors EXCEPT ![h] = TRUE]
    /\ NextAutomation(h)
    /\ UNCHANGED <<outbox, claims, attempt, orphan, runVars, budgets>>

(* Any query of triggerForEvent may fail: caught by the bridge, which goes *)
(* on with the next automation.                                            *)
QueryFails(h) ==
    /\ faults > 0
    /\ at[h] \in {"find", "insert", "started", "failed"}
    /\ errors' = [errors EXCEPT ![h] = TRUE]
    /\ NextAutomation(h)
    /\ faults' = faults - 1
    /\ UNCHANGED <<outbox, claims, attempt, orphan, row, runVars, refusals>>

--------------------------------------------------------------------------------
(* The workflow, through its run-record activities. *)

RecordStep(w, s) ==
    /\ run[w] = "running" /\ s \notin done[w]
    /\ done' = [done EXCEPT ![w] = @ \cup {s}]
    /\ row' = IF row[w].exists THEN [row EXCEPT ![w].steps = @ \cup {s}] ELSE row
    /\ UNCHANGED <<outbox, claims, deliveryVars, run, starts, budgets>>

(* A run completes after its last step or fails at any; recorded before it *)
(* ends, unless the row is closed already.                                 *)
RecordFinished(w, how) ==
    /\ run[w] = "running"
    /\ how = "COMPLETED" => done[w] = Steps
    /\ run' = [run EXCEPT ![w] = how]
    /\ row' = IF row[w].exists /\ row[w].status \notin Ended
              THEN [row EXCEPT ![w].status = how, ![w].closed = TRUE] ELSE row
    /\ UNCHANGED <<outbox, claims, deliveryVars, done, starts, budgets>>

(* Three attempts at recording the end fail, of the run as it was and then *)
(* of the failure that makes it: the run fails and its row does not know.  *)
EndUnrecorded(w) ==
    /\ faults > 0
    /\ run[w] = "running"
    /\ run' = [run EXCEPT ![w] = "FAILED"]
    /\ faults' = faults - 1
    /\ UNCHANGED <<outbox, claims, deliveryVars, row, done, starts, refusals>>

--------------------------------------------------------------------------------
Trigger(h) == \/ ListFails(h)
              \/ \E w \in Automations : Pick(h, w)
              \/ FindExecution(h) \/ InsertExecution(h)
              \/ StartRun(h) \/ StartFails(h)
              \/ SaveStarted(h) \/ SaveFailed(h) \/ QueryFails(h)
              \/ Finish(h)

Workflow(w) == \/ \E s \in Steps : RecordStep(w, s)
               \/ \E how \in Ended : RecordFinished(w, how)
               \/ EndUnrecorded(w)

Next == \/ \E h \in Handlers : Claim(h) \/ Trigger(h) \/ TimeOut(h) \/ Crash(h)
        \/ \E w \in Automations : Workflow(w)

Spec == Init /\ [][Next]_vars

--------------------------------------------------------------------------------
(* Type correctness of every variable. *)
TypeOK ==
    /\ outbox \in {"PENDING", "DELIVERED", "DEAD"}
    /\ claims \in 0 .. MaxClaims
    /\ at \in [Handlers -> {"off", "next", "find", "insert", "start", "started", "failed"}]
    /\ attempt \in [Handlers -> 0 .. MaxClaims]
    /\ todo \in [Handlers -> SUBSET Automations]
    /\ hand \in [Handlers -> Automations \cup {NoAutomation}]
    /\ copy \in [Handlers -> Row \cup {NoRow}]
    /\ errors \in [Handlers -> BOOLEAN] /\ orphan \in [Handlers -> BOOLEAN]
    /\ row \in [Automations -> Row \cup {NoRow}]
    /\ run \in [Automations -> {"none", "running"} \cup Ended]
    /\ done \in [Automations -> SUBSET Steps]
    /\ starts \in [Automations -> Nat]
    /\ refusals \in 0 .. MaxRefusals /\ faults \in 0 .. MaxFaults

(* However often the event is delivered, retried after a lost reply, or    *)
(* delivered twice at once, an automation runs at most once for it.        *)
OneRunPerEvent == \A w \in Automations : starts[w] <= 1

(* An event that counts as delivered has started every automation.         *)
DeliveredMeansStarted ==
    outbox = "DELIVERED" => \A w \in Automations : run[w] # "none"

(* A run never lacks the row it records into, and a row never names a      *)
(* workflow that was not started.                                          *)
RowsAndRunsAgree ==
    \A w \in Automations : /\ run[w] # "none" => row[w].exists
                           /\ row[w].exists /\ row[w].started => run[w] # "none"

(* What dynamicDagWorkflow says of itself: "The run's final status is      *)
(* recorded here, so a run that throws out of the DAG (or is cancelled)    *)
(* still closes its history row."                                          *)
RunClosesItsRow ==
    \A w \in Automations : run[w] \in Ended => row[w].status \in Ended

(* A dead-lettered event leaves no row that reads RUNNING without a run:   *)
(* "Recorded before the rethrow: if the event dead-letters, no retry comes *)
(* to finish this row".  Only failing starts are considered: a crash or a  *)
(* failed query in the last delivery does leave such a row.                *)
DeadEventClosesItsRows ==
    outbox = "DEAD" /\ faults = MaxFaults /\ (\A h \in Handlers : at[h] = "off") =>
        \A w \in Automations :
            row[w].exists /\ row[w].status = "RUNNING" => run[w] # "none"
================================================================================
