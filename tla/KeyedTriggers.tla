----------------------------- MODULE KeyedTriggers -----------------------------
(* Runs started by a schedule or by a webhook, of one automation.  A tick of  *)
(* the schedule is an activity with retries that looks whether the previous   *)
(* scheduled run is still going and triggers an execution under the key of    *)
(* its slot; a webhook request triggers one under the key its sender chose,   *)
(* which is remembered for a window of time.                                  *)
(*                                                                            *)
(* Of an execution's row this module keeps the key and whether the id of the  *)
(* started workflow replaces the placeholder; its status and steps behave as  *)
(* in AutomationRuns.  An id is derived from the row, so a row is a run.      *)
EXTENDS Naturals, Sequences, FiniteSets, FiniteSetsExt

CONSTANTS
    Callers,      \* requests and activity attempts that may be under way at once
    LastSlot,     \* bound: the slots of the schedule are 1 .. LastSlot
    SenderKeys,   \* keys of webhook requests
    Window,       \* IDEMPOTENCY_WINDOW_MS, in ticks
    Retries,      \* maximumAttempts of the activity
    LastDay,      \* bound: ticks of time
    MaxCalls,     \* bound: webhook requests
    MaxTroubles   \* bound: calls that fail or outlive their time

Slots == 1..LastSlot
NoKey == 0
TriggerKeys == Slots \cup SenderKeys

ASSUME TriggersAssumption ==
    /\ LastSlot \in Nat /\ SenderKeys \subseteq Nat \ (Slots \cup {NoKey})
    /\ Window \in Nat \ {0} /\ Retries \in Nat \ {0}
    /\ LastDay \in Nat /\ MaxCalls \in Nat /\ MaxTroubles \in Nat

VARIABLES
    trigger,    \* the trigger type of the automation
    day,        \* the time
    recorded,   \* the executions, by startedAt
    begun,      \* how often the workflow of an execution was started
    going,      \* the executions whose workflow is running
    call,       \* what a request or an attempt is doing
    slot,       \* the slot of the last tick
    tick,       \* its workflow: closed, waiting for an attempt, or about to make one
    tries,      \* the attempts it has made
    calls, troubles,   \* bounded counters
    doubts      \* ghost: what a tick did or may still do that its row does not say

execVars == <<recorded, begun, going>>
tickVars == <<slot, tick, tries>>
triggerVars == <<trigger, day, execVars, call, tickVars, calls, troubles, doubts>>

--------------------------------------------------------------------------------

(* asked is the key the row was recorded under, which it may lose. *)
Exec == [key : TriggerKeys \cup {NoKey}, asked : TriggerKeys, named : BOOLEAN, since : 0..LastDay]
Execs == DOMAIN recorded
Under(k) == {i \in Execs : recorded[i].key = k}
Scheduled == {i \in Execs : recorded[i].key \in Slots}

Off == [at |-> "off"]
Call == [at : {"check", "describe", "find", "release", "insert", "reread", "start",
               "started", "failed"},
         key : TriggerKeys, row : Nat, awaited : BOOLEAN]

TriggersInit ==
    /\ trigger \in {"SCHEDULE", "WEBHOOK"}
    /\ day = 0
    /\ recorded = <<>> /\ begun = <<>> /\ going = {}
    /\ call = [c \in Callers |-> Off]
    /\ slot = 0 /\ tick = "closed" /\ tries = 0
    /\ calls = 0 /\ troubles = 0 /\ doubts = 0

To(c, place) == call' = [call EXCEPT ![c].at = place]
With(c, place, i) == call' = [call EXCEPT ![c].at = place, ![c].row = i]

Trouble == troubles < MaxTroubles /\ troubles' = troubles + 1

(* The request is answered, or the attempt reports its result: the tick ends. *)
Succeed(c) ==
    /\ call' = [call EXCEPT ![c] = Off]
    /\ tick' = IF call[c].awaited THEN "closed" ELSE tick
(* A 503, or an attempt the tick makes again unless it was the last. *)
AfterFailure == IF tries < Retries THEN "due" ELSE "closed"
Fail(c) ==
    /\ call' = [call EXCEPT ![c] = Off]
    /\ tick' = IF call[c].awaited THEN AfterFailure ELSE tick

--------------------------------------------------------------------------------
(* Ticks and requests. *)

(* Temporal starts the tick of a slot unless the last one is still open (SKIP). *)
Fire(s) ==
    /\ trigger = "SCHEDULE" /\ tick = "closed" /\ s > slot
    /\ slot' = s /\ tick' = "due" /\ tries' = 0
    /\ UNCHANGED <<trigger, day, execVars, call, calls, troubles, doubts>>

BeginAttempt(c) ==
    /\ tick = "due" /\ call[c] = Off
    /\ tick' = "waiting" /\ tries' = tries + 1
    /\ call' = [call EXCEPT ![c] = [at |-> "check", key |-> slot, row |-> 0, awaited |-> TRUE]]
    /\ UNCHANGED <<trigger, day, execVars, slot, calls, troubles, doubts>>

(* A minute has passed: the attempt is given up on, and may run on. *)
AttemptTimesOut(c) ==
    /\ call[c] # Off /\ call[c].awaited
    /\ Trouble
    /\ call' = [call EXCEPT ![c].awaited = FALSE]
    /\ tick' = AfterFailure
    /\ doubts' = doubts + 2
    /\ UNCHANGED <<trigger, day, execVars, slot, tries, calls>>

ReceiveWebhook(c, k) ==
    /\ trigger = "WEBHOOK" /\ call[c] = Off /\ calls < MaxCalls
    /\ calls' = calls + 1
    /\ call' = [call EXCEPT ![c] = [at |-> "find", key |-> k, row |-> 0, awaited |-> FALSE]]
    /\ UNCHANGED <<trigger, day, execVars, tickVars, troubles, doubts>>

--------------------------------------------------------------------------------
(* previousRunActive: the latest scheduled execution, and then its workflow.  *)

Latest == Max(Scheduled)

(* The workflow is asked for by the id the row has now, and Temporal does not *)
(* know a placeholder.                                                        *)
CheckPrevious(c) ==
    /\ call[c].at = "check"
    /\ IF Scheduled = {} \/ recorded[Latest].key = call[c].key THEN To(c, "find")
       ELSE With(c, "describe", IF recorded[Latest].named THEN Latest ELSE 0)
    /\ UNCHANGED <<trigger, day, execVars, tickVars, calls, troubles, doubts>>

(* Variant: the status is compared with a name Temporal does not use. *)
DescribeMisnamed(c) ==
    /\ call[c].at = "describe"
    /\ With(c, "find", 0)
    /\ UNCHANGED <<trigger, day, execVars, tickVars, calls, troubles, doubts>>

Describe(c) ==
    /\ call[c].at = "describe"
    /\ IF call[c].row \in going THEN Succeed(c) ELSE With(c, "find", 0) /\ UNCHANGED tick
    /\ UNCHANGED <<trigger, day, execVars, slot, tries, calls, troubles, doubts>>

--------------------------------------------------------------------------------
(* triggerExecution: the row of the key, the start, the save. *)

(* A row that names its workflow needs nothing more. *)
Hold(c, i) ==
    IF recorded[i].named THEN Succeed(c) ELSE With(c, "start", i) /\ UNCHANGED tick

FindKeyed(c) ==
    /\ call[c].at = "find"
    /\ \/ Under(call[c].key) = {} /\ To(c, "insert") /\ UNCHANGED tick
       \/ \E i \in Under(call[c].key) :
              IF day - recorded[i].since < Window THEN Hold(c, i)
              ELSE With(c, "release", i) /\ UNCHANGED tick
    /\ UNCHANGED <<trigger, day, execVars, slot, tries, calls, troubles, doubts>>

(* Variant: the key is released by name, whichever row has it by now. *)
ReleaseKeyByName(c) ==
    /\ call[c].at = "release"
    /\ recorded' = [i \in Execs |-> IF recorded[i].key = call[c].key
                                    THEN [recorded[i] EXCEPT !.key = NoKey] ELSE recorded[i]]
    /\ With(c, "insert", 0)
    /\ UNCHANGED <<trigger, day, begun, going, tickVars, calls, troubles, doubts>>

ReleaseKey(c) ==
    /\ call[c].at = "release"
    /\ recorded' = IF recorded[call[c].row].key = call[c].key
                   THEN [recorded EXCEPT ![call[c].row].key = NoKey] ELSE recorded
    /\ With(c, "insert", 0)
    /\ UNCHANGED <<trigger, day, begun, going, tickVars, calls, troubles, doubts>>

(* Two requests meet at the unique (workflowId, idempotencyKey) index. *)
InsertKeyed(c) ==
    /\ call[c].at = "insert"
    /\ IF Under(call[c].key) # {}
       THEN To(c, "reread") /\ UNCHANGED <<recorded, begun>>
       ELSE /\ recorded' = Append(recorded, [key |-> call[c].key, asked |-> call[c].key,
                                             named |-> FALSE, since |-> day])
            /\ begun' = Append(begun, 0)
            /\ With(c, "start", Len(recorded) + 1)
    /\ UNCHANGED <<trigger, day, going, tickVars, calls, troubles, doubts>>

ReadRaced(c) ==
    /\ call[c].at = "reread"
    /\ \/ Under(call[c].key) = {} /\ Fail(c)
       \/ \E i \in Under(call[c].key) : Hold(c, i)
    /\ UNCHANGED <<trigger, day, execVars, slot, tries, calls, troubles, doubts>>

Started(i) ==
    IF begun[i] = 0
    THEN begun' = [begun EXCEPT ![i] = 1] /\ going' = going \cup {i}
    ELSE UNCHANGED <<begun, going>>

(* REJECT_DUPLICATE, and AlreadyStarted counts as started. *)
StartKeyed(c) ==
    /\ call[c].at = "start"
    /\ Started(call[c].row)
    /\ To(c, "started")
    /\ UNCHANGED <<trigger, day, recorded, tickVars, calls, troubles, doubts>>

(* The start is refused, or accepted without the caller hearing of it. *)
StartKeyedFails(c) ==
    /\ call[c].at = "start"
    /\ Trouble
    /\ \/ UNCHANGED <<begun, going, doubts>>
       \/ Started(call[c].row) /\ doubts' = doubts + 1
    /\ To(c, "failed")
    /\ UNCHANGED <<trigger, day, recorded, tickVars, calls>>

(* save(exec) of a row found or inserted earlier: the key goes back to what   *)
(* it was then, which the index refuses when another row has it by now.       *)
SaveKeyed(c, named) ==
    LET i == call[c].row IN
    IF recorded[i].key = call[c].key \/ Under(call[c].key) = {}
    THEN /\ recorded' = [recorded EXCEPT ![i].key = call[c].key, ![i].named = named]
         /\ IF named THEN Succeed(c) ELSE Fail(c)
    ELSE Fail(c) /\ UNCHANGED recorded

SaveNamed(c) ==
    /\ call[c].at = "started"
    /\ SaveKeyed(c, TRUE)
    /\ UNCHANGED <<trigger, day, begun, going, slot, tries, calls, troubles, doubts>>

SaveUnstarted(c) ==
    /\ call[c].at = "failed"
    /\ SaveKeyed(c, FALSE)
    /\ UNCHANGED <<trigger, day, begun, going, slot, tries, calls, troubles, doubts>>

(* Any query or call fails, or the process dies. *)
Breaks(c) ==
    /\ call[c] # Off
    /\ Trouble
    /\ Fail(c)
    /\ doubts' = IF call[c].at = "started" THEN doubts + 1 ELSE doubts
    /\ UNCHANGED <<trigger, day, execVars, slot, tries, calls>>

--------------------------------------------------------------------------------
EndKeyed(i) ==
    /\ i \in going
    /\ going' = going \ {i}
    /\ UNCHANGED <<trigger, day, recorded, begun, call, tickVars, calls, troubles, doubts>>

(* A tick and its retries are over long before the window is. *)
NextDay ==
    /\ day < LastDay /\ trigger = "WEBHOOK"
    /\ day' = day + 1
    /\ UNCHANGED <<trigger, execVars, call, tickVars, calls, troubles, doubts>>

CallStep(c) == \/ BeginAttempt(c) \/ AttemptTimesOut(c)
               \/ \E k \in SenderKeys : ReceiveWebhook(c, k)
               \/ CheckPrevious(c) \/ Describe(c)
               \/ FindKeyed(c) \/ ReleaseKey(c) \/ InsertKeyed(c) \/ ReadRaced(c)
               \/ StartKeyed(c) \/ StartKeyedFails(c) \/ SaveNamed(c) \/ SaveUnstarted(c)
               \/ Breaks(c)
TriggersNext == \/ \E s \in Slots : Fire(s)
                \/ \E c \in Callers : CallStep(c)
                \/ \E i \in going : EndKeyed(i)
                \/ NextDay
TriggersSpec == TriggersInit /\ [][TriggersNext]_triggerVars

--------------------------------------------------------------------------------
(* Properties *)

(* Executions, requests and the tick keep their types.                        *)
TriggersTypeOK ==
    /\ recorded \in Seq(Exec) /\ Len(begun) = Len(recorded) /\ going \subseteq Execs
    /\ call \in [Callers -> {Off} \cup Call]
    /\ slot \in 0..LastSlot /\ tick \in {"closed", "due", "waiting"} /\ tries \in 0..Retries
    /\ doubts \in Nat

(* "Within the window the same key on the same workflow returns the first     *)
(* execution instead of starting another": however requests race at the edge  *)
(* of the window, retry and outlive one another.                              *)
KeyRunsOnce ==
    /\ \A i \in Execs : begun[i] <= 1
    /\ \A i, j \in Execs : i < j /\ recorded[i].asked = recorded[j].asked =>
           recorded[j].since - recorded[i].since >= Window

(* "A tick that arrives while the previous scheduled run is still running is  *)
(* skipped": one scheduled run goes on at a time, and one more for each start *)
(* whose row does not tell of it.  An attempt that was given up on counts for *)
(* two: it may start its run late, and until the row tells of that a tick may *)
(* start another.                                                             *)
TicksTakeTurns == trigger = "SCHEDULE" => Cardinality(going) <= 1 + doubts
================================================================================
