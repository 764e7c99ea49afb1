--------------------------- MODULE RecurringBilling ---------------------------
(***************************************************************************)
(* A recurring expense and the bills generated from it.  Every night each  *)
(* replica walks the periods that are due, claims each by its occurrence   *)
(* row, creates the bill, records it in the occurrence, moves the schedule *)
(* on and may approve the bill: one statement or transaction after         *)
(* another, with a crash possible between any two.                         *)
(*                                                                         *)
(* People pause, resume, cancel and edit the schedule meanwhile, by        *)
(* loading and saving its row (EntitySave).  Periods are numbered from the *)
(* earliest; one that begins before the start date is not the schedule's.  *)
(***************************************************************************)
EXTENDS Integers, FiniteSets, EntitySave

CONSTANTS
    Runs,        \* nightly runs that may be in progress at once
    Clerks,      \* people who may be changing the schedule at once
    LastPeriod,  \* bound: the periods are 0 .. LastPeriod
    MaxFaults,   \* bound: crashes and statements that fail
    MaxEdits,    \* bound: changes of the schedule and of the bills
    MaxResets    \* bound: claims released by hand

ASSUME RecurringAssumption ==
    LastPeriod \in Nat /\ MaxFaults \in Nat /\ MaxEdits \in Nat /\ MaxResets \in Nat

VARIABLES
    today,       \* the last period that has begun
    schedule,    \* the schedule's row
    occurrence,  \* the occurrence row of a period
    bill,        \* the live bill of a period: none, DRAFT or APPROVED
    run,         \* what a run is doing
    clerk,       \* what a clerk has loaded
    faults,      \* faults left
    edits,       \* changes left
    resets,      \* manual releases so far, per period
    created,     \* ghost: bills created for a period so far
    skipped,     \* ghost: periods a resumption has passed over
    reshaped     \* ghost: whether a change of the start date was saved beside other work

recurringVars == <<today, schedule, occurrence, bill, run, clerk, faults, edits, resets, created,
                   skipped, reshaped>>

Periods == 0..LastPeriod

Schedule == [status : {"ACTIVE", "PAUSED", "CANCELLED"}, start : Periods,
             next : 0..(LastPeriod + 1)]
(* A claimed period is FAILED with the error "in progress". *)
Occurrences == {"none", "claimed", "FAILED", "GENERATED"}
NotRunning == [at |-> "idle"]
Run == [at : {"claim", "reclaim", "look", "create", "failed", "record", "advance", "approve"},
        period : Periods, until : Periods]
NoEdit == [at |-> "none"]
Edit == [at : {"loaded", "compared"}, copy : Schedule, dirty : SUBSET {"status", "start", "next"},
         asks : {"change", "resume", "reshape"}]

RecurringInit ==
    /\ today = 0
    /\ schedule = [status |-> "ACTIVE", start |-> 0, next |-> 0]
    /\ occurrence = [n \in Periods |-> "none"]
    /\ bill = [n \in Periods |-> "none"]
    /\ run = [r \in Runs |-> NotRunning]
    /\ clerk = [c \in Clerks |-> NoEdit]
    /\ faults = MaxFaults /\ edits = MaxEdits
    /\ resets = [n \in Periods |-> 0]
    /\ created = [n \in Periods |-> 0]
    /\ skipped = {} /\ reshaped = FALSE

--------------------------------------------------------------------------------
(* The nightly run. *)

NewPeriod ==
    /\ today < LastPeriod
    /\ today' = today + 1
    /\ UNCHANGED <<schedule, occurrence, bill, run, clerk, faults, edits, resets,
                   created, skipped, reshaped>>

Goto(r, place) == run' = [run EXCEPT ![r].at = place]
EndRun(r) == run' = [run EXCEPT ![r] = NotRunning]

(* The next period that is due, or the end: the row read at the start tells *)
(* where the walk began, the day it began where it ends.                    *)
NextPeriod(r) ==
    IF run[r].period < run[r].until
    THEN run' = [run EXCEPT ![r].at = "claim", ![r].period = @ + 1]
    ELSE EndRun(r)

(* The first period of the schedule that begins no earlier than a date. *)
OnOrAfter(n) == IF n < schedule.start THEN schedule.start ELSE n

StartRun(r) ==
    /\ run[r] = NotRunning
    /\ schedule.status = "ACTIVE" /\ OnOrAfter(schedule.next) <= today
    /\ run' = [run EXCEPT ![r] = [at |-> "claim", period |-> OnOrAfter(schedule.next),
                                  until |-> today]]
    /\ UNCHANGED <<today, schedule, occurrence, bill, clerk, faults, edits, resets,
                   created, skipped, reshaped>>

(* Insert, or ignore the conflict. *)
Claim(r) ==
    LET n == run[r].period IN
    /\ run[r].at = "claim"
    /\ IF occurrence[n] = "none"
       THEN occurrence' = [occurrence EXCEPT ![n] = "claimed"] /\ Goto(r, "create")
       ELSE UNCHANGED occurrence /\ Goto(r, "reclaim")
    /\ UNCHANGED <<today, schedule, bill, clerk, faults, edits, resets, created, skipped, reshaped>>

(* Variant: a claim that is in progress can be taken again. *)
ReclaimAny(r) ==
    LET n == run[r].period IN
    /\ run[r].at = "reclaim"
    /\ IF occurrence[n] # "GENERATED"
       THEN occurrence' = [occurrence EXCEPT ![n] = "claimed"] /\ Goto(r, "create")
       ELSE UNCHANGED occurrence /\ Goto(r, "look")
    /\ UNCHANGED <<today, schedule, bill, clerk, faults, edits, resets, created, skipped, reshaped>>

(* A period that failed is retried by whoever flips it back first. *)
ReclaimFailed(r) ==
    LET n == run[r].period IN
    /\ run[r].at = "reclaim"
    /\ IF occurrence[n] = "FAILED"
       THEN occurrence' = [occurrence EXCEPT ![n] = "claimed"] /\ Goto(r, "create")
       ELSE UNCHANGED occurrence /\ Goto(r, "look")
    /\ UNCHANGED <<today, schedule, bill, clerk, faults, edits, resets, created, skipped, reshaped>>

(* Only the date, and only forwards. *)
Advance(n) == [schedule EXCEPT !.next = IF @ < n + 1 THEN n + 1 ELSE @]

(* Variant: a period somebody else holds is passed over. *)
LookPastClaims(r) ==
    LET n == run[r].period IN
    /\ run[r].at = "look"
    /\ schedule' = IF occurrence[n] = "GENERATED" THEN Advance(n) ELSE schedule
    /\ NextPeriod(r)
    /\ UNCHANGED <<today, occurrence, bill, clerk, faults, edits, resets,
                   created, skipped, reshaped>>

(* Billed by another run: move past it.  Held by another run: stop here. *)
Look(r) ==
    LET n == run[r].period IN
    /\ run[r].at = "look"
    /\ IF occurrence[n] = "GENERATED"
       THEN schedule' = Advance(n) /\ NextPeriod(r)
       ELSE UNCHANGED schedule /\ EndRun(r)
    /\ UNCHANGED <<today, occurrence, bill, clerk, faults, edits, resets,
                   created, skipped, reshaped>>

(* The supplier invoice number names the period: one live bill has it. *)
CreateBill(r) ==
    LET n == run[r].period IN
    /\ run[r].at = "create" /\ bill[n] = "none"
    /\ bill' = [bill EXCEPT ![n] = "DRAFT"]
    /\ created' = [created EXCEPT ![n] = @ + 1]
    /\ Goto(r, "record")
    /\ UNCHANGED <<today, schedule, occurrence, clerk, faults, edits, resets, skipped, reshaped>>

CreateFails(r) ==
    LET n == run[r].period IN
    /\ run[r].at = "create"
    /\ \/ bill[n] # "none" /\ UNCHANGED faults
       \/ faults > 0 /\ faults' = faults - 1
    /\ Goto(r, "failed")
    /\ UNCHANGED <<today, schedule, occurrence, bill, clerk, edits, resets,
                   created, skipped, reshaped>>

(* Later periods wait for this one. *)
RecordFailure(r) ==
    /\ run[r].at = "failed"
    /\ occurrence' = [occurrence EXCEPT ![run[r].period] = "FAILED"]
    /\ EndRun(r)
    /\ UNCHANGED <<today, schedule, bill, clerk, faults, edits, resets, created, skipped, reshaped>>

RecordBill(r) ==
    /\ run[r].at = "record"
    /\ occurrence' = [occurrence EXCEPT ![run[r].period] = "GENERATED"]
    /\ Goto(r, "advance")
    /\ UNCHANGED <<today, schedule, bill, clerk, faults, edits, resets, created, skipped, reshaped>>

AdvanceSchedule(r) ==
    /\ run[r].at = "advance"
    /\ schedule' = Advance(run[r].period)
    /\ Goto(r, "approve")
    /\ UNCHANGED <<today, occurrence, bill, clerk, faults, edits, resets,
                   created, skipped, reshaped>>

(* The schedule may approve its own bills; a refusal leaves the draft. *)
AutoApprove(r) ==
    LET n == run[r].period IN
    /\ run[r].at = "approve"
    /\ \/ bill[n] = "DRAFT" /\ bill' = [bill EXCEPT ![n] = "APPROVED"]
       \/ UNCHANGED bill
    /\ NextPeriod(r)
    /\ UNCHANGED <<today, schedule, occurrence, clerk, faults, edits, resets,
                   created, skipped, reshaped>>

(* A crash, or a statement that fails where nothing catches it but the end  *)
(* of the run: what was claimed stays in progress.                          *)
RunStops(r) ==
    /\ faults > 0 /\ run[r] # NotRunning
    /\ faults' = faults - 1
    /\ EndRun(r)
    /\ UNCHANGED <<today, schedule, occurrence, bill, clerk, edits, resets,
                   created, skipped, reshaped>>

--------------------------------------------------------------------------------
(* People. *)

(* The run that claimed period n and has not recorded an outcome yet. *)
Owns(r, n) == run[r].at \in {"create", "failed", "record"} /\ run[r].period = n
Held(n) == \E r \in Runs : Owns(r, n)

(* A claim nobody works on any more is released by hand. *)
ReleaseClaim(n) ==
    /\ resets[n] < MaxResets
    /\ occurrence[n] = "claimed" /\ ~Held(n)
    /\ occurrence' = [occurrence EXCEPT ![n] = "FAILED"]
    /\ resets' = [resets EXCEPT ![n] = @ + 1]
    /\ UNCHANGED <<today, schedule, bill, run, clerk, faults, edits, created, skipped, reshaped>>

(* A draft can be cancelled, and its invoice number used again. *)
CancelBill(n) ==
    /\ edits > 0 /\ bill[n] = "DRAFT"
    /\ bill' = [bill EXCEPT ![n] = "none"]
    /\ edits' = edits - 1
    /\ UNCHANGED <<today, schedule, occurrence, run, clerk, faults, resets,
                   created, skipped, reshaped>>

LoadSchedule(c, copy, asks) ==
    /\ edits > 0 /\ clerk[c] = NoEdit
    /\ clerk' = [clerk EXCEPT ![c] = [at |-> "loaded", copy |-> copy, dirty |-> {},
                                      asks |-> asks]]
    /\ edits' = edits - 1
    /\ UNCHANGED <<today, schedule, occurrence, bill, run, faults, resets,
                   created, skipped, reshaped>>

Pause(c) ==
    /\ schedule.status = "ACTIVE"
    /\ LoadSchedule(c, [schedule EXCEPT !.status = "PAUSED"], "change")

(* Periods that began while it was paused are not billed, but for one that  *)
(* begins on the very day.                                                  *)
Resume(c) ==
    /\ schedule.status = "PAUSED"
    /\ \E day \in {today, today + 1} :
           LoadSchedule(c, [schedule EXCEPT !.status = "ACTIVE", !.next = OnOrAfter(day)], "resume")

CancelSchedule(c) == LoadSchedule(c, [schedule EXCEPT !.status = "CANCELLED"], "change")

(* Billing starts over. *)
StartingAt(start) == [schedule EXCEPT !.start = start, !.next = start]

(* Some other column, the amount or the category; or the start date, with     *)
(* which billing starts over, as long as the schedule has no occurrence.      *)
(* They are counted once the row is loaded; they only grow, so none then is   *)
(* none at the load.                                                          *)
Update(c) ==
    \/ LoadSchedule(c, schedule, "change")
    \/ /\ \A n \in Periods : occurrence[n] = "none"
       /\ \E start \in Periods :
              LoadSchedule(c, StartingAt(start), "reshape")

CompareSchedule(c) ==
    /\ clerk[c].at = "loaded"
    /\ clerk' = [clerk EXCEPT ![c].at = "compared", ![c].dirty = Dirty(clerk[c].copy, schedule)]
    /\ UNCHANGED <<today, schedule, occurrence, bill, run, faults, edits, resets,
                   created, skipped, reshaped>>

(* Nothing has been billed, and nobody else is at work on the schedule. *)
Alone(c) ==
    /\ \A n \in Periods : occurrence[n] = "none"
    /\ \A r \in Runs : run[r] = NotRunning
    /\ \A d \in Clerks \ {c} : clerk[d] = NoEdit

SaveSchedule(c) ==
    /\ clerk[c].at = "compared"
    /\ schedule' = Saved(clerk[c].copy, schedule, clerk[c].dirty)
    /\ skipped' = IF clerk[c].asks = "resume" THEN skipped \cup 0..(clerk[c].copy.next - 1)
                  ELSE skipped
    /\ reshaped' = (\/ reshaped
                    \/ clerk[c].asks = "reshape" /\ ~(Alone(c) /\ schedule' = clerk[c].copy))
    /\ clerk' = [clerk EXCEPT ![c] = NoEdit]
    /\ UNCHANGED <<today, occurrence, bill, run, faults, edits, resets, created>>

--------------------------------------------------------------------------------

Works(r) ==
    \/ Claim(r) \/ ReclaimFailed(r) \/ Look(r)
    \/ CreateBill(r) \/ CreateFails(r) \/ RecordFailure(r)
    \/ RecordBill(r) \/ AdvanceSchedule(r) \/ AutoApprove(r)

RecurringNext ==
    \/ NewPeriod
    \/ \E r \in Runs : StartRun(r) \/ Works(r) \/ RunStops(r)
    \/ \E n \in Periods : ReleaseClaim(n) \/ CancelBill(n)
    \/ \E c \in Clerks : \/ Pause(c) \/ Resume(c) \/ CancelSchedule(c) \/ Update(c)
                         \/ CompareSchedule(c) \/ SaveSchedule(c)

RecurringSpec == RecurringInit /\ [][RecurringNext]_recurringVars

(* The cron fires every night and a run goes on until it ends or crashes;   *)
(* a claim left in progress is reported every night, and somebody releases  *)
(* it.  Nothing is assumed of the clerks.                                   *)
RecurringFairness ==
    /\ \A r \in Runs : WF_recurringVars(StartRun(r)) /\ WF_recurringVars(Works(r))
    /\ \A n \in Periods : WF_recurringVars(ReleaseClaim(n))

FairRecurringSpec == RecurringSpec /\ RecurringFairness

--------------------------------------------------------------------------------
(* Properties *)

(* Types of the rows, of the runs and of what the clerks have loaded. *)
RecurringTypeOK ==
    /\ today \in Periods
    /\ schedule \in Schedule
    /\ occurrence \in [Periods -> Occurrences]
    /\ bill \in [Periods -> {"none", "DRAFT", "APPROVED"}]
    /\ run \in [Runs -> {NotRunning} \cup Run]
    /\ clerk \in [Clerks -> {NoEdit} \cup Edit]
    /\ faults \in Nat /\ edits \in Nat
    /\ resets \in [Periods -> Nat] /\ created \in [Periods -> Nat]
    /\ skipped \subseteq Periods /\ reshaped \in BOOLEAN

(* The claim alone makes a period billed once: a second bill is created     *)
(* only after somebody released the claim by hand, however many runs there  *)
(* are, wherever they crash, and whether or not the first bill was          *)
(* cancelled.                                                               *)
ClaimBillsOnce == \A n \in Periods : created[n] <= 1 + resets[n]

(* The occurrence never hides a bill: a period nobody claimed has none, and *)
(* one recorded as generated had its bill.                                  *)
OccurrencesTellBills ==
    \A n \in Periods : /\ occurrence[n] = "none" => created[n] = 0
                       /\ occurrence[n] = "GENERATED" => created[n] > 0

(* Not the schedule's to bill: it starts later, or a resumption passed it over. *)
Waived(n) == n < schedule.start \/ n \in skipped

(* Bills stay in order: when a period is billed every earlier one has been,  *)
(* but for those before the start date and those a resumption passed over;   *)
(* unless the start date was changed beside a run, a bill or another change. *)
BillsInOrder ==
    \/ reshaped
    \/ \A m, n \in Periods : n < m /\ created[m] > 0 => created[n] > 0 \/ Waived(n)

(* The schedule does not move past a period that is not recorded as billed,  *)
(* with the same exceptions.                                                 *)
NothingPassedOver ==
    \/ reshaped
    \/ \A n \in Periods : n < schedule.next => occurrence[n] = "GENERATED" \/ Waived(n)

(* A bill that was created and not recorded: the next attempt is refused,   *)
(* its invoice number being taken.                                          *)
Unrecorded(n) == bill[n] # "none" /\ occurrence[n] # "GENERATED"

(* Every period that is due has been billed, unless the schedule is not      *)
(* active, an earlier period has a bill that was never recorded, or the start *)
(* date was changed beside other work.                                        *)
NothingDue ==
    \A n \in Periods :
        today >= n => \/ created[n] > 0 \/ Waived(n)
                      \/ schedule.status # "ACTIVE" \/ reshaped
                      \/ \E m \in 0..(n - 1) : Unrecorded(m)
================================================================================
