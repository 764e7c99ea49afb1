----------------------------- MODULE BillingProofs -----------------------------
(* Theorems about billing: recurring billing, for any number of nightly runs,  *)
(* clerks, periods, crashes, failed statements and changes of the schedule;    *)
(* the subscription, for any number of processes, checkouts and webhooks in    *)
(* any order.                                                                  *)
EXTENDS RecurringBilling, Subscription, FiniteSetTheorems, TLAPS

(* Recurring billing *)

USE RecurringAssumption

(* A claim has one owner, and is in progress while it has. *)
OwnInv ==
    \A r \in Runs, n \in Periods :
        Owns(r, n) => /\ occurrence[n] = "claimed"
                      /\ \A s \in Runs : Owns(s, n) => s = r

(* A bill of the period may still be created without another release. *)
Pending(n) ==
    \/ occurrence[n] \in {"none", "FAILED"}
    \/ \E r \in Runs : run[r].at \in {"create", "failed"} /\ run[r].period = n

PeriodInv(n) ==
    /\ created[n] <= 1 + resets[n]
    /\ Pending(n) => created[n] <= resets[n]
    /\ occurrence[n] = "none" => created[n] = 0
    /\ occurrence[n] = "GENERATED" => created[n] > 0

Settled(n) == occurrence[n] = "GENERATED" \/ Waived(n)

(* What a run is past is settled. *)
RunInv(r) ==
    run[r] # NotRunning =>
        /\ ~reshaped => \A n \in Periods : n < run[r].period => Settled(n)
        /\ run[r].at \in {"advance", "approve"} => occurrence[run[r].period] = "GENERATED"
        /\ run[r].at = "record" => created[run[r].period] > 0

(* A schedule that was loaded may be stale, which only puts its date back; the *)
(* start date is that of the row, unless it is what is to change.              *)
ClerkInv(c) ==
    clerk[c] # NoEdit /\ ~reshaped =>
        /\ clerk[c].asks = "change" =>
               \A n \in Periods : n < clerk[c].copy.next => Settled(n)
        /\ IF clerk[c].asks = "reshape" THEN clerk[c].copy.next = clerk[c].copy.start
           ELSE clerk[c].copy.start = schedule.start

WalkInv ==
    /\ \A n \in Periods : PeriodInv(n)
    /\ \A r \in Runs : RunInv(r)
    /\ \A c \in Clerks : ClerkInv(c)
    /\ NothingPassedOver
    /\ BillsInOrder

SafeInv == RecurringTypeOK /\ OwnInv /\ WalkInv

(* No step takes back that a period was billed, nor what the schedule is not to *)
(* bill, unless the start date is changed.                                      *)
Growing ==
    /\ \A n \in Periods : occurrence[n] = "GENERATED" => occurrence'[n] = "GENERATED"
    /\ \A n \in Periods : created'[n] \in Nat /\ created[n] <= created'[n]
    /\ ~reshaped' =>
           ~reshaped /\ schedule'.start = schedule.start /\ skipped \subseteq skipped'

--------------------------------------------------------------------------------
(* Types *)

LEMMA RunFields ==
  ASSUME RecurringTypeOK, NEW r \in Runs, run[r].at # "idle"
  PROVE  /\ run[r] \in Run /\ run[r] # NotRunning
         /\ run[r].period \in Periods /\ run[r].until \in Periods
<1>1. run[r] \in {NotRunning} \cup Run /\ run[r] # NotRunning
  BY DEF RecurringTypeOK, NotRunning
<1>2. run[r] \in Run
  BY <1>1
<1> QED
  BY <1>1, <1>2 DEF Run

Places == {"claim", "reclaim", "look", "create", "failed", "record", "advance", "approve"}

LEMMA RunPlaces ==
  ASSUME RecurringTypeOK, NEW r \in Runs
  PROVE  run[r].at \in Places \cup {"idle"} /\ (run[r] = NotRunning <=> run[r].at = "idle")
<1>1. run[r] \in {NotRunning} \cup Run
  BY DEF RecurringTypeOK
<1> QED
  BY <1>1 DEF NotRunning, Run, Places

LEMMA GotoType ==
  ASSUME RecurringTypeOK, NEW r \in Runs, run[r].at # "idle", NEW place \in Places, Goto(r, place)
  PROVE  /\ run' \in [Runs -> {NotRunning} \cup Run]
         /\ run'[r] # NotRunning /\ run'[r].at = place
         /\ run'[r].period = run[r].period /\ run'[r].until = run[r].until
         /\ \A s \in Runs \ {r} : run'[s] = run[s]
<1> DEFINE x == [run[r] EXCEPT !.at = place]
<1>1. x \in Run /\ x.at = place /\ x.period = run[r].period /\ x.until = run[r].until
  BY RunFields DEF Run, Places
<1>2. run' = [run EXCEPT ![r] = x]
  BY DEF Goto
<1> HIDE DEF x
<1>3. x # NotRunning
  BY <1>1 DEF NotRunning, Places
<1> QED
  BY <1>1, <1>2, <1>3 DEF RecurringTypeOK

LEMMA EndRunType ==
  ASSUME RecurringTypeOK, NEW r \in Runs, EndRun(r)
  PROVE  /\ run' \in [Runs -> {NotRunning} \cup Run] /\ run'[r] = NotRunning
         /\ \A s \in Runs \ {r} : run'[s] = run[s]
BY DEF RecurringTypeOK, EndRun

LEMMA NextPeriodType ==
  ASSUME RecurringTypeOK, NEW r \in Runs, run[r].at # "idle", NextPeriod(r)
  PROVE  /\ run' \in [Runs -> {NotRunning} \cup Run]
         /\ \/ run'[r] = NotRunning
            \/ run'[r].at = "claim" /\ run'[r].period = run[r].period + 1
         /\ \A s \in Runs \ {r} : run'[s] = run[s]
<1>1. run[r] \in Run /\ run[r].period \in Periods /\ run[r].until \in Periods
  BY RunFields
<1>2. CASE run[r].period < run[r].until
  <2> DEFINE x == [run[r] EXCEPT !.at = "claim", !.period = run[r].period + 1]
  <2>1. run[r].period + 1 \in Periods
    BY <1>1, <1>2 DEF Periods
  <2>2. x \in Run /\ x.at = "claim" /\ x.period = run[r].period + 1
    BY <1>1, <2>1 DEF Run
  <2>3. run' = [run EXCEPT ![r] = x]
    BY <1>2 DEF NextPeriod
  <2> HIDE DEF x
  <2> QED
    BY <2>2, <2>3 DEF RecurringTypeOK
<1>3. CASE ~(run[r].period < run[r].until)
  BY <1>3, EndRunType DEF NextPeriod
<1> QED
  BY <1>2, <1>3

LEMMA AdvanceType ==
  ASSUME RecurringTypeOK, NEW n \in Periods
  PROVE  /\ Advance(n) \in Schedule
         /\ Advance(n).next = IF schedule.next < n + 1 THEN n + 1 ELSE schedule.next
         /\ Advance(n).start = schedule.start
<1>1. schedule \in Schedule
  BY DEF RecurringTypeOK
<1>2. n + 1 \in 0..(LastPeriod + 1)
  BY DEF Periods
<1> QED
  BY <1>1, <1>2 DEF Advance, Schedule

(* What a clerk has loaded is a schedule, and so is what a save leaves.       *)
LEMMA SaveType ==
  ASSUME RecurringTypeOK, NEW c \in Clerks, SaveSchedule(c)
  PROVE  /\ clerk[c] \in Edit /\ clerk[c].copy \in Schedule
         /\ clerk[c].asks \in {"change", "resume", "reshape"}
         /\ schedule' \in Schedule
         /\ schedule'.next \in {schedule.next, clerk[c].copy.next}
         /\ schedule'.start \in {schedule.start, clerk[c].copy.start}
         /\ clerk' \in [Clerks -> {NoEdit} \cup Edit]
         /\ clerk'[c] = NoEdit
         /\ \A d \in Clerks \ {c} : clerk'[d] = clerk[d]
         /\ skipped' \subseteq Periods /\ reshaped' \in BOOLEAN
<1>1. clerk[c] \in Edit
  <2>1. clerk[c] \in {NoEdit} \cup Edit /\ clerk[c].at = "compared"
    BY DEF RecurringTypeOK, SaveSchedule
  <2> QED
    BY <2>1 DEF NoEdit
<1>2. clerk[c].copy \in Schedule /\ clerk[c].dirty \subseteq {"status", "start", "next"}
      /\ clerk[c].asks \in {"change", "resume", "reshape"}
  BY <1>1 DEF Edit
<1> DEFINE copy == clerk[c].copy
           new == Saved(copy, schedule, clerk[c].dirty)
<1>3. schedule \in Schedule
  BY DEF RecurringTypeOK
<1>4. DOMAIN schedule = {"status", "start", "next"}
  BY <1>3 DEF Schedule
<1>5. /\ new = [k \in {"status", "start", "next"} |-> IF k \in clerk[c].dirty THEN copy[k] ELSE schedule[k]]
  BY <1>4 DEF Saved
<1>6. /\ copy.status \in {"ACTIVE", "PAUSED", "CANCELLED"} /\ copy.next \in 0..(LastPeriod + 1)
      /\ schedule.status \in {"ACTIVE", "PAUSED", "CANCELLED"}
      /\ schedule.next \in 0..(LastPeriod + 1) /\ copy.start \in Periods /\ schedule.start \in Periods
  BY <1>2, <1>3 DEF Schedule
<1>7. new = [status |-> new.status, start |-> new.start, next |-> new.next]
  BY <1>5
<1>8. new.status \in {copy.status, schedule.status} /\ new.next \in {schedule.next, copy.next}
      /\ new.start \in {schedule.start, copy.start}
  BY <1>5
<1>9. schedule' = new /\ new \in Schedule
  BY <1>6, <1>7, <1>8 DEF SaveSchedule, Schedule
<1>10. skipped' \subseteq Periods
  <2>1. 0..(copy.next - 1) \subseteq Periods
    BY <1>6 DEF Periods
  <2>2. skipped' \in {skipped, skipped \cup 0..(copy.next - 1)}
    BY DEF SaveSchedule
  <2> QED
    BY <2>1, <2>2 DEF RecurringTypeOK
<1>11. clerk' = [clerk EXCEPT ![c] = NoEdit] /\ reshaped' \in BOOLEAN
  BY DEF SaveSchedule, RecurringTypeOK
<1> QED
  BY <1>1, <1>2, <1>8, <1>9, <1>10, <1>11 DEF RecurringTypeOK

LEMMA LoadType ==
  ASSUME RecurringTypeOK, NEW c \in Clerks, NEW copy \in Schedule,
         NEW asks \in {"change", "resume", "reshape"}, LoadSchedule(c, copy, asks)
  PROVE  /\ clerk' \in [Clerks -> {NoEdit} \cup Edit]
         /\ clerk'[c].copy = copy /\ clerk'[c].asks = asks
         /\ \A d \in Clerks \ {c} : clerk'[d] = clerk[d]
<1> DEFINE x == [at |-> "loaded", copy |-> copy, dirty |-> {}, asks |-> asks]
<1>1. x \in Edit /\ x.copy = copy /\ x.asks = asks
  BY DEF Edit
<1>2. clerk' = [clerk EXCEPT ![c] = x]
  BY DEF LoadSchedule
<1> HIDE DEF x
<1> QED
  BY <1>1, <1>2 DEF RecurringTypeOK

(* What a clerk asks for is of the row that was loaded: only a resumption and  *)
(* a new start date move the date, and only the latter the start.              *)
Asked(copy, asks) ==
    /\ asks = "change" => copy.next = schedule.next
    /\ IF asks = "reshape" THEN copy.next = copy.start ELSE copy.start = schedule.start

LEMMA Loads ==
  ASSUME RecurringTypeOK, NEW c \in Clerks, Pause(c) \/ Resume(c) \/ CancelSchedule(c) \/ Update(c)
  PROVE  \E copy \in Schedule, asks \in {"change", "resume", "reshape"} :
             LoadSchedule(c, copy, asks) /\ Asked(copy, asks)
<1>1. schedule \in Schedule /\ today \in Periods /\ schedule.start \in Periods
  BY DEF RecurringTypeOK, Schedule
<1>2. CASE Pause(c)
  <2> DEFINE copy == [schedule EXCEPT !.status = "PAUSED"]
  <2>1. copy \in Schedule /\ copy.next = schedule.next /\ copy.start = schedule.start
    BY <1>1 DEF Schedule
  <2> QED
    BY <1>2, <2>1 DEF Pause, Asked
<1>3. CASE Resume(c)
  <2>1. PICK day \in {today, today + 1} :
            LoadSchedule(c, [schedule EXCEPT !.status = "ACTIVE", !.next = OnOrAfter(day)], "resume")
    BY <1>3 DEF Resume
  <2>2. PICK n \in 0..(LastPeriod + 1) : n = OnOrAfter(day)
    BY <1>1 DEF Periods, OnOrAfter
  <2> DEFINE copy == [schedule EXCEPT !.status = "ACTIVE", !.next = n]
  <2>3. copy \in Schedule /\ copy.start = schedule.start
    BY <1>1 DEF Schedule
  <2> QED
    BY <2>1, <2>2, <2>3 DEF Asked
<1>4. CASE CancelSchedule(c)
  <2> DEFINE copy == [schedule EXCEPT !.status = "CANCELLED"]
  <2>1. copy \in Schedule /\ copy.next = schedule.next /\ copy.start = schedule.start
    BY <1>1 DEF Schedule
  <2> QED
    BY <1>4, <2>1 DEF CancelSchedule, Asked
<1>5. CASE LoadSchedule(c, schedule, "change")
  BY <1>1, <1>5 DEF Asked
<1>6. ASSUME NEW start \in Periods, LoadSchedule(c, StartingAt(start), "reshape")
      PROVE  \E copy \in Schedule, asks \in {"change", "resume", "reshape"} :
                 LoadSchedule(c, copy, asks) /\ Asked(copy, asks)
  <2> DEFINE copy == StartingAt(start)
  <2>1. start \in 0..(LastPeriod + 1)
    BY DEF Periods
  <2>2. copy \in Schedule /\ copy.next = start /\ copy.start = start
    BY <1>1, <2>1 DEF Schedule, StartingAt
  <2> QED
    BY <1>6, <2>2 DEF Asked
<1> QED
  BY <1>2, <1>3, <1>4, <1>5, <1>6 DEF Update

LEMMA CompareType ==
  ASSUME RecurringTypeOK, NEW c \in Clerks, CompareSchedule(c)
  PROVE  /\ clerk' \in [Clerks -> {NoEdit} \cup Edit]
         /\ clerk[c] # NoEdit
         /\ clerk'[c].copy = clerk[c].copy /\ clerk'[c].asks = clerk[c].asks
         /\ \A d \in Clerks \ {c} : clerk'[d] = clerk[d]
<1>1. clerk[c] \in Edit /\ clerk[c] # NoEdit
  <2>1. clerk[c] \in {NoEdit} \cup Edit /\ clerk[c].at = "loaded"
    BY DEF RecurringTypeOK, CompareSchedule
  <2> QED
    BY <2>1 DEF NoEdit
<1> DEFINE dirty == Dirty(clerk[c].copy, schedule)
           x == [clerk[c] EXCEPT !.at = "compared", !.dirty = dirty]
<1>2. dirty \in SUBSET {"status", "start", "next"}
  <2>1. clerk[c].copy \in Schedule
    BY <1>1 DEF Edit
  <2>2. DOMAIN clerk[c].copy = {"status", "start", "next"}
    BY <2>1 DEF Schedule
  <2> QED
    BY <2>2 DEF Dirty
<1>3. clerk' = [clerk EXCEPT ![c] = x]
  BY DEF CompareSchedule
<1> HIDE DEF dirty
<1>4. x \in Edit /\ x.copy = clerk[c].copy /\ x.asks = clerk[c].asks
  BY <1>1, <1>2 DEF Edit
<1> HIDE DEF x
<1> QED
  BY <1>1, <1>3, <1>4 DEF RecurringTypeOK

LEMMA TypeInit == RecurringInit => RecurringTypeOK
<1> SUFFICES ASSUME RecurringInit PROVE RecurringTypeOK
  OBVIOUS
<1>1. 0 \in Periods /\ 0 \in 0..(LastPeriod + 1)
  BY DEF Periods
<1>2. [status |-> "ACTIVE", start |-> 0, next |-> 0] \in Schedule
  BY <1>1 DEF Schedule
<1> QED
  BY <1>1, <1>2 DEF RecurringInit, RecurringTypeOK, Occurrences

LEMMA WorkTypes ==
  ASSUME RecurringTypeOK, NEW r \in Runs, Works(r)
  PROVE  RecurringTypeOK'
<1>1. run[r].at # "idle" /\ run[r].period \in Periods
  <2>1. run[r].at # "idle"
    BY DEF Works, Claim, ReclaimFailed, Look, CreateBill, CreateFails, RecordFailure, RecordBill,
           AdvanceSchedule, AutoApprove
  <2> QED
    BY <2>1, RunFields
<1>2. run' \in [Runs -> {NotRunning} \cup Run]
  <2>1. CASE \E place \in Places : Goto(r, place)
    BY <1>1, <2>1, GotoType
  <2>2. CASE NextPeriod(r)
    BY <1>1, <2>2, NextPeriodType
  <2>3. CASE EndRun(r)
    BY <2>3, EndRunType
  <2>4. \/ \E place \in Places : Goto(r, place)
        \/ NextPeriod(r) \/ EndRun(r)
    BY DEF Works, Claim, ReclaimFailed, Look, CreateBill, CreateFails, RecordFailure, RecordBill,
           AdvanceSchedule, AutoApprove, Places
  <2> QED
    BY <2>1, <2>2, <2>3, <2>4
<1>3. schedule' \in Schedule
  BY <1>1, AdvanceType DEF RecurringTypeOK, Works, Claim, ReclaimFailed, Look, CreateBill, CreateFails,
     RecordFailure, RecordBill, AdvanceSchedule, AutoApprove
<1>4. occurrence' \in [Periods -> Occurrences]
  <2>1. "claimed" \in Occurrences /\ "FAILED" \in Occurrences /\ "GENERATED" \in Occurrences
    BY DEF Occurrences
  <2> QED
    BY <1>1, <2>1 DEF RecurringTypeOK, Works, Claim, ReclaimFailed, Look, CreateBill, CreateFails,
       RecordFailure, RecordBill, AdvanceSchedule, AutoApprove
<1>5. bill' \in [Periods -> {"none", "DRAFT", "APPROVED"}]
  BY <1>1 DEF RecurringTypeOK, Works, Claim, ReclaimFailed, Look, CreateBill, CreateFails, RecordFailure,
     RecordBill, AdvanceSchedule, AutoApprove
<1>6. created' \in [Periods -> Nat]
  <2>1. created[run[r].period] + 1 \in Nat
    BY <1>1 DEF RecurringTypeOK
  <2> QED
    BY <1>1, <2>1 DEF RecurringTypeOK, Works, Claim, ReclaimFailed, Look, CreateBill, CreateFails,
       RecordFailure, RecordBill, AdvanceSchedule, AutoApprove
<1>7. faults' \in Nat
  <2>1. faults \in Nat
    BY DEF RecurringTypeOK
  <2>2. CASE CreateFails(r)
    BY <2>1, <2>2 DEF CreateFails
  <2>3. CASE ~CreateFails(r)
    <3>1. UNCHANGED faults
      BY <2>3 DEF Works, Claim, ReclaimFailed, Look, CreateBill, RecordFailure, RecordBill,
                  AdvanceSchedule, AutoApprove
    <3> QED
      BY <2>1, <3>1
  <2> QED
    BY <2>2, <2>3
<1>8. UNCHANGED <<today, clerk, edits, resets, skipped, reshaped>>
  BY DEF Works, Claim, ReclaimFailed, Look, CreateBill, CreateFails, RecordFailure, RecordBill,
     AdvanceSchedule, AutoApprove
<1> QED
  BY <1>2, <1>3, <1>4, <1>5, <1>6, <1>7, <1>8 DEF RecurringTypeOK

LEMMA StartType ==
  ASSUME RecurringTypeOK, NEW r \in Runs, StartRun(r)
  PROVE  /\ run' \in [Runs -> {NotRunning} \cup Run]
         /\ run'[r].at = "claim" /\ run'[r].period = OnOrAfter(schedule.next)
         /\ \A s \in Runs \ {r} : run'[s] = run[s]
<1>1. schedule.next \in 0..(LastPeriod + 1) /\ today \in Periods /\ schedule.start \in Periods
  BY DEF RecurringTypeOK, Schedule
<1>2. PICK n \in Periods : n = OnOrAfter(schedule.next)
  BY <1>1 DEF StartRun, Periods, OnOrAfter
<1> DEFINE x == [at |-> "claim", period |-> n, until |-> today]
<1>3. x \in Run /\ x.at = "claim" /\ x.period = n
  BY <1>1 DEF Run
<1>4. run' = [run EXCEPT ![r] = x]
  BY <1>2 DEF StartRun
<1> HIDE DEF x
<1> QED
  BY <1>2, <1>3, <1>4 DEF RecurringTypeOK

LEMMA TypeStep == RecurringTypeOK /\ [RecurringNext]_recurringVars => RecurringTypeOK'
<1> SUFFICES ASSUME RecurringTypeOK, [RecurringNext]_recurringVars PROVE RecurringTypeOK'
  OBVIOUS
<1>1. CASE NewPeriod
  <2>1. today' \in Periods
    BY <1>1 DEF NewPeriod, RecurringTypeOK, Periods
  <2> QED
    BY <1>1, <2>1 DEF NewPeriod, RecurringTypeOK
<1>2. ASSUME NEW r \in Runs, StartRun(r) PROVE RecurringTypeOK'
  BY <1>2, StartType DEF StartRun, RecurringTypeOK
<1>3. ASSUME NEW r \in Runs, Works(r) PROVE RecurringTypeOK'
  BY <1>3, WorkTypes
<1>4. ASSUME NEW r \in Runs, RunStops(r) PROVE RecurringTypeOK'
  <2>1. faults' \in Nat
    BY <1>4 DEF RunStops, RecurringTypeOK
  <2> QED
    BY <1>4, <2>1, EndRunType DEF RunStops, RecurringTypeOK
<1>5. ASSUME NEW n \in Periods, ReleaseClaim(n) PROVE RecurringTypeOK'
  <2>1. "FAILED" \in Occurrences
    BY DEF Occurrences
  <2>2. resets[n] + 1 \in Nat
    BY DEF RecurringTypeOK
  <2> QED
    BY <1>5, <2>1, <2>2 DEF ReleaseClaim, RecurringTypeOK
<1>6. ASSUME NEW n \in Periods, CancelBill(n) PROVE RecurringTypeOK'
  <2>1. edits' \in Nat
    BY <1>6 DEF CancelBill, RecurringTypeOK
  <2> QED
    BY <1>6, <2>1 DEF CancelBill, RecurringTypeOK
<1>7. ASSUME NEW c \in Clerks, Pause(c) \/ Resume(c) \/ CancelSchedule(c) \/ Update(c) PROVE RecurringTypeOK'
  <2>1. PICK copy \in Schedule, asks \in {"change", "resume", "reshape"} : LoadSchedule(c, copy, asks)
    BY <1>7, Loads
  <2>2. edits' \in Nat
    BY <2>1 DEF LoadSchedule, RecurringTypeOK
  <2> QED
    BY <2>1, <2>2, LoadType DEF LoadSchedule, RecurringTypeOK
<1>8. ASSUME NEW c \in Clerks, CompareSchedule(c) PROVE RecurringTypeOK'
  <2>1. UNCHANGED <<today, schedule, occurrence, bill, run, faults, edits, resets, created,
                    skipped, reshaped>>
    BY <1>8 DEF CompareSchedule
  <2> QED
    BY <1>8, <2>1, CompareType DEF RecurringTypeOK
<1>9. ASSUME NEW c \in Clerks, SaveSchedule(c) PROVE RecurringTypeOK'
  <2>1. UNCHANGED <<today, occurrence, bill, run, faults, edits, resets, created>>
    BY <1>9 DEF SaveSchedule
  <2> QED
    BY <1>9, <2>1, SaveType DEF RecurringTypeOK
<1>10. CASE UNCHANGED recurringVars
  BY <1>10 DEF recurringVars, RecurringTypeOK
<1> QED
  BY <1>1, <1>2, <1>3, <1>4, <1>5, <1>6, <1>7, <1>8, <1>9, <1>10 DEF RecurringNext

--------------------------------------------------------------------------------
(* What one step leaves as it was *)

LEMMA RunKept ==
  ASSUME RecurringTypeOK, Growing, NEW r \in Runs, RunInv(r), run'[r] = run[r]
  PROVE  RunInv(r)'
<1> SUFFICES ASSUME run[r] # NotRunning PROVE RunInv(r)'
  BY DEF RunInv
<1>1. run[r].period \in Periods
  BY RunPlaces, RunFields
<1>2. created[run[r].period] > 0 => created'[run[r].period] > 0
  BY <1>1 DEF Growing, RecurringTypeOK
<1> QED
  BY <1>1, <1>2 DEF RunInv, Growing, Settled, Waived

LEMMA ClerkKept ==
  ASSUME Growing, NEW c \in Clerks, ClerkInv(c),
         \/ clerk'[c] = clerk[c]
         \/ /\ clerk[c] # NoEdit
            /\ clerk'[c].copy = clerk[c].copy
            /\ clerk'[c].asks = clerk[c].asks
  PROVE  ClerkInv(c)'
BY DEF ClerkInv, Growing, Settled, Waived

LEMMA ScheduleKept ==
  ASSUME Growing, NothingPassedOver, schedule' = schedule
  PROVE  NothingPassedOver'
BY DEF NothingPassedOver, Growing, Waived

LEMMA OrderKept ==
  ASSUME Growing, BillsInOrder, created' = created
  PROVE  BillsInOrder'
BY DEF BillsInOrder, Growing, Waived

LEMMA PeriodKept ==
  ASSUME NEW n \in Periods, PeriodInv(n), Pending(n)' => Pending(n),
         UNCHANGED <<occurrence, created, resets>>
  PROVE  PeriodInv(n)'
BY DEF PeriodInv

(* A step of one run that leaves the occurrences alone.                       *)
LEMMA OwnKept ==
  ASSUME RecurringTypeOK, OwnInv, NEW r \in Runs, \A s \in Runs \ {r} : run'[s] = run[s],
         UNCHANGED occurrence,
         \A n \in Periods : Owns(r, n)' => Owns(r, n)
  PROVE  OwnInv'
<1> SUFFICES ASSUME NEW s \in Runs, NEW n \in Periods, Owns(s, n)'
             PROVE  /\ occurrence'[n] = "claimed"
                    /\ \A t \in Runs : Owns(t, n)' => t = s
  BY DEF OwnInv
<1>1. \A t \in Runs : Owns(t, n)' => Owns(t, n)
  BY DEF Owns
<1> QED
  BY <1>1 DEF OwnInv

(* A run that only moves on: nothing is claimed, created or recorded.         *)
LEMMA MoveKeeps ==
  ASSUME SafeInv, NEW r \in Runs, \A s \in Runs \ {r} : run'[s] = run[s],
         UNCHANGED <<occurrence, created, resets, skipped, reshaped, clerk>>,
         schedule'.start = schedule.start,
         \A n \in Periods : Owns(r, n)' => Owns(r, n),
         run'[r].at \in {"create", "failed"} =>
             run[r].at \in {"create", "failed"} /\ run'[r].period = run[r].period,
         RunInv(r)', NothingPassedOver'
  PROVE  OwnInv' /\ WalkInv'
<1>1. OwnInv'
  BY OwnKept DEF SafeInv
<1>2. Growing
  BY DEF Growing, SafeInv, RecurringTypeOK
<1>3. ASSUME NEW n \in Periods PROVE PeriodInv(n)'
  <2>1. Pending(n)' => Pending(n)
    BY DEF Pending
  <2> QED
    BY <2>1, PeriodKept DEF SafeInv, WalkInv
<1>4. ASSUME NEW s \in Runs PROVE RunInv(s)'
  BY <1>2, RunKept DEF SafeInv, WalkInv
<1>5. ASSUME NEW c \in Clerks PROVE ClerkInv(c)'
  BY <1>2, ClerkKept DEF SafeInv, WalkInv
<1>6. BillsInOrder'
  BY <1>2, OrderKept DEF SafeInv, WalkInv
<1> QED
  BY <1>1, <1>3, <1>4, <1>5, <1>6 DEF WalkInv

(* A run, or a person, that writes the occurrence of period n, which is not   *)
(* recorded as billed.                                                        *)
LEMMA WriteKeeps ==
  ASSUME SafeInv, NEW n \in Periods, occurrence[n] # "GENERATED",
         \A m \in Periods \ {n} : occurrence'[m] = occurrence[m] /\ resets'[m] = resets[m],
         UNCHANGED <<created, skipped, reshaped, clerk, schedule>>,
         \A m \in Periods \ {n} : Pending(m)' => Pending(m),
         PeriodInv(n)',
         \A s \in Runs : run'[s] = run[s] \/ RunInv(s)'
  PROVE  WalkInv'
<1>1. Growing
  BY DEF Growing, SafeInv, RecurringTypeOK
<1>2. ASSUME NEW m \in Periods PROVE PeriodInv(m)'
  BY DEF PeriodInv, SafeInv, WalkInv
<1>3. ASSUME NEW s \in Runs PROVE RunInv(s)'
  BY <1>1, RunKept DEF SafeInv, WalkInv
<1>4. ASSUME NEW c \in Clerks PROVE ClerkInv(c)'
  BY <1>1, ClerkKept DEF SafeInv, WalkInv
<1>5. NothingPassedOver' /\ BillsInOrder'
  BY <1>1, ScheduleKept, OrderKept DEF SafeInv, WalkInv
<1> QED
  BY <1>2, <1>3, <1>4, <1>5 DEF WalkInv

--------------------------------------------------------------------------------
(* The steps of a run *)

LEMMA StartKeeps ==
  ASSUME SafeInv, NEW r \in Runs, StartRun(r)
  PROVE  OwnInv' /\ WalkInv'
<1>1. RecurringTypeOK /\ NothingPassedOver
  BY DEF SafeInv, WalkInv
<1>2. /\ run'[r].at = "claim" /\ run'[r].period = OnOrAfter(schedule.next)
      /\ \A s \in Runs \ {r} : run'[s] = run[s]
  BY <1>1, StartType
<1>3. UNCHANGED <<schedule, occurrence, created, resets, skipped, reshaped, clerk>>
  BY DEF StartRun
<1>4. RunInv(r)'
  <2>1. ~reshaped => \A n \in Periods : n < schedule.next => Settled(n)
    BY <1>1 DEF NothingPassedOver, Settled
  <2>2. \A n \in Periods : n < OnOrAfter(schedule.next) => n < schedule.next \/ Waived(n)
    BY DEF OnOrAfter, Waived
  <2> QED
    BY <1>2, <1>3, <2>1, <2>2 DEF RunInv, Settled, Waived
<1>5. \A n \in Periods : ~Owns(r, n)'
  BY <1>2 DEF Owns
<1>6. NothingPassedOver'
  BY <1>1, <1>3 DEF NothingPassedOver, Waived
<1> QED
  BY <1>2, <1>3, <1>4, <1>5, <1>6, MoveKeeps

LEMMA PeriodsOrdered ==
  ASSUME NEW n \in Periods
  PROVE  \A m \in Periods : m < n => m # n
BY DEF Periods

(* A claim, first or repeated, of a period that has no owner.                 *)
LEMMA TakeKeeps ==
  ASSUME SafeInv, NEW r \in Runs, NEW n \in Periods, run[r].at \in {"claim", "reclaim"},
         run[r].period = n, occurrence[n] \in {"none", "FAILED"},
         occurrence' = [occurrence EXCEPT ![n] = "claimed"], Goto(r, "create"),
         UNCHANGED <<schedule, created, resets, skipped, reshaped, clerk>>
  PROVE  OwnInv' /\ WalkInv'
<1>1. RecurringTypeOK /\ PeriodInv(n) /\ RunInv(r) /\ run[r] # NotRunning
  BY RunPlaces DEF SafeInv, WalkInv, NotRunning
<1>2. /\ run'[r].at = "create" /\ run'[r].period = n
      /\ \A s \in Runs \ {r} : run'[s] = run[s]
  BY <1>1, GotoType DEF Places
<1>3. /\ occurrence'[n] = "claimed"
      /\ \A m \in Periods \ {n} : occurrence'[m] = occurrence[m]
  BY <1>1 DEF RecurringTypeOK
<1>4. \A s \in Runs : ~Owns(s, n)
  BY DEF SafeInv, OwnInv
<1>5. OwnInv'
  <2> SUFFICES ASSUME NEW s \in Runs, NEW m \in Periods, Owns(s, m)'
               PROVE  /\ occurrence'[m] = "claimed"
                      /\ \A t \in Runs : Owns(t, m)' => t = s
    BY DEF OwnInv
  <2>1. CASE m = n
    BY <1>2, <1>3, <1>4, <2>1 DEF Owns
  <2>2. CASE m # n
    <3>1. \A t \in Runs : Owns(t, m)' => Owns(t, m)
      BY <1>2, <2>2 DEF Owns
    <3> QED
      BY <1>3, <2>2, <3>1 DEF SafeInv, OwnInv
  <2> QED
    BY <2>1, <2>2
<1>6. \A m \in Periods \ {n} : Pending(m)' => Pending(m)
  BY <1>2, <1>3 DEF Pending
<1>7. PeriodInv(n)'
  BY <1>1, <1>3 DEF PeriodInv, Pending
<1>8. RunInv(r)'
  <2>1. ~reshaped => \A m \in Periods : m < n => Settled(m)
    BY <1>1 DEF RunInv
  <2>2. \A m \in Periods : m < n => m # n
    BY PeriodsOrdered
  <2> QED
    BY <1>2, <1>3, <2>1, <2>2 DEF RunInv, Settled, Waived
<1> QED
  BY <1>2, <1>3, <1>5, <1>6, <1>7, <1>8, WriteKeeps

(* A claim that is not had.                                                   *)
LEMMA LoseKeeps ==
  ASSUME SafeInv, NEW r \in Runs, NEW place \in {"reclaim", "look"},
         run[r].at \in {"claim", "reclaim"}, Goto(r, place),
         UNCHANGED <<schedule, occurrence, created, resets, skipped, reshaped, clerk>>
  PROVE  OwnInv' /\ WalkInv'
<1>1. RecurringTypeOK /\ RunInv(r) /\ run[r] # NotRunning /\ NothingPassedOver
  BY RunPlaces DEF SafeInv, WalkInv, NotRunning
<1>2. /\ run'[r].at = place /\ run'[r].period = run[r].period
      /\ \A s \in Runs \ {r} : run'[s] = run[s]
  BY <1>1, GotoType DEF Places
<1>3. RunInv(r)'
  BY <1>1, <1>2 DEF RunInv, Settled, Waived
<1>4. \A n \in Periods : ~Owns(r, n)'
  BY <1>2 DEF Owns
<1>5. NothingPassedOver'
  BY <1>1 DEF NothingPassedOver, Waived
<1> QED
  BY <1>2, <1>3, <1>4, <1>5, MoveKeeps

LEMMA ClaimKeeps ==
  ASSUME SafeInv, NEW r \in Runs, Claim(r) \/ ReclaimFailed(r)
  PROVE  OwnInv' /\ WalkInv'
<1>1. RecurringTypeOK /\ run[r].at \in {"claim", "reclaim"}
      /\ UNCHANGED <<schedule, created, resets, skipped, reshaped, clerk>>
  BY DEF SafeInv, Claim, ReclaimFailed
<1>2. run[r].period \in Periods
  BY <1>1, RunFields
<1>3. \/ /\ occurrence[run[r].period] \in {"none", "FAILED"}
         /\ occurrence' = [occurrence EXCEPT ![run[r].period] = "claimed"]
         /\ Goto(r, "create")
      \/ UNCHANGED occurrence /\ \E place \in {"reclaim", "look"} : Goto(r, place)
  BY DEF Claim, ReclaimFailed
<1> QED
  BY <1>1, <1>2, <1>3, TakeKeeps, LoseKeeps

(* The schedule moves past a period that is recorded as billed.               *)
LEMMA AdvanceKeeps ==
  ASSUME SafeInv, NEW r \in Runs, run[r].at # "idle", occurrence[run[r].period] = "GENERATED",
         schedule' = Advance(run[r].period), UNCHANGED <<occurrence, skipped, reshaped>>
  PROVE  NothingPassedOver' /\ schedule'.start = schedule.start
<1> DEFINE n == run[r].period
<1>1. RecurringTypeOK /\ RunInv(r) /\ NothingPassedOver /\ run[r] # NotRunning
  BY DEF SafeInv, WalkInv, NotRunning
<1>2. n \in Periods
  BY <1>1, RunFields
<1>3. schedule'.next \in {schedule.next, n + 1} /\ schedule'.start = schedule.start
  BY <1>1, <1>2, AdvanceType
<1>4. \A m \in Periods : m < n + 1 => m < n \/ m = n
  BY <1>2 DEF Periods
<1>5. ~reshaped => \A m \in Periods : m < n + 1 => Settled(m)
  BY <1>1, <1>4 DEF RunInv, Settled
<1> HIDE DEF n
<1> QED
  BY <1>1, <1>3, <1>5 DEF NothingPassedOver, Settled, Waived

(* Going on to the next period, or ending the walk.                           *)
LEMMA NextKeeps ==
  ASSUME SafeInv, NEW r \in Runs, run[r].at # "idle",
         \/ NextPeriod(r) /\ occurrence[run[r].period] = "GENERATED"
         \/ EndRun(r),
         UNCHANGED <<occurrence, created, resets, skipped, reshaped, clerk>>,
         schedule'.start = schedule.start, NothingPassedOver'
  PROVE  OwnInv' /\ WalkInv'
<1> DEFINE n == run[r].period
<1>1. RecurringTypeOK /\ RunInv(r) /\ run[r] # NotRunning /\ n \in Periods
  BY RunFields DEF SafeInv, WalkInv, NotRunning
<1>2. \A s \in Runs \ {r} : run'[s] = run[s]
  BY <1>1, NextPeriodType, EndRunType
<1>3. \/ run'[r] = NotRunning
      \/ occurrence[n] = "GENERATED" /\ run'[r].at = "claim" /\ run'[r].period = n + 1
  BY <1>1, NextPeriodType, EndRunType
<1>4. \A m \in Periods : m < n + 1 => m < n \/ m = n
  BY <1>1 DEF Periods
<1>5. RunInv(r)'
  <2>1. CASE run'[r] = NotRunning
    BY <2>1 DEF RunInv, NotRunning
  <2>2. CASE occurrence[n] = "GENERATED" /\ run'[r].at = "claim" /\ run'[r].period = n + 1
    <3>1. ~reshaped => \A m \in Periods : m < n + 1 => Settled(m)
      BY <1>1, <1>4, <2>2 DEF RunInv, Settled
    <3> HIDE DEF n
    <3> QED
      BY <2>2, <3>1 DEF RunInv, Settled, Waived
  <2> QED
    BY <1>3, <2>1, <2>2
<1>6. run'[r].at \in {"idle", "claim"}
  BY <1>3 DEF NotRunning
<1>7. \A m \in Periods : ~Owns(r, m)'
  BY <1>6 DEF Owns
<1> QED
  BY <1>2, <1>5, <1>6, <1>7, MoveKeeps

LEMMA LookKeeps ==
  ASSUME SafeInv, NEW r \in Runs, Look(r)
  PROVE  OwnInv' /\ WalkInv'
<1>1. /\ run[r].at # "idle"
      /\ UNCHANGED <<occurrence, created, resets, skipped, reshaped, clerk>>
      /\ \/ /\ NextPeriod(r) /\ occurrence[run[r].period] = "GENERATED"
            /\ schedule' = Advance(run[r].period)
         \/ EndRun(r) /\ UNCHANGED schedule
  BY DEF Look
<1>2. NothingPassedOver' /\ schedule'.start = schedule.start
  <2>1. CASE UNCHANGED schedule
    BY <1>1, <2>1 DEF NothingPassedOver, Waived, SafeInv, WalkInv
  <2>2. CASE occurrence[run[r].period] = "GENERATED" /\ schedule' = Advance(run[r].period)
    BY <1>1, <2>2, AdvanceKeeps
  <2> QED
    BY <1>1, <2>1, <2>2
<1> QED
  BY <1>1, <1>2, NextKeeps

(* The bill is created under the claim: what is before it has been billed, or *)
(* was passed over.                                                           *)
LEMMA CreateKeeps ==
  ASSUME SafeInv, NEW r \in Runs, CreateBill(r)
  PROVE  OwnInv' /\ WalkInv'
<1>1. RecurringTypeOK /\ OwnInv /\ run[r].at = "create" /\ RunInv(r) /\ run[r] # NotRunning
  BY DEF SafeInv, WalkInv, CreateBill, NotRunning
<1>2. PICK n \in Periods : n = run[r].period
  BY <1>1, RunFields
<1>3. /\ run'[r].at = "record" /\ run'[r].period = n
      /\ \A s \in Runs \ {r} : run'[s] = run[s]
  BY <1>1, <1>2, GotoType DEF Places, CreateBill
<1>4. /\ created[n] \in Nat /\ created'[n] = created[n] + 1
      /\ \A m \in Periods : created[m] \in Nat
      /\ \A m \in Periods \ {n} : created'[m] = created[m]
  BY <1>1, <1>2 DEF RecurringTypeOK, CreateBill
<1>5. UNCHANGED <<schedule, occurrence, resets, skipped, reshaped, clerk>>
  BY DEF CreateBill
<1>6. /\ Owns(r, n) /\ occurrence[n] = "claimed"
      /\ \A s \in Runs : Owns(s, n) => s = r
  BY <1>1, <1>2 DEF Owns, OwnInv
<1>7. created'[n] \in Nat /\ created'[n] > 0 /\ created[n] <= created'[n]
  BY <1>4
<1>8. Growing
  <2>1. ASSUME NEW m \in Periods PROVE created'[m] \in Nat /\ created[m] <= created'[m]
    BY <1>4, <1>7
  <2> QED
    BY <1>5, <2>1 DEF Growing
<1>9. OwnInv'
  <2>1. \A m \in Periods : Owns(r, m)' => Owns(r, m)
    BY <1>1, <1>2, <1>3 DEF Owns
  <2> QED
    BY <1>1, <1>3, <1>5, <2>1, OwnKept
<1>10. ASSUME NEW m \in Periods PROVE PeriodInv(m)'
  <2>1. PeriodInv(m) /\ PeriodInv(n)
    BY DEF SafeInv, WalkInv
  <2>2. CASE m = n
    <3>1. Pending(n)
      BY <1>1, <1>2 DEF Pending
    <3>2. ~Pending(n)'
      <4>1. \A s \in Runs : ~(run'[s].at \in {"create", "failed"} /\ run'[s].period = n)
        BY <1>3, <1>6 DEF Owns
      <4> QED
        BY <1>5, <1>6, <4>1 DEF Pending
    <3>3. created'[n] <= 1 + resets'[n]
      <4>1. created[n] <= resets[n] /\ resets[n] \in Nat
        BY <1>1, <2>1, <3>1 DEF PeriodInv, RecurringTypeOK
      <4> QED
        BY <1>4, <1>5, <4>1
    <3> QED
      BY <1>5, <1>6, <2>2, <3>2, <3>3 DEF PeriodInv
  <2>3. CASE m # n
    <3>1. Pending(m)' => Pending(m)
      BY <1>3, <1>5 DEF Pending
    <3> QED
      BY <1>4, <1>5, <2>1, <2>3, <3>1 DEF PeriodInv
  <2> QED
    BY <2>2, <2>3
<1>11. ASSUME NEW s \in Runs PROVE RunInv(s)'
  <2>1. RunInv(r)'
    BY <1>1, <1>2, <1>3, <1>5, <1>7 DEF RunInv, Settled, Waived
  <2> QED
    BY <1>1, <1>3, <1>8, <2>1, RunKept DEF SafeInv, WalkInv
<1>12. ASSUME NEW c \in Clerks PROVE ClerkInv(c)'
  BY <1>5, <1>8, ClerkKept DEF SafeInv, WalkInv
<1>13. NothingPassedOver'
  BY <1>5, <1>8, ScheduleKept DEF SafeInv, WalkInv
<1>14. BillsInOrder'
  <2> SUFFICES ASSUME ~reshaped, NEW m \in Periods, NEW k \in Periods, k < m, created'[m] > 0
               PROVE  created'[k] > 0 \/ Waived(k)'
    BY <1>5 DEF BillsInOrder
  <2>0. Waived(k) => Waived(k)'
    BY <1>5 DEF Waived
  <2>1. created[k] > 0 => created'[k] > 0
    <3>1. created[k] \in Nat /\ created'[k] \in Nat /\ created[k] <= created'[k]
      BY <1>1, <1>8 DEF Growing, RecurringTypeOK
    <3> QED
      BY <3>1
  <2>2. CASE m = n
    <3>1. Settled(k) /\ PeriodInv(k)
      BY <1>1, <1>2, <2>2 DEF RunInv, SafeInv, WalkInv
    <3> QED
      BY <2>0, <2>1, <3>1 DEF Settled, PeriodInv
  <2>3. CASE m # n
    <3>1. created[k] > 0 \/ Waived(k)
      BY <1>4, <2>3 DEF BillsInOrder, SafeInv, WalkInv
    <3> QED
      BY <2>0, <2>1, <3>1
  <2> QED
    BY <2>2, <2>3
<1> QED
  BY <1>9, <1>10, <1>11, <1>12, <1>13, <1>14 DEF WalkInv

LEMMA FailKeeps ==
  ASSUME SafeInv, NEW r \in Runs, CreateFails(r)
  PROVE  OwnInv' /\ WalkInv'
<1>1. RecurringTypeOK /\ RunInv(r) /\ run[r].at = "create" /\ run[r] # NotRunning /\ NothingPassedOver
  BY DEF SafeInv, WalkInv, CreateFails, NotRunning
<1>2. UNCHANGED <<schedule, occurrence, created, resets, skipped, reshaped, clerk>>
  BY DEF CreateFails
<1>3. /\ run'[r].at = "failed" /\ run'[r].period = run[r].period
      /\ \A s \in Runs \ {r} : run'[s] = run[s]
  BY <1>1, GotoType DEF Places, CreateFails
<1>4. RunInv(r)'
  BY <1>1, <1>2, <1>3 DEF RunInv, Settled, Waived
<1>5. \A n \in Periods : Owns(r, n)' => Owns(r, n)
  BY <1>1, <1>3 DEF Owns
<1>6. NothingPassedOver'
  BY <1>1, <1>2 DEF NothingPassedOver, Waived
<1> QED
  BY <1>1, <1>2, <1>3, <1>4, <1>5, <1>6, MoveKeeps

(* The owner of a claim gives it up: the outcome of the period is recorded.   *)
LEMMA OutcomeKeeps ==
  ASSUME SafeInv, NEW r \in Runs, NEW n \in Periods, NEW outcome \in {"FAILED", "GENERATED"},
         Owns(r, n), occurrence' = [occurrence EXCEPT ![n] = outcome],
         \A s \in Runs \ {r} : run'[s] = run[s],
         \A m \in Periods : ~Owns(r, m)',
         RunInv(r)', PeriodInv(n)',
         UNCHANGED <<schedule, created, resets, skipped, reshaped, clerk>>
  PROVE  OwnInv' /\ WalkInv'
<1>1. RecurringTypeOK /\ OwnInv
  BY DEF SafeInv
<1>2. occurrence[n] = "claimed" /\ \A s \in Runs : Owns(s, n) => s = r
  BY <1>1 DEF OwnInv
<1>3. /\ occurrence'[n] = outcome
      /\ \A m \in Periods \ {n} : occurrence'[m] = occurrence[m]
  BY <1>1 DEF RecurringTypeOK
<1>4. \A s \in Runs, m \in Periods : Owns(s, m)' => Owns(s, m) /\ m # n
  <2> SUFFICES ASSUME NEW s \in Runs, NEW m \in Periods, Owns(s, m)'
               PROVE  Owns(s, m) /\ m # n
    OBVIOUS
  <2>1. s # r
    OBVIOUS
  <2>2. Owns(s, m)
    BY <2>1 DEF Owns
  <2> QED
    BY <1>2, <2>1, <2>2
<1>5. OwnInv'
  BY <1>1, <1>3, <1>4 DEF OwnInv
<1>6. \A m \in Periods \ {n} : Pending(m)' => Pending(m)
  <2> SUFFICES ASSUME NEW m \in Periods \ {n}, Pending(m)' PROVE Pending(m)
    OBVIOUS
  <2>1. \A s \in Runs : Owns(s, m)' => run'[s] = run[s]
    OBVIOUS
  <2> QED
    BY <1>3, <2>1 DEF Pending, Owns
<1> QED
  BY <1>2, <1>3, <1>5, <1>6, WriteKeeps

LEMMA RecordKeeps ==
  ASSUME SafeInv, NEW r \in Runs, RecordFailure(r) \/ RecordBill(r)
  PROVE  OwnInv' /\ WalkInv'
<1>1. /\ RecurringTypeOK /\ OwnInv /\ RunInv(r) /\ run[r].at \in {"failed", "record"} /\ run[r] # NotRunning
      /\ UNCHANGED <<schedule, created, resets, skipped, reshaped, clerk>>
  BY DEF SafeInv, WalkInv, RecordFailure, RecordBill, NotRunning
<1>2. PICK n \in Periods : n = run[r].period
  BY <1>1, RunFields
<1>3. Owns(r, n) /\ PeriodInv(n)
  BY <1>1, <1>2 DEF Owns, SafeInv, WalkInv
<1>4. CASE RecordFailure(r)
  <2>1. /\ run[r].at = "failed"
        /\ occurrence' = [occurrence EXCEPT ![n] = "FAILED"]
        /\ run'[r] = NotRunning /\ \A s \in Runs \ {r} : run'[s] = run[s]
    BY <1>1, <1>2, <1>4, EndRunType DEF RecordFailure
  <2>2. RunInv(r)' /\ \A m \in Periods : ~Owns(r, m)'
    BY <2>1 DEF RunInv, Owns, NotRunning
  <2>3. PeriodInv(n)'
    <3>1. occurrence'[n] = "FAILED"
      BY <1>1, <2>1 DEF RecurringTypeOK
    <3>2. Pending(n)
      BY <1>2, <2>1 DEF Pending
    <3> QED
      BY <1>1, <1>3, <3>1, <3>2 DEF PeriodInv
  <2> QED
    BY <1>1, <1>3, <2>1, <2>2, <2>3, OutcomeKeeps
<1>5. CASE RecordBill(r)
  <2>1. /\ run[r].at = "record"
        /\ occurrence' = [occurrence EXCEPT ![n] = "GENERATED"]
        /\ run'[r].at = "advance" /\ run'[r].period = n
        /\ \A s \in Runs \ {r} : run'[s] = run[s]
    BY <1>1, <1>2, <1>5, GotoType DEF RecordBill, Places
  <2>2. occurrence'[n] = "GENERATED" /\ created[n] > 0
    BY <1>1, <1>2, <2>1 DEF RecurringTypeOK, RunInv
  <2>3. \A m \in Periods : ~Owns(r, m)'
    BY <2>1 DEF Owns
  <2>4. RunInv(r)'
    <3>1. ~reshaped => \A m \in Periods : m < n => Settled(m)
      BY <1>1, <1>2 DEF RunInv
    <3>2. \A m \in Periods : Settled(m) => Settled(m)'
      BY <1>1, <2>1 DEF Settled, Waived, RecurringTypeOK
    <3> QED
      BY <1>1, <2>1, <2>2, <3>1, <3>2 DEF RunInv
  <2>5. PeriodInv(n)'
    <3>1. ~Pending(n)'
      <4>1. \A s \in Runs \ {r} : ~(run[s].at \in {"create", "failed"} /\ run[s].period = n)
        BY <1>1, <1>3 DEF OwnInv, Owns
      <4>2. \A s \in Runs : ~(run'[s].at \in {"create", "failed"} /\ run'[s].period = n)
        BY <2>1, <4>1
      <4> QED
        BY <2>2, <4>2 DEF Pending
    <3> QED
      BY <1>1, <1>3, <2>2, <3>1 DEF PeriodInv
  <2> QED
    BY <1>1, <1>3, <2>1, <2>3, <2>4, <2>5, OutcomeKeeps
<1> QED
  BY <1>4, <1>5

LEMMA AdvanceScheduleKeeps ==
  ASSUME SafeInv, NEW r \in Runs, AdvanceSchedule(r)
  PROVE  OwnInv' /\ WalkInv'
<1>1. RecurringTypeOK /\ RunInv(r) /\ run[r].at = "advance" /\ run[r] # NotRunning
  BY DEF SafeInv, WalkInv, AdvanceSchedule, NotRunning
<1>2. /\ occurrence[run[r].period] = "GENERATED"
      /\ UNCHANGED <<occurrence, created, resets, skipped, reshaped, clerk>>
  BY <1>1 DEF RunInv, AdvanceSchedule
<1>3. /\ run'[r].at = "approve" /\ run'[r].period = run[r].period
      /\ \A s \in Runs \ {r} : run'[s] = run[s]
  BY <1>1, GotoType DEF Places, AdvanceSchedule
<1>4. NothingPassedOver' /\ schedule'.start = schedule.start
  BY <1>1, <1>2, AdvanceKeeps DEF AdvanceSchedule
<1>5. RunInv(r)'
  BY <1>1, <1>2, <1>3, <1>4 DEF RunInv, Settled, Waived
<1>6. \A n \in Periods : ~Owns(r, n)'
  BY <1>3 DEF Owns
<1> QED
  BY <1>2, <1>3, <1>4, <1>5, <1>6, MoveKeeps

(* The last step of a period, and a run that stops anywhere.                  *)
LEMMA EndKeeps ==
  ASSUME SafeInv, NEW r \in Runs, AutoApprove(r) \/ RunStops(r)
  PROVE  OwnInv' /\ WalkInv'
<1>1. /\ run[r].at # "idle"
      /\ UNCHANGED <<schedule, occurrence, created, resets, skipped, reshaped, clerk>>
      /\ \/ NextPeriod(r) /\ run[r].at = "approve"
         \/ EndRun(r)
  BY RunPlaces DEF AutoApprove, RunStops, SafeInv
<1>2. NothingPassedOver' /\ RunInv(r)
  BY <1>1 DEF NothingPassedOver, Waived, SafeInv, WalkInv
<1>3. run[r].at = "approve" => occurrence[run[r].period] = "GENERATED"
  BY <1>1, <1>2, RunPlaces DEF RunInv, NotRunning
<1> QED
  BY <1>1, <1>2, <1>3, NextKeeps

--------------------------------------------------------------------------------
(* The steps of people *)

LEMMA ReleaseKeeps ==
  ASSUME SafeInv, NEW n \in Periods, ReleaseClaim(n)
  PROVE  OwnInv' /\ WalkInv'
<1>1. /\ RecurringTypeOK /\ OwnInv /\ PeriodInv(n)
      /\ occurrence[n] = "claimed" /\ \A r \in Runs : ~Owns(r, n)
      /\ UNCHANGED <<schedule, created, skipped, reshaped, clerk, run>>
  BY DEF SafeInv, WalkInv, ReleaseClaim, Held
<1>2. /\ occurrence'[n] = "FAILED"
      /\ \A m \in Periods \ {n} : occurrence'[m] = occurrence[m] /\ resets'[m] = resets[m]
  BY <1>1 DEF ReleaseClaim, RecurringTypeOK
<1>3. resets'[n] = resets[n] + 1 /\ resets[n] \in Nat /\ created[n] \in Nat
  BY <1>1 DEF ReleaseClaim, RecurringTypeOK
<1>4. OwnInv'
  <2>1. \A r \in Runs, m \in Periods : Owns(r, m)' => Owns(r, m) /\ m # n
    BY <1>1 DEF Owns
  <2>2. \A r \in Runs, m \in Periods : Owns(r, m) => Owns(r, m)'
    BY <1>1 DEF Owns
  <2> QED
    BY <1>1, <1>2, <2>1, <2>2 DEF OwnInv
<1>5. PeriodInv(n)'
  <2>1. created[n] <= 1 + resets[n]
    BY <1>1 DEF PeriodInv
  <2>2. created[n] <= resets'[n] /\ created[n] <= 1 + resets'[n]
    BY <1>3, <2>1
  <2> QED
    BY <1>1, <1>2, <2>2 DEF PeriodInv
<1>6. \A m \in Periods \ {n} : Pending(m)' => Pending(m)
  BY <1>1, <1>2 DEF Pending
<1> QED
  BY <1>1, <1>2, <1>4, <1>5, <1>6, WriteKeeps

(* A step that changes nothing these invariants are about.                    *)
LEMMA OtherKeeps ==
  ASSUME SafeInv, UNCHANGED <<schedule, occurrence, run, clerk, resets, created, skipped, reshaped>>
  PROVE  OwnInv' /\ WalkInv'
<1>1. Growing
  BY DEF Growing, SafeInv, RecurringTypeOK
<1>2. OwnInv'
  BY DEF SafeInv, OwnInv, Owns
<1>3. ASSUME NEW n \in Periods PROVE PeriodInv(n)'
  BY DEF SafeInv, WalkInv, PeriodInv, Pending
<1>4. ASSUME NEW r \in Runs PROVE RunInv(r)'
  BY <1>1, RunKept DEF SafeInv, WalkInv
<1>5. ASSUME NEW c \in Clerks PROVE ClerkInv(c)'
  BY <1>1, ClerkKept DEF SafeInv, WalkInv
<1>6. NothingPassedOver' /\ BillsInOrder'
  BY <1>1, ScheduleKept, OrderKept DEF SafeInv, WalkInv
<1> QED
  BY <1>2, <1>3, <1>4, <1>5, <1>6 DEF WalkInv

(* A clerk's step, which leaves the runs, the occurrences and the bills.      *)
LEMMA ClerkKeeps ==
  ASSUME SafeInv, NEW c \in Clerks, \A d \in Clerks \ {c} : clerk'[d] = clerk[d],
         UNCHANGED <<occurrence, run, resets, created>>,
         ~reshaped' => ~reshaped /\ schedule'.start = schedule.start /\ skipped \subseteq skipped',
         ClerkInv(c)', NothingPassedOver'
  PROVE  OwnInv' /\ WalkInv'
<1>1. Growing
  BY DEF Growing, SafeInv, RecurringTypeOK
<1>2. OwnInv'
  BY DEF SafeInv, OwnInv, Owns
<1>3. ASSUME NEW n \in Periods PROVE PeriodInv(n)'
  BY DEF SafeInv, WalkInv, PeriodInv, Pending
<1>4. ASSUME NEW r \in Runs PROVE RunInv(r)'
  BY <1>1, RunKept DEF SafeInv, WalkInv
<1>5. ASSUME NEW d \in Clerks PROVE ClerkInv(d)'
  BY <1>1, ClerkKept DEF SafeInv, WalkInv
<1>6. BillsInOrder'
  BY <1>1, OrderKept DEF SafeInv, WalkInv
<1> QED
  BY <1>2, <1>3, <1>4, <1>5, <1>6 DEF WalkInv

LEMMA LoadKeeps ==
  ASSUME SafeInv, NEW c \in Clerks, Pause(c) \/ Resume(c) \/ CancelSchedule(c) \/ Update(c)
  PROVE  OwnInv' /\ WalkInv'
<1>1. RecurringTypeOK /\ NothingPassedOver
  BY DEF SafeInv, WalkInv
<1>2. PICK copy \in Schedule, asks \in {"change", "resume", "reshape"} :
          LoadSchedule(c, copy, asks) /\ Asked(copy, asks)
  BY <1>1, Loads
<1>3. UNCHANGED <<schedule, occurrence, run, resets, created, skipped, reshaped>>
  BY <1>2 DEF LoadSchedule
<1>4. /\ clerk'[c].copy = copy /\ clerk'[c].asks = asks
      /\ \A d \in Clerks \ {c} : clerk'[d] = clerk[d]
  BY <1>1, <1>2, LoadType
<1>5. ClerkInv(c)'
  BY <1>1, <1>2, <1>3, <1>4 DEF ClerkInv, NothingPassedOver, Settled, Waived, Asked
<1>6. NothingPassedOver'
  BY <1>1, <1>3 DEF NothingPassedOver, Waived
<1> QED
  BY <1>3, <1>4, <1>5, <1>6, ClerkKeeps

LEMMA CompareKeeps ==
  ASSUME SafeInv, NEW c \in Clerks, CompareSchedule(c)
  PROVE  OwnInv' /\ WalkInv'
<1>1. RecurringTypeOK /\ NothingPassedOver /\ ClerkInv(c)
  BY DEF SafeInv, WalkInv
<1>2. UNCHANGED <<schedule, occurrence, run, resets, created, skipped, reshaped>>
  BY DEF CompareSchedule
<1>3. /\ clerk[c] # NoEdit
      /\ clerk'[c].copy = clerk[c].copy /\ clerk'[c].asks = clerk[c].asks
      /\ \A d \in Clerks \ {c} : clerk'[d] = clerk[d]
  BY <1>1, CompareType
<1>4. ClerkInv(c)'
  BY <1>1, <1>2, <1>3 DEF ClerkInv, Settled, Waived
<1>5. NothingPassedOver'
  BY <1>1, <1>2 DEF NothingPassedOver, Waived
<1> QED
  BY <1>2, <1>3, <1>4, <1>5, ClerkKeeps

(* A start date that is changed while nothing has been billed and nobody else *)
(* is at work: nothing of the schedule is before it.                          *)
LEMMA ReshapeKeeps ==
  ASSUME SafeInv, NEW c \in Clerks, SaveSchedule(c), Alone(c), schedule' = clerk[c].copy,
         clerk[c].asks = "reshape", ~reshaped
  PROVE  OwnInv' /\ WalkInv'
<1>1. RecurringTypeOK /\ ClerkInv(c)
  BY DEF SafeInv, WalkInv
<1>2. /\ clerk[c].copy \in Schedule /\ clerk'[c] = NoEdit
      /\ \A d \in Clerks \ {c} : clerk'[d] = clerk[d]
  BY <1>1, SaveType
<1>3. UNCHANGED <<occurrence, run, resets, created>>
  BY DEF SaveSchedule
<1>4. /\ \A r \in Runs : run'[r] = NotRunning
      /\ \A d \in Clerks : clerk'[d] = NoEdit
  BY <1>2, <1>3 DEF Alone
<1>5. schedule'.next = schedule'.start
  <2>1. clerk[c] # NoEdit
    BY DEF SaveSchedule, NoEdit
  <2> QED
    BY <1>1, <2>1 DEF ClerkInv
<1>6. OwnInv'
  BY <1>4 DEF OwnInv, Owns, NotRunning
<1>7. ASSUME NEW n \in Periods PROVE PeriodInv(n)'
  BY <1>3 DEF SafeInv, WalkInv, PeriodInv, Pending
<1>8. (\A r \in Runs : RunInv(r)') /\ \A d \in Clerks : ClerkInv(d)'
  BY <1>4 DEF RunInv, ClerkInv
<1>9. NothingPassedOver'
  BY <1>5 DEF NothingPassedOver, Waived
<1>10. BillsInOrder'
  <2>1. \A n \in Periods : created[n] = 0
    BY DEF Alone, SafeInv, WalkInv, PeriodInv
  <2> QED
    BY <1>3, <2>1 DEF BillsInOrder
<1> QED
  BY <1>6, <1>7, <1>8, <1>9, <1>10 DEF WalkInv

(* Any other save puts a date that was loaded: what is before it is settled,  *)
(* or the resumption has passed over it.                                      *)
LEMMA ChangeKeeps ==
  ASSUME SafeInv, NEW c \in Clerks, SaveSchedule(c), reshaped' \/ clerk[c].asks # "reshape"
  PROVE  OwnInv' /\ WalkInv'
<1>1. RecurringTypeOK /\ NothingPassedOver /\ ClerkInv(c)
  BY DEF SafeInv, WalkInv
<1> DEFINE next == clerk[c].copy.next
<1>2. /\ clerk[c] \in Edit /\ clerk[c].copy \in Schedule
      /\ clerk[c].asks \in {"change", "resume", "reshape"}
      /\ schedule'.next \in {schedule.next, next}
      /\ schedule'.start \in {schedule.start, clerk[c].copy.start}
      /\ clerk'[c] = NoEdit
      /\ \A d \in Clerks \ {c} : clerk'[d] = clerk[d]
  BY <1>1, SaveType
<1>3. UNCHANGED <<occurrence, run, resets, created>> /\ clerk[c] # NoEdit
  BY DEF SaveSchedule, NoEdit
<1>4. /\ skipped' = IF clerk[c].asks = "resume" THEN skipped \cup 0..(next - 1) ELSE skipped
      /\ reshaped => reshaped'
  BY DEF SaveSchedule
<1>5. ~reshaped' => /\ ~reshaped /\ schedule'.start = schedule.start
                    /\ skipped \subseteq skipped'
  BY <1>1, <1>2, <1>3, <1>4 DEF ClerkInv
<1>6. ~reshaped' => \A n \in Periods : n < next => Settled(n) \/ n \in skipped'
  <2>1. next \in 0..(LastPeriod + 1)
    BY <1>2 DEF Schedule
  <2> SUFFICES ASSUME ~reshaped', NEW n \in Periods, n < next PROVE Settled(n) \/ n \in skipped'
    OBVIOUS
  <2>2. CASE clerk[c].asks = "resume"
    <3>1. n \in 0..(next - 1)
      <4> HIDE DEF next
      <4> QED
        BY <2>1 DEF Periods
    <3> QED
      BY <1>4, <2>2, <3>1
  <2>3. CASE clerk[c].asks # "resume"
    BY <1>1, <1>2, <1>3, <1>5, <2>3 DEF ClerkInv
  <2> QED
    BY <2>2, <2>3
<1> HIDE DEF next
<1>7. NothingPassedOver'
  <2> SUFFICES ASSUME ~reshaped', NEW n \in Periods, n < schedule'.next
               PROVE  (occurrence[n] = "GENERATED" \/ Waived(n))'
    BY DEF NothingPassedOver
  <2>1. Settled(n) \/ n \in skipped'
    BY <1>1, <1>2, <1>5, <1>6 DEF NothingPassedOver, Settled
  <2> QED
    BY <1>3, <1>5, <2>1 DEF Settled, Waived
<1>8. ClerkInv(c)'
  BY <1>2 DEF ClerkInv
<1> QED
  BY <1>2, <1>3, <1>5, <1>7, <1>8, ClerkKeeps

LEMMA SaveKeeps ==
  ASSUME SafeInv, NEW c \in Clerks, SaveSchedule(c)
  PROVE  OwnInv' /\ WalkInv'
<1>1. CASE reshaped' \/ clerk[c].asks # "reshape"
  BY <1>1, ChangeKeeps
<1>2. CASE ~reshaped' /\ clerk[c].asks = "reshape"
  <2>1. ~reshaped /\ Alone(c) /\ schedule' = clerk[c].copy
    BY <1>2 DEF SaveSchedule
  <2> QED
    BY <1>2, <2>1, ReshapeKeeps
<1> QED
  BY <1>1, <1>2

--------------------------------------------------------------------------------
(* The invariant *)

LEMMA SafeInit == RecurringInit => SafeInv
<1> SUFFICES ASSUME RecurringInit PROVE SafeInv
  OBVIOUS
<1>1. RecurringTypeOK
  BY TypeInit
<1>2. OwnInv
  BY DEF RecurringInit, OwnInv, Owns, NotRunning
<1>3. ASSUME NEW n \in Periods PROVE PeriodInv(n)
  BY DEF RecurringInit, PeriodInv
<1>4. \A r \in Runs : RunInv(r)
  BY DEF RecurringInit, RunInv
<1>5. \A c \in Clerks : ClerkInv(c)
  BY DEF RecurringInit, ClerkInv
<1>6. NothingPassedOver
  <2>1. \A n \in Periods : ~(n < 0)
    BY DEF Periods
  <2> QED
    BY <2>1 DEF RecurringInit, NothingPassedOver
<1>7. BillsInOrder
  BY DEF RecurringInit, BillsInOrder
<1> QED
  BY <1>1, <1>2, <1>3, <1>4, <1>5, <1>6, <1>7 DEF SafeInv, WalkInv

LEMMA SafeStep == SafeInv /\ [RecurringNext]_recurringVars => SafeInv'
<1> SUFFICES ASSUME SafeInv, [RecurringNext]_recurringVars PROVE SafeInv'
  OBVIOUS
<1>1. RecurringTypeOK'
  BY TypeStep DEF SafeInv
<1>2. OwnInv' /\ WalkInv'
  <2>1. CASE NewPeriod
    BY <2>1, OtherKeeps DEF NewPeriod
  <2>2. ASSUME NEW r \in Runs, StartRun(r) PROVE OwnInv' /\ WalkInv'
    BY <2>2, StartKeeps
  <2>3. ASSUME NEW r \in Runs, Works(r) PROVE OwnInv' /\ WalkInv'
    BY <2>3, ClaimKeeps, LookKeeps, CreateKeeps, FailKeeps, RecordKeeps, AdvanceScheduleKeeps,
       EndKeeps DEF Works
  <2>4. ASSUME NEW r \in Runs, RunStops(r) PROVE OwnInv' /\ WalkInv'
    BY <2>4, EndKeeps
  <2>5. ASSUME NEW n \in Periods, ReleaseClaim(n) PROVE OwnInv' /\ WalkInv'
    BY <2>5, ReleaseKeeps
  <2>6. ASSUME NEW n \in Periods, CancelBill(n) PROVE OwnInv' /\ WalkInv'
    BY <2>6, OtherKeeps DEF CancelBill
  <2>7. ASSUME NEW c \in Clerks, Pause(c) \/ Resume(c) \/ CancelSchedule(c) \/ Update(c)
        PROVE  OwnInv' /\ WalkInv'
    BY <2>7, LoadKeeps
  <2>8. ASSUME NEW c \in Clerks, CompareSchedule(c) PROVE OwnInv' /\ WalkInv'
    BY <2>8, CompareKeeps
  <2>9. ASSUME NEW c \in Clerks, SaveSchedule(c) PROVE OwnInv' /\ WalkInv'
    BY <2>9, SaveKeeps
  <2>10. CASE UNCHANGED recurringVars
    BY <2>10, OtherKeeps DEF recurringVars
  <2> QED
    BY <2>1, <2>2, <2>3, <2>4, <2>5, <2>6, <2>7, <2>8, <2>9, <2>10 DEF RecurringNext
<1> QED
  BY <1>1, <1>2 DEF SafeInv

LEMMA SafeAlways == RecurringSpec => []SafeInv
BY SafeInit, SafeStep, PTL DEF RecurringSpec

(* The rows, the runs and what the clerks have loaded keep their types.       *)
THEOREM RecurringTypeCorrect == RecurringSpec => []RecurringTypeOK
<1>1. SafeInv => RecurringTypeOK
  BY DEF SafeInv
<1> QED
  BY <1>1, SafeAlways, PTL

(* The claim of a period makes it billed once, and once more for each release *)
(* by hand, whatever crashes, fails, is cancelled or races.                   *)
THEOREM BilledOnce == RecurringSpec => []ClaimBillsOnce
<1>1. SafeInv => ClaimBillsOnce
  BY DEF SafeInv, WalkInv, PeriodInv, ClaimBillsOnce
<1> QED
  BY <1>1, SafeAlways, PTL

(* A period nobody has claimed has no bill, and one recorded as generated had *)
(* its bill.                                                                  *)
THEOREM OccurrencesCorrect == RecurringSpec => []OccurrencesTellBills
<1>1. SafeInv => OccurrencesTellBills
  BY DEF SafeInv, WalkInv, PeriodInv, OccurrencesTellBills
<1> QED
  BY <1>1, SafeAlways, PTL

(* Periods are billed in their order, but for those before the start date and  *)
(* those a resumption passed over, unless the start date was changed beside a  *)
(* run, a bill or another change.                                              *)
THEOREM BilledInOrder == RecurringSpec => []BillsInOrder
<1>1. SafeInv => BillsInOrder
  BY DEF SafeInv, WalkInv
<1> QED
  BY <1>1, SafeAlways, PTL

(* The schedule moves past no period that is not recorded as billed, however  *)
(* stale the rows that people save, with the same exceptions.                 *)
THEOREM ScheduleCorrect == RecurringSpec => []NothingPassedOver
<1>1. SafeInv => NothingPassedOver
  BY DEF SafeInv, WalkInv
<1> QED
  BY <1>1, SafeAlways, PTL

--------------------------------------------------------------------------------
(* The subscription *)

USE SubscriptionAssumption

Kinds == {"checkout.completed", "subscription.updated", "subscription.deleted",
          "payment.failed", "payment.succeeded"}
EventType == [kind : Kinds, sub : Checkouts, customer : Checkouts, status : Statuses,
              seats : Nat, cancels : BOOLEAN]
TermsType == [status : Statuses \cup {"none"}, seats : Nat, cancels : BOOLEAN]
SessionType == [at : {"new", "read", "open", "stored"}, seats : Nat,
                customer : Checkouts \cup {NoCheckout}]
CancelType == {Idle} \cup [at : {"read"}, sub : Checkouts \cup {NoCheckout}]
                     \cup [at : {"told"}]
TxType == [event : Nat, row : RowType]
SyncType == {Idle} \cup [at : {"loaded"}, row : RowType]
                   \cup [at : {"counted", "told"}, row : RowType, seats : Nat]

ColumnsInv ==
    /\ row \in RowType /\ now \in 0..MaxTime /\ users \in 1..MaxUsers
    /\ sent \in Seq(EventType) /\ applied \subseteq DOMAIN sent
    /\ tx \in [Processes -> {NoTx} \cup TxType]
    /\ \A p \in Processes : tx[p] # NoTx => tx[p].event \in DOMAIN sent
    /\ session \in [Checkouts -> SessionType] /\ cancelling \in CancelType
    /\ psub \in [Checkouts -> TermsType]
    /\ \A c \in Checkouts : session[c].at \in {"new", "read"} => psub[c].status = "none"
    /\ sync \in [Syncers -> SyncType]

(* One delivery is applied at a time, to the row as it is, and it is news.      *)
Failures(r, e) ==
    IF Matched(r, e) /\ e.kind = "payment.failed" THEN r.failed + 1
    ELSE IF Matched(r, e) /\ e.kind \in {"payment.succeeded", "checkout.completed"} THEN 0
    ELSE r.failed
ApplyInv ==
    /\ \A p \in Processes : tx[p] # NoTx =>
           /\ tx[p].event \notin applied
           /\ tx[p].row.failed = Failures(row, sent[tx[p].event])
           /\ \A q \in Processes : tx[q] # NoTx => q = p
    /\ IsFiniteSet(counted) /\ counted \subseteq applied
    /\ FailuresCounted

--------------------------------------------------------------------------------
(* Types *)

LEMMA BillingKinds ==
  /\ NoTx \notin TxType /\ NoTx.event = 0
  /\ \A r \in RowType :
         /\ r.status \in Statuses /\ r.since \in NoDate..MaxTime /\ r.failed \in Nat
         /\ r.sub \in Checkouts \cup {NoCheckout} /\ r.customer \in Checkouts \cup {NoCheckout}
         /\ r.cancels \in BOOLEAN /\ r.seats \in Nat
  /\ \A e \in EventType : /\ e.kind \in Kinds /\ e.sub \in Checkouts /\ e.customer \in Checkouts
                          /\ e.status \in Statuses /\ e.seats \in Nat /\ e.cancels \in BOOLEAN
  /\ \A x \in TxType : x.event \in Nat /\ x.row \in RowType
  /\ Idle.at = "idle"
BY DEF NoTx, TxType, RowType, EventType, Idle

LEMMA PastDueType ==
  ASSUME NEW r \in RowType, now \in 0..MaxTime
  PROVE  PastDue(r) \in RowType /\ PastDue(r).failed = r.failed
<1> DEFINE d == IF r.since = NoDate THEN now ELSE r.since
<1>1. d \in NoDate..MaxTime /\ "PAST_DUE" \in Statuses
  BY BillingKinds DEF NoDate, Statuses
<1>2. PastDue(r) = [r EXCEPT !.status = "PAST_DUE", !.since = d]
  BY DEF PastDue
<1> HIDE DEF d
<1> QED
  BY <1>1, <1>2 DEF RowType

LEMMA ActiveAgainType ==
  ASSUME NEW r \in RowType
  PROVE  ActiveAgain(r) \in RowType /\ ActiveAgain(r).failed = 0
<1>1. NoDate \in NoDate..MaxTime /\ "ACTIVE" \in Statuses
  BY DEF NoDate, Statuses
<1> QED
  BY <1>1 DEF ActiveAgain, RowType

(* What an event makes of a row is a row; only payments count failures. *)
LEMMA AppliedType ==
  ASSUME NEW r \in RowType, NEW e \in EventType, now \in 0..MaxTime
  PROVE  /\ Applied(r, e) \in RowType
         /\ Matched(r, e) => Applied(r, e).failed = Failures(r, e)
<1>1. CASE e.kind = "checkout.completed"
  <2> DEFINE a == ActiveAgain(r)
  <2>1. a \in RowType /\ a.failed = 0 /\ e.sub \in Checkouts /\ e.customer \in Checkouts
    BY ActiveAgainType, BillingKinds
  <2>2. Applied(r, e) = [a EXCEPT !.sub = e.sub, !.customer = e.customer, !.cancels = FALSE]
    BY <1>1 DEF Applied
  <2> HIDE DEF a
  <2>3. Applied(r, e) \in RowType /\ Applied(r, e).failed = 0
    BY <2>1, <2>2 DEF RowType
  <2> QED
    BY <1>1, <2>3 DEF Failures
<1>2. CASE e.kind = "subscription.updated"
  <2> DEFINE u == [r EXCEPT !.status = e.status, !.cancels = e.cancels, !.seats = e.seats]
  <2>1. u \in RowType /\ u.failed = r.failed
    BY BillingKinds DEF RowType
  <2>2. Applied(r, e) = IF e.status = "ACTIVE" THEN [u EXCEPT !.since = NoDate]
                        ELSE IF e.status = "PAST_DUE" THEN PastDue(u) ELSE u
    BY <1>2 DEF Applied
  <2> HIDE DEF u
  <2>3. [u EXCEPT !.since = NoDate] \in RowType /\ [u EXCEPT !.since = NoDate].failed = r.failed
    BY <2>1 DEF RowType, NoDate
  <2>4. PastDue(u) \in RowType /\ PastDue(u).failed = r.failed
    BY <2>1, PastDueType
  <2> QED
    BY <1>2, <2>1, <2>2, <2>3, <2>4 DEF Failures
<1>3. CASE e.kind = "subscription.deleted"
  <2>1. Applied(r, e) = [r EXCEPT !.status = "CANCELED"]
    BY <1>3 DEF Applied
  <2>2. [r EXCEPT !.status = "CANCELED"] \in RowType /\ [r EXCEPT !.status = "CANCELED"].failed = r.failed
    BY DEF RowType, Statuses
  <2> QED
    BY <1>3, <2>1, <2>2 DEF Failures
<1>4. CASE e.kind = "payment.failed"
  <2> DEFINE d == PastDue(r)
  <2>1. d \in RowType /\ d.failed = r.failed
    BY PastDueType
  <2>2. Applied(r, e) = [d EXCEPT !.failed = @ + 1]
    BY <1>4 DEF Applied
  <2> HIDE DEF d
  <2>3. Applied(r, e) \in RowType /\ Applied(r, e).failed = r.failed + 1
    BY <2>1, <2>2 DEF RowType
  <2> QED
    BY <1>4, <2>3 DEF Failures
<1>5. CASE e.kind = "payment.succeeded"
  <2> DEFINE s == IF r.status = "PAST_DUE" THEN "ACTIVE" ELSE r.status
  <2>1. s \in Statuses /\ Applied(r, e) = [r EXCEPT !.status = s, !.since = NoDate, !.failed = 0]
    BY <1>5, BillingKinds DEF Applied, Statuses
  <2> HIDE DEF s
  <2>2. NoDate \in NoDate..MaxTime
    BY DEF NoDate
  <2>3. PICK x : x = [r EXCEPT !.status = s, !.since = NoDate, !.failed = 0]
    OBVIOUS
  <2>4. x \in RowType /\ x.failed = 0
    BY <2>1, <2>2, <2>3 DEF RowType
  <2> QED
    BY <1>5, <2>1, <2>3, <2>4 DEF Failures
<1> QED
  BY <1>1, <1>2, <1>3, <1>4, <1>5, BillingKinds DEF Kinds

(* The provider's events only grow. *)
LEMMA EventsGrow ==
  ASSUME sent \in Seq(EventType), NEW es \in Seq(EventType), Emit(es)
  PROVE  /\ sent' \in Seq(EventType) /\ DOMAIN sent \subseteq DOMAIN sent'
         /\ \A i \in DOMAIN sent : sent'[i] = sent[i]
BY DEF Emit

LEMMA EventsType ==
  ASSUME ColumnsInv, psub' \in [Checkouts -> TermsType],
         NEW c \in Checkouts, psub'[c].status \in Statuses
  PROVE  \A k \in Kinds : Event(k, c, psub') \in EventType
<1>1. CustomerOf(c) \in Checkouts
  BY DEF ColumnsInv, SessionType, CustomerOf
<1>2. psub'[c] \in TermsType
  OBVIOUS
<1> QED
  BY <1>1, <1>2 DEF Event, EventType, TermsType

(* What the provider does: its subscriptions and the events about them.        *)
ProviderStep ==
    \/ \E c \in Checkouts : Provider(c)
    \/ Cancel
    \/ \E p \in Syncers : SyncProvider(p)

(* A step of the provider is about one subscription, that of an open session,  *)
(* and its events tell the subscription's new state.                           *)
Told(c, es) ==
    /\ es \in Seq(EventType) /\ es # <<>> /\ Emit(es) /\ session[c].at \in {"open", "stored"}
    /\ psub' \in [Checkouts -> TermsType] /\ \A d \in Checkouts \ {c} : psub'[d] = psub[d]
    /\ psub[c].status \in Unfinished \cup {"none"}
    /\ psub'[c].status \in Unfinished \cup {"CANCELED"}
    /\ psub'[c].status = "INCOMPLETE" => psub[c].status \notin Live
    /\ psub'[c].status \in Live /\ psub[c].status \notin Live =>
           es[Len(es)].kind = "checkout.completed"
    /\ \/ psub[c].status \in Unfinished
       \/ ~overlapped' => \A d \in Checkouts \ {c} : psub[d].status \notin Unfinished
    /\ \A i \in DOMAIN es :
           /\ es[i].sub = c /\ es[i].status = psub'[c].status
           /\ es[i].kind = "checkout.completed" => es[i].status = "ACTIVE"
           /\ es[i].kind = "subscription.deleted" => es[i].status = "CANCELED"
           /\ es[i].kind = "payment.failed" =>
                  \/ es[i].status = "INCOMPLETE"
                  \/ es[i].status = "PAST_DUE" /\ psub[c].status \in Live
           /\ es[i].kind = "payment.succeeded" =>
                  es[i].status = "ACTIVE" /\ (i > 1 \/ psub[c].status \in Live)

LEMMA StatusKinds ==
  /\ Live = {"ACTIVE", "PAST_DUE"} /\ Unfinished = {"ACTIVE", "PAST_DUE", "INCOMPLETE"}
  /\ Unfinished \cup {"CANCELED"} \subseteq Statuses /\ "none" \notin Statuses
  /\ Kinds = {"checkout.completed", "subscription.updated", "subscription.deleted",
              "payment.failed", "payment.succeeded"}
BY DEF Live, Unfinished, Statuses, Kinds

(* One, two or three events of one subscription. *)
LEMMA TellingOne ==
  ASSUME ColumnsInv, psub' \in [Checkouts -> TermsType],
         NEW c \in Checkouts, psub'[c].status \in Statuses, NEW k \in Kinds
  PROVE  \E es \in Seq(EventType) :
             /\ es = <<Event(k, c, psub')>> /\ DOMAIN es = {1} /\ Len(es) = 1 /\ es[1].kind = k
             /\ es[1].sub = c /\ es[1].status = psub'[c].status
<1>1. PICK e \in EventType : e = Event(k, c, psub')
  BY EventsType
<1>2. e.kind = k /\ e.sub = c /\ e.status = psub'[c].status
  BY <1>1 DEF Event
<1>3. <<e>> \in Seq(EventType) /\ Len(<<e>>) = 1 /\ <<e>>[1] = e /\ DOMAIN <<e>> = {1}
  OBVIOUS
<1>4. PICK es : es = <<e>>
  OBVIOUS
<1> QED
  BY <1>1, <1>2, <1>3, <1>4

LEMMA TellingTwo ==
  ASSUME ColumnsInv, psub' \in [Checkouts -> TermsType],
         NEW c \in Checkouts, psub'[c].status \in Statuses, NEW k \in Kinds, NEW l \in Kinds
  PROVE  \E es \in Seq(EventType) :
             /\ es = <<Event(k, c, psub'), Event(l, c, psub')>>
             /\ DOMAIN es = {1, 2} /\ Len(es) = 2 /\ es[1].kind = k /\ es[2].kind = l
             /\ \A i \in {1, 2} : es[i].sub = c /\ es[i].status = psub'[c].status
<1>1. PICK e \in EventType : e = Event(k, c, psub')
  BY EventsType
<1>2. PICK f \in EventType : f = Event(l, c, psub')
  BY EventsType
<1>3. /\ e.kind = k /\ e.sub = c /\ e.status = psub'[c].status
      /\ f.kind = l /\ f.sub = c /\ f.status = psub'[c].status
  BY <1>1, <1>2 DEF Event
<1>4. /\ <<e, f>> \in Seq(EventType) /\ Len(<<e, f>>) = 2
      /\ <<e, f>>[1] = e /\ <<e, f>>[2] = f /\ DOMAIN <<e, f>> = {1, 2}
  OBVIOUS
<1>5. PICK es : es = <<e, f>>
  OBVIOUS
<1>6. \A i \in {1, 2} : es[i].sub = c /\ es[i].status = psub'[c].status
  BY <1>3, <1>4, <1>5
<1>7. es = <<Event(k, c, psub'), Event(l, c, psub')>>
  BY <1>1, <1>2, <1>5
<1>8. /\ es \in Seq(EventType) /\ DOMAIN es = {1, 2} /\ Len(es) = 2
      /\ es[1].kind = k /\ es[2].kind = l
  BY <1>3, <1>4, <1>5
<1> QED
  BY <1>6, <1>7, <1>8

LEMMA TellingThree ==
  ASSUME ColumnsInv, psub' \in [Checkouts -> TermsType],
         NEW c \in Checkouts, psub'[c].status \in Statuses,
         NEW k \in Kinds, NEW l \in Kinds, NEW m \in Kinds
  PROVE  \E es \in Seq(EventType) :
             /\ es = <<Event(k, c, psub'), Event(l, c, psub'), Event(m, c, psub')>>
             /\ DOMAIN es = {1, 2, 3} /\ Len(es) = 3
             /\ es[1].kind = k /\ es[2].kind = l /\ es[3].kind = m
             /\ \A i \in {1, 2, 3} : es[i].sub = c /\ es[i].status = psub'[c].status
<1>1. PICK e \in EventType : e = Event(k, c, psub')
  BY EventsType
<1>2. PICK f \in EventType : f = Event(l, c, psub')
  BY EventsType
<1>3. PICK g \in EventType : g = Event(m, c, psub')
  BY EventsType
<1>4. /\ e.kind = k /\ e.sub = c /\ e.status = psub'[c].status
      /\ f.kind = l /\ f.sub = c /\ f.status = psub'[c].status
      /\ g.kind = m /\ g.sub = c /\ g.status = psub'[c].status
  BY <1>1, <1>2, <1>3 DEF Event
<1>5. /\ <<e, f, g>> \in Seq(EventType) /\ Len(<<e, f, g>>) = 3
      /\ <<e, f, g>>[1] = e /\ <<e, f, g>>[2] = f /\ <<e, f, g>>[3] = g
      /\ DOMAIN <<e, f, g>> = {1, 2, 3}
  OBVIOUS
<1>6. PICK es : es = <<e, f, g>>
  OBVIOUS
<1>7. \A i \in {1, 2, 3} : es[i].sub = c /\ es[i].status = psub'[c].status
  BY <1>4, <1>5, <1>6
<1>8. es = <<Event(k, c, psub'), Event(l, c, psub'), Event(m, c, psub')>>
  BY <1>1, <1>2, <1>3, <1>6
<1>9. /\ es \in Seq(EventType) /\ DOMAIN es = {1, 2, 3} /\ Len(es) = 3
      /\ es[1].kind = k /\ es[2].kind = l /\ es[3].kind = m
  BY <1>4, <1>5, <1>6
<1> QED
  BY <1>7, <1>8, <1>9

LEMMA ProviderTells ==
  ASSUME ColumnsInv, ProviderStep
  PROVE  UNCHANGED <<psub, sent>> \/ \E c \in Checkouts, es \in Seq(EventType) : Told(c, es)
<1> DEFINE Goal == UNCHANGED <<psub, sent>> \/ \E c \in Checkouts, es \in Seq(EventType) : Told(c, es)
<1>0. \A c \in Checkouts :
          /\ psub[c] \in TermsType /\ session[c] \in SessionType
          /\ psub[c].status # "none" => session[c].at \in {"open", "stored"}
  BY DEF ColumnsInv, SessionType
<1>a. /\ "checkout.completed" \in Kinds /\ "subscription.updated" \in Kinds
      /\ "payment.failed" \in Kinds /\ "payment.succeeded" \in Kinds
      /\ \A k \in Unfinished \cup {"CANCELED"} : k \in Statuses /\ k # "none"
      /\ \A k \in Live : k \in Unfinished
  BY StatusKinds
<1>1. ASSUME NEW c \in Checkouts, NEW x \in TermsType, psub' = [psub EXCEPT ![c] = x]
      PROVE  /\ psub' \in [Checkouts -> TermsType] /\ psub'[c] = x
             /\ \A d \in Checkouts \ {c} : psub'[d] = psub[d]
  BY <1>1 DEF ColumnsInv
<1>2. ASSUME NEW c \in Checkouts, CheckoutPaid(c) PROVE Goal
  <2> DEFINE x == [status |-> "ACTIVE", seats |-> session[c].seats, cancels |-> FALSE]
  <2>1. x \in TermsType /\ x.status = "ACTIVE"
    <3>1. session[c].seats \in Nat /\ "ACTIVE" \in Statuses
      BY <1>0 DEF SessionType, Statuses
    <3> QED
      BY <3>1 DEF TermsType
  <2>2. psub' = [psub EXCEPT ![c] = x]
    BY <1>2 DEF CheckoutPaid
  <2> HIDE DEF x
  <2>3. /\ psub' \in [Checkouts -> TermsType] /\ psub'[c].status = "ACTIVE"
        /\ \A d \in Checkouts \ {c} : psub'[d] = psub[d]
    BY <1>1, <2>1, <2>2
  <2>s. psub'[c].status \in Statuses
    BY <2>3 DEF Statuses
  <2>4. PICK es \in Seq(EventType) :
            /\ es = <<Event("subscription.updated", c, psub'), Event("payment.succeeded", c, psub'),
                      Event("checkout.completed", c, psub')>>
            /\ DOMAIN es = {1, 2, 3} /\ Len(es) = 3 /\ es[1].kind = "subscription.updated"
            /\ es[2].kind = "payment.succeeded" /\ es[3].kind = "checkout.completed"
            /\ \A i \in {1, 2, 3} : es[i].sub = c /\ es[i].status = psub'[c].status
    <3>1. psub' \in [Checkouts -> TermsType]
      BY <2>3
    <3> QED
      BY <2>s, <3>1, <1>a, TellingThree
  <2>5. /\ Emit(es) /\ session[c].at \in {"open", "stored"}
        /\ psub[c].status \in {"none", "INCOMPLETE"}
        /\ ~overlapped' => \A d \in Checkouts \ {c} : psub[d].status \notin Unfinished
    BY <1>2, <2>4 DEF CheckoutPaid, Tries
  <2>6. Told(c, es)
    BY <2>3, <2>4, <2>5, StatusKinds DEF Told
  <2> QED
    BY <2>6
<1>3. ASSUME NEW c \in Checkouts, CheckoutDeclined(c) PROVE Goal
  <2> DEFINE x == [status |-> "INCOMPLETE", seats |-> session[c].seats, cancels |-> FALSE]
  <2>1. x \in TermsType /\ x.status = "INCOMPLETE"
    <3>1. session[c].seats \in Nat /\ "INCOMPLETE" \in Statuses
      BY <1>0 DEF SessionType, Statuses
    <3> QED
      BY <3>1 DEF TermsType
  <2>2. psub' = [psub EXCEPT ![c] = x]
    BY <1>3 DEF CheckoutDeclined
  <2> HIDE DEF x
  <2>3. /\ psub' \in [Checkouts -> TermsType] /\ psub'[c].status = "INCOMPLETE"
        /\ \A d \in Checkouts \ {c} : psub'[d] = psub[d]
    BY <1>1, <2>1, <2>2
  <2>4. PICK k \in Kinds, l \in Kinds :
            /\ Emit(<<Event(k, c, psub'), Event(l, c, psub')>>)
            /\ {k, l} \subseteq {"subscription.updated", "payment.failed"}
    BY <1>3, StatusKinds DEF CheckoutDeclined
  <2>s. psub'[c].status \in Statuses
    BY <2>3 DEF Statuses
  <2>5. PICK es \in Seq(EventType) :
            /\ es = <<Event(k, c, psub'), Event(l, c, psub')>>
            /\ DOMAIN es = {1, 2} /\ Len(es) = 2 /\ es[1].kind = k /\ es[2].kind = l
            /\ \A i \in {1, 2} : es[i].sub = c /\ es[i].status = psub'[c].status
    BY <2>s, <2>3, TellingTwo
  <2>6. /\ Emit(es) /\ session[c].at \in {"open", "stored"}
        /\ psub[c].status \in {"none", "INCOMPLETE"}
        /\ ~overlapped' => \A d \in Checkouts \ {c} : psub[d].status \notin Unfinished
    BY <1>3, <2>4, <2>5 DEF CheckoutDeclined, Tries
  <2>7. Told(c, es)
    BY <2>3, <2>4, <2>5, <2>6, StatusKinds DEF Told
  <2> QED
    BY <2>7
<1>4. ASSUME NEW c \in Checkouts, NEW x \in TermsType, NEW k \in Kinds \ {"checkout.completed"},
             psub' = [psub EXCEPT ![c] = x], Emit(<<Event(k, c, psub')>>),
             psub[c].status \in Unfinished, x.status \in Unfinished \cup {"CANCELED"},
             x.status = "INCOMPLETE" => psub[c].status \notin Live,
             x.status \in Live => psub[c].status \in Live,
             k \notin {"payment.failed", "payment.succeeded"},
             k = "subscription.deleted" => x.status = "CANCELED"
      PROVE  Goal
  <2>1. /\ psub' \in [Checkouts -> TermsType] /\ psub'[c] = x
        /\ \A d \in Checkouts \ {c} : psub'[d] = psub[d]
    BY <1>1, <1>4
  <2>2. PICK es \in Seq(EventType) :
            /\ es = <<Event(k, c, psub')>> /\ DOMAIN es = {1} /\ Len(es) = 1 /\ es[1].kind = k
            /\ es[1].sub = c /\ es[1].status = psub'[c].status
    <3>1. k \in Kinds /\ psub'[c].status \in Statuses
      BY <1>4, <2>1, <1>a
    <3> QED
      BY <3>1, <2>1, TellingOne
  <2>3. session[c].at \in {"open", "stored"}
    BY <1>0, <1>4, <1>a
  <2>4. Told(c, es)
    BY <1>4, <2>1, <2>2, <2>3, StatusKinds DEF Told
  <2> QED
    BY <2>4
<1>5. ASSUME NEW c \in Checkouts, NEW k \in {"payment.succeeded", "payment.failed"},
             NEW status \in Live, psub' = [psub EXCEPT ![c].status = status],
             psub[c].status \in Live, k = "payment.succeeded" => status = "ACTIVE",
             k = "payment.failed" => status = "PAST_DUE",
             Emit(<<Event(k, c, psub'), Event("subscription.updated", c, psub')>>)
      PROVE  Goal
  <2> DEFINE x == [psub[c] EXCEPT !.status = status]
  <2>0. status \in Statuses /\ psub[c] \in TermsType
    BY <1>0, <1>5, <1>a
  <2>1. x \in TermsType /\ x.status = status
    BY <2>0 DEF TermsType
  <2>2. psub' = [psub EXCEPT ![c] = x]
    BY <1>5
  <2> HIDE DEF x
  <2>3. /\ psub' \in [Checkouts -> TermsType] /\ psub'[c].status = status
        /\ \A d \in Checkouts \ {c} : psub'[d] = psub[d]
    BY <1>1, <2>1, <2>2
  <2>4. PICK es \in Seq(EventType) :
            /\ es = <<Event(k, c, psub'), Event("subscription.updated", c, psub')>>
            /\ DOMAIN es = {1, 2} /\ Len(es) = 2
            /\ es[1].kind = k /\ es[2].kind = "subscription.updated"
            /\ \A i \in {1, 2} : es[i].sub = c /\ es[i].status = psub'[c].status
    <3>1. k \in Kinds /\ psub'[c].status \in Statuses
      BY <1>5, <2>0, <2>3, <1>a
    <3>2. psub' \in [Checkouts -> TermsType]
      BY <2>3
    <3> QED
      BY <3>1, <3>2, <1>a, TellingTwo
  <2>5. session[c].at \in {"open", "stored"} /\ Emit(es)
    BY <1>0, <1>5, <2>4, <1>a
  <2> DEFINE Says(e, i) ==
          /\ e.sub = c /\ e.status = psub'[c].status
          /\ e.kind = "checkout.completed" => e.status = "ACTIVE"
          /\ e.kind = "subscription.deleted" => e.status = "CANCELED"
          /\ e.kind = "payment.failed" =>
                 \/ e.status = "INCOMPLETE"
                 \/ e.status = "PAST_DUE" /\ psub[c].status \in Live
          /\ e.kind = "payment.succeeded" =>
                 e.status = "ACTIVE" /\ (i > 1 \/ psub[c].status \in Live)
  <2>a. Says(es[1], 1)
    BY <1>5, <2>3, <2>4
  <2>b. Says(es[2], 2)
    BY <2>4
  <2>c. \A i \in DOMAIN es : Says(es[i], i)
    BY <2>4, <2>a, <2>b
  <2>d. /\ psub[c].status \in Unfinished \cup {"none"} /\ psub[c].status \in Live
        /\ psub'[c].status \in Unfinished \cup {"CANCELED"}
        /\ psub'[c].status # "INCOMPLETE" /\ psub[c].status \in Unfinished
    BY <1>5, <2>3, StatusKinds
  <2>e. es # <<>>
    BY <2>4
  <2>6. Told(c, es)
    BY <2>3, <2>5, <2>c, <2>d, <2>e DEF Told
  <2> QED
    BY <2>6
<1>6. ASSUME NEW c \in Checkouts,
             \/ CheckoutExpires(c) \/ StandingChanges(c) \/ SubscriptionEnds(c)
      PROVE  Goal
  <2>1. PICK k \in Kinds \ {"checkout.completed"}, status \in Unfinished \cup {"CANCELED"} :
            /\ psub' = [psub EXCEPT ![c].status = status] /\ Emit(<<Event(k, c, psub')>>)
            /\ psub[c].status \in Unfinished /\ status # "INCOMPLETE"
            /\ status \in Live => psub[c].status \in Live
            /\ k \notin {"payment.failed", "payment.succeeded"}
            /\ k = "subscription.deleted" => status = "CANCELED"
    <3>1. CASE CheckoutExpires(c)
      BY <3>1, StatusKinds DEF CheckoutExpires
    <3>2. CASE StandingChanges(c)
      <4>1. /\ psub[c].status \in Live /\ Emit(<<Event("subscription.updated", c, psub')>>)
            /\ \E status \in Live : psub' = [psub EXCEPT ![c].status = status]
        BY <3>2 DEF StandingChanges
      <4>2. PICK status \in Live : psub' = [psub EXCEPT ![c].status = status]
        BY <4>1
      <4>3. /\ "subscription.updated" \in Kinds \ {"checkout.completed"}
            /\ status \in Unfinished \cup {"CANCELED"} /\ status # "INCOMPLETE"
            /\ psub[c].status \in Unfinished
        BY <4>1, StatusKinds
      <4> QED
        BY <4>1, <4>2, <4>3
    <3>3. CASE SubscriptionEnds(c)
      BY <3>3, StatusKinds DEF SubscriptionEnds
    <3> QED
      BY <1>6, <3>1, <3>2, <3>3
  <2> DEFINE x == [psub[c] EXCEPT !.status = status]
  <2>0. status \in Statuses /\ psub[c] \in TermsType
    BY <1>0, <1>a
  <2>2. x \in TermsType /\ x.status = status /\ psub' = [psub EXCEPT ![c] = x]
    BY <2>0, <2>1 DEF TermsType
  <2> HIDE DEF x, Goal
  <2> QED
    BY <1>4, <2>1, <2>2
<1>7. ASSUME NEW c \in Checkouts, Provider(c) PROVE Goal
  <2>1. CASE RenewalPaid(c)
    <3>1. /\ psub' = [psub EXCEPT ![c].status = "ACTIVE"] /\ psub[c].status \in Live
          /\ Emit(<<Event("payment.succeeded", c, psub'), Event("subscription.updated", c, psub')>>)
      BY <2>1 DEF RenewalPaid
    <3> HIDE DEF Goal
    <3> QED
      BY <1>5, <3>1, StatusKinds
  <2>2. CASE RenewalFails(c)
    <3>1. /\ psub' = [psub EXCEPT ![c].status = "PAST_DUE"] /\ psub[c].status \in Live
          /\ Emit(<<Event("payment.failed", c, psub'), Event("subscription.updated", c, psub')>>)
      BY <2>2 DEF RenewalFails
    <3> HIDE DEF Goal
    <3> QED
      BY <1>5, <3>1, StatusKinds
  <2> HIDE DEF Goal
  <2> QED
    BY <1>2, <1>3, <1>6, <1>7, <2>1, <2>2 DEF Provider
<1>8. ASSUME NEW c \in Checkouts, NEW x \in TermsType, x.status = psub[c].status,
             psub[c].status \in Live, psub' = [psub EXCEPT ![c] = x],
             IF psub' = psub THEN UNCHANGED sent
             ELSE Emit(<<Event("subscription.updated", c, psub')>>)
      PROVE  Goal
  <2>1. CASE psub' = psub
    BY <1>8, <2>1
  <2>2. CASE psub' # psub
    <3>1. Emit(<<Event("subscription.updated", c, psub')>>)
      BY <1>8, <2>2
    <3>2. /\ x.status \in Live /\ x.status \in Unfinished /\ x.status # "INCOMPLETE"
          /\ psub[c].status \in Unfinished
      BY <1>8, StatusKinds
    <3>3. "subscription.updated" \in Kinds \ {"checkout.completed"}
      BY StatusKinds
    <3> HIDE DEF Goal
    <3> QED
      BY <1>4, <1>8, <3>1, <3>2, <3>3
  <2> QED
    BY <2>1, <2>2
<1>9. ASSUME Cancel PROVE Goal
  <2>1. CASE UNCHANGED <<psub, sent>>
    BY <2>1
  <2>2. CASE ~UNCHANGED <<psub, sent>>
    <3> DEFINE c == cancelling.sub
               x == [psub[c] EXCEPT !.cancels = TRUE]
    <3>1. /\ c # NoCheckout /\ psub[c].status \in Live /\ psub' = [psub EXCEPT ![c].cancels = TRUE]
          /\ IF psub' = psub THEN UNCHANGED sent
             ELSE Emit(<<Event("subscription.updated", c, psub')>>)
      BY <1>9, <2>2 DEF Cancel
    <3>2. c \in Checkouts
      BY <1>9, <3>1 DEF Cancel, ColumnsInv, CancelType, Idle
    <3> HIDE DEF c
    <3>t. psub[c] \in TermsType
      BY <1>0, <3>2
    <3>3. x \in TermsType /\ x.status = psub[c].status /\ psub' = [psub EXCEPT ![c] = x]
      BY <3>t, <3>1 DEF TermsType
    <3> HIDE DEF x, Goal
    <3> QED
      BY <1>8, <3>1, <3>2, <3>3
  <2> QED
    BY <2>1, <2>2
<1>10. ASSUME NEW p \in Syncers, SyncProvider(p) PROVE Goal
  <2>1. CASE UNCHANGED <<psub, sent>>
    BY <2>1
  <2>2. CASE ~UNCHANGED <<psub, sent>>
    <3> DEFINE c == sync[p].row.sub
               n == sync[p].seats
               x == [psub[c] EXCEPT !.seats = n]
    <3>1. /\ c # NoCheckout /\ psub[c].status \in Live /\ psub' = [psub EXCEPT ![c].seats = n]
          /\ IF psub' = psub THEN UNCHANGED sent
             ELSE Emit(<<Event("subscription.updated", c, psub')>>)
      BY <1>10, <2>2 DEF SyncProvider
    <3>2. sync[p].row \in RowType /\ n \in Nat
      BY <1>10, BillingKinds DEF SyncProvider, ColumnsInv, SyncType
    <3>3. c \in Checkouts
      BY <3>1, <3>2, BillingKinds
    <3> HIDE DEF n, c
    <3>t. psub[c] \in TermsType
      BY <1>0, <3>3
    <3>4. x \in TermsType /\ x.status = psub[c].status /\ psub' = [psub EXCEPT ![c] = x]
      BY <3>t, <3>1, <3>2 DEF TermsType
    <3> HIDE DEF x, Goal
    <3> QED
      BY <1>8, <3>1, <3>3, <3>4
  <2> QED
    BY <2>1, <2>2
<1> HIDE DEF Goal
<1>11. Goal
  BY <1>7, <1>9, <1>10 DEF ProviderStep
<1> QED
  BY <1>11 DEF Goal

(* The provider's steps leave the application alone. *)
LEMMA ProviderKeeps ==
  ASSUME ProviderStep
  PROVE  /\ UNCHANGED <<row, applied, tx, session, users, now, recent, counted, reordered>>
         /\ UNCHANGED <<cache, reader, decision>>
BY DEF ProviderStep, Provider, Tries, CheckoutPaid, CheckoutDeclined, CheckoutExpires, RenewalPaid,
       RenewalFails, StandingChanges, SubscriptionEnds, Cancel, SyncProvider,
       billingVars, guardVars, providerVars, seatVars, clockVars

LEMMA ProviderSteps ==
  ASSUME ColumnsInv, ProviderStep
  PROVE  /\ sent' \in Seq(EventType) /\ DOMAIN sent \subseteq DOMAIN sent'
         /\ \A i \in DOMAIN sent : sent'[i] = sent[i]
         /\ psub' \in [Checkouts -> TermsType]
         /\ \A c \in Checkouts : session'[c].at \in {"new", "read"} => psub'[c].status = "none"
<1>1. session' = session
  BY ProviderKeeps
<1>2. CASE UNCHANGED <<psub, sent>>
  BY <1>1, <1>2 DEF ColumnsInv
<1>3. CASE \E c \in Checkouts, es \in Seq(EventType) : Told(c, es)
  <2>1. PICK c \in Checkouts, es \in Seq(EventType) : Told(c, es)
    BY <1>3
  <2>2. /\ sent' \in Seq(EventType) /\ DOMAIN sent \subseteq DOMAIN sent'
        /\ \A i \in DOMAIN sent : sent'[i] = sent[i]
    BY <2>1, EventsGrow DEF Told, ColumnsInv
  <2>3. \A d \in Checkouts : session'[d].at \in {"new", "read"} => psub'[d].status = "none"
    BY <1>1, <2>1 DEF Told, ColumnsInv
  <2> QED
    BY <2>1, <2>2, <2>3 DEF Told
<1> QED
  BY <1>2, <1>3, ProviderTells

LEMMA SyncFacts ==
  ASSUME ColumnsInv, NEW p \in Syncers, sync[p].at # "idle"
  PROVE  /\ sync[p].row \in RowType
         /\ sync[p].at = "loaded" => sync[p] \in [at : {"loaded"}, row : RowType]
         /\ sync[p].at \in {"counted", "told"} =>
                sync[p] \in [at : {"counted", "told"}, row : RowType, seats : Nat]
BY BillingKinds DEF ColumnsInv, SyncType

(* The sync of a process: only its last step touches the row. *)
LEMMA SyncSteps ==
  ASSUME ColumnsInv, NEW p \in Syncers, Sync(p)
  PROVE  sync' \in [Syncers -> SyncType]
<1>1. ASSUME NEW x \in SyncType, sync' = [sync EXCEPT ![p] = x]
      PROVE  sync' \in [Syncers -> SyncType]
  BY <1>1 DEF ColumnsInv
<1>2. Idle \in SyncType
  BY DEF SyncType
<1>3. CASE SyncLoad(p)
  <2>1. [at |-> "loaded", row |-> row] \in SyncType
    BY DEF SyncType, ColumnsInv
  <2> QED
    BY <1>1, <1>3, <2>1 DEF SyncLoad
<1>4. CASE SyncCount(p)
  <2>1. sync[p].row \in RowType /\ users \in Nat
    BY <1>4, SyncFacts DEF SyncCount, ColumnsInv
  <2>2. [at |-> "counted", row |-> sync[p].row, seats |-> users] \in SyncType
    BY <2>1 DEF SyncType
  <2>3. \/ sync' = [sync EXCEPT ![p] = Idle]
        \/ sync' = [sync EXCEPT ![p] = [at |-> "counted", row |-> sync[p].row, seats |-> users]]
    BY <1>4 DEF SyncCount
  <2> QED
    BY <1>1, <1>2, <2>2, <2>3
<1>5. CASE SyncProvider(p)
  <2> DEFINE x == [sync[p] EXCEPT !.at = "told"]
  <2>1. sync[p] \in [at : {"counted", "told"}, row : RowType, seats : Nat]
    BY <1>5, SyncFacts DEF SyncProvider
  <2>2. x \in [at : {"counted", "told"}, row : RowType, seats : Nat]
    BY <2>1
  <2>3. x \in SyncType
    BY <2>2 DEF SyncType
  <2>4. sync' = [sync EXCEPT ![p] = x]
    BY <1>5 DEF SyncProvider
  <2> HIDE DEF x
  <2> QED
    BY <1>1, <2>3, <2>4
<1>6. CASE SyncStore(p) \/ SyncFails(p)
  BY <1>1, <1>2, <1>6 DEF SyncStore, SyncFails
<1> QED
  BY <1>3, <1>4, <1>5, <1>6 DEF Sync

(* The row is rewritten by a commit, or while nobody applies an event and then *)
(* in columns that neither count failures nor decide about writes.             *)
Rewritten(r) ==
    /\ r \in RowType /\ r.failed = row.failed /\ r.status = row.status /\ r.since = row.since

LEMMA RowRewritten ==
  ASSUME ColumnsInv,
         \/ \E c \in Checkouts : CheckoutStored(c)
         \/ \E p \in Processes : CancelStored(p)
         \/ \E p \in Syncers : SyncStore(p)
  PROVE  NobodyApplies /\ Rewritten(row')
<1>1. row \in RowType
  BY DEF ColumnsInv
<1>2. ASSUME NEW c \in Checkouts, CheckoutStored(c) PROVE Rewritten(row')
  <2>1. row' = [row EXCEPT !.plan = PlanOf[c]]
    BY <1>2 DEF CheckoutStored
  <2> QED
    BY <1>1, <2>1 DEF RowType, Rewritten
<1>3. ASSUME NEW p \in Processes, CancelStored(p) PROVE Rewritten(row')
  <2>1. row' = [row EXCEPT !.cancels = TRUE]
    BY <1>3 DEF CancelStored
  <2> QED
    BY <1>1, <2>1 DEF RowType, Rewritten
<1>4. ASSUME NEW p \in Syncers, SyncStore(p) PROVE Rewritten(row')
  <2>1. row' = [row EXCEPT !.seats = sync[p].seats] /\ sync[p].seats \in Nat
    BY <1>4, SyncFacts DEF SyncStore
  <2> QED
    BY <1>1, <2>1 DEF RowType, Rewritten
<1> QED
  BY <1>2, <1>3, <1>4 DEF CheckoutStored, CancelStored, SyncStore

LEMMA BeginType ==
  ASSUME ColumnsInv, NEW p \in Processes, NEW i \in DOMAIN sent, BeginApply(p, i)
  PROVE  \E x \in TxType : /\ tx' = [tx EXCEPT ![p] = x] /\ x.event = i
                           /\ x.row.failed = Failures(row, sent[i])
<1> DEFINE r == IF Matched(row, sent[i]) THEN Applied(row, sent[i]) ELSE row
<1>1. row \in RowType /\ sent[i] \in EventType /\ i \in Nat /\ now \in 0..MaxTime
  BY DEF ColumnsInv
<1>2. r \in RowType
  BY <1>1, AppliedType
<1>3. r.failed = Failures(row, sent[i])
  BY <1>1, AppliedType DEF Failures
<1>4. tx' = [tx EXCEPT ![p] = [event |-> i, row |-> r]]
  BY DEF BeginApply
<1> HIDE DEF r
<1>5. [event |-> i, row |-> r] \in TxType
  BY <1>1, <1>2 DEF TxType
<1> QED
  BY <1>3, <1>4, <1>5

LEMMA ColumnsStep == ColumnsInv /\ [Next]_vars => ColumnsInv'
<1> SUFFICES ASSUME ColumnsInv, [Next]_vars PROVE ColumnsInv'
  OBVIOUS
<1> USE DEF billingVars, guardVars, providerVars, seatVars, clockVars
<1>1. ASSUME ProviderStep PROVE ColumnsInv'
  <2>1. UNCHANGED <<row, applied, tx, now, users, session>>
    BY <1>1, ProviderKeeps
  <2>2. sync' \in [Syncers -> SyncType]
    <3>1. CASE UNCHANGED sync
      BY <3>1 DEF ColumnsInv
    <3>2. ASSUME NEW p \in Syncers, SyncProvider(p) PROVE sync' \in [Syncers -> SyncType]
      BY <3>2, SyncSteps DEF Sync
    <3> QED
      BY <1>1, <3>1, <3>2 DEF ProviderStep, Provider, Tries, CheckoutPaid, CheckoutDeclined,
                CheckoutExpires, RenewalPaid, RenewalFails, StandingChanges, SubscriptionEnds, Cancel
  <2>4. cancelling' \in CancelType
    <3>1. UNCHANGED cancelling \/ cancelling' = [at |-> "told"]
      BY <1>1 DEF ProviderStep, Provider, Tries, CheckoutPaid, CheckoutDeclined,
                CheckoutExpires, RenewalPaid, RenewalFails, StandingChanges, SubscriptionEnds, Cancel,
                SyncProvider
    <3> QED
      BY <3>1 DEF ColumnsInv, CancelType
  <2>3. /\ applied \subseteq DOMAIN sent'
        /\ \A p \in Processes : tx[p] # NoTx => tx[p].event \in DOMAIN sent'
    BY <1>1, ProviderSteps DEF ColumnsInv
  <2> QED
    BY <1>1, <2>1, <2>2, <2>3, <2>4, ProviderSteps DEF ColumnsInv
<1>2. ASSUME NEW p \in Processes, Webhook(p) PROVE ColumnsInv'
  <2>1. UNCHANGED <<now, users, session, psub, sent, sync, cancelling>>
    BY <1>2 DEF Webhook, BeginApply, CommitApply, RollbackApply
  <2>2. ASSUME NEW i \in DOMAIN sent, BeginApply(p, i) PROVE ColumnsInv'
    <3>1. UNCHANGED <<row, applied>>
      BY <2>2 DEF BeginApply
    <3>2. PICK x \in TxType : tx' = [tx EXCEPT ![p] = x] /\ x.event = i
      BY <2>2, BeginType
    <3>3. /\ tx' \in [Processes -> {NoTx} \cup TxType] /\ tx'[p] = x
          /\ \A q \in Processes \ {p} : tx'[q] = tx[q]
      BY <3>2 DEF ColumnsInv
    <3>4. \A q \in Processes : tx'[q] # NoTx => tx'[q].event \in DOMAIN sent
      BY <3>2, <3>3 DEF ColumnsInv
    <3> QED
      BY <2>1, <3>1, <3>3, <3>4 DEF ColumnsInv
  <2>3. CASE CommitApply(p) \/ RollbackApply(p)
    <3>1. tx[p] \in TxType /\ tx[p].row \in RowType
      BY <2>3, BillingKinds DEF CommitApply, RollbackApply, ColumnsInv
    <3>2. /\ tx' \in [Processes -> {NoTx} \cup TxType] /\ row' \in RowType
          /\ applied' \in {applied, applied \cup {tx[p].event}}
          /\ tx' = [tx EXCEPT ![p] = NoTx] /\ tx[p] # NoTx
      BY <2>3, <3>1 DEF CommitApply, RollbackApply, ColumnsInv
    <3>3. \A q \in Processes : tx'[q] # NoTx => tx'[q].event \in DOMAIN sent
      BY <3>2 DEF ColumnsInv
    <3>4. applied' \subseteq DOMAIN sent
      BY <3>2 DEF ColumnsInv
    <3> QED
      BY <2>1, <3>2, <3>3, <3>4 DEF ColumnsInv
  <2> QED
    BY <1>2, <2>2, <2>3 DEF Webhook
<1>3. ASSUME \/ \E c \in Checkouts : CheckoutStored(c)
             \/ \E p \in Processes : CancelStored(p)
             \/ \E p \in Syncers : SyncStore(p)
      PROVE  ColumnsInv'
  <2>1. UNCHANGED <<applied, tx, psub, sent, now, users>> /\ row' \in RowType
    BY <1>3, RowRewritten DEF CheckoutStored, CancelStored, SyncStore, Rewritten
  <2>2. sync' \in [Syncers -> SyncType]
    BY <1>3, SyncSteps DEF CheckoutStored, CancelStored, Sync, ColumnsInv
  <2>3. /\ session' \in [Checkouts -> SessionType]
        /\ \A c \in Checkouts : session'[c].at \in {"new", "read"} => session[c].at \in {"new", "read"}
    <3>1. CASE UNCHANGED session
      BY <3>1 DEF ColumnsInv
    <3>2. ASSUME NEW c \in Checkouts, CheckoutStored(c)
          PROVE  /\ session' \in [Checkouts -> SessionType]
                 /\ \A d \in Checkouts :
                        session'[d].at \in {"new", "read"} => session[d].at \in {"new", "read"}
      BY <3>2 DEF CheckoutStored, ColumnsInv, SessionType
    <3> QED
      BY <1>3, <3>1, <3>2 DEF CancelStored, SyncStore
  <2>4. cancelling' \in CancelType
    BY <1>3 DEF CheckoutStored, CancelStored, SyncStore, ColumnsInv, CancelType
  <2> QED
    BY <2>1, <2>2, <2>3, <2>4 DEF ColumnsInv
<1>4. ASSUME NEW c \in Checkouts, CheckoutReads(c) \/ CheckoutOpens(c) PROVE ColumnsInv'
  <2>1. /\ UNCHANGED <<row, applied, tx, psub, sent, now, users, sync, cancelling>>
        /\ users \in Nat /\ row.customer \in Checkouts \cup {NoCheckout}
    BY <1>4, BillingKinds DEF CheckoutReads, CheckoutOpens, ColumnsInv
  <2>2. PICK x \in SessionType : session' = [session EXCEPT ![c] = x] /\ session[c].at \in {"new", "read"}
    <3>1. CASE CheckoutReads(c)
      <4> DEFINE x == [session[c] EXCEPT !.at = "read", !.customer = row.customer]
      <4>1. x \in SessionType
        BY <2>1 DEF ColumnsInv, SessionType
      <4>2. session' = [session EXCEPT ![c] = x]
        BY <3>1 DEF CheckoutReads
      <4> HIDE DEF x
      <4> QED
        BY <3>1, <4>1, <4>2 DEF CheckoutReads
    <3>2. CASE CheckoutOpens(c)
      <4> DEFINE x == [session[c] EXCEPT !.at = "open", !.seats = users]
      <4>1. x \in SessionType
        BY <2>1 DEF ColumnsInv, SessionType
      <4>2. session' = [session EXCEPT ![c] = x]
        BY <3>2 DEF CheckoutOpens
      <4> HIDE DEF x
      <4> QED
        BY <3>2, <4>1, <4>2 DEF CheckoutOpens
    <3> QED
      BY <1>4, <3>1, <3>2
  <2>3. /\ session' \in [Checkouts -> SessionType]
        /\ \A d \in Checkouts : session'[d].at \in {"new", "read"} => session[d].at \in {"new", "read"}
    BY <2>2 DEF ColumnsInv
  <2> QED
    BY <2>1, <2>3 DEF ColumnsInv
<1>5. ASSUME NEW p \in Guards, Guard(p) PROVE ColumnsInv'
  BY <1>5 DEF Guard, UseCached, ReadRow, StoreVerdict, ColumnsInv
<1>6. ASSUME NEW p \in Syncers, SyncLoad(p) \/ SyncCount(p) \/ SyncFails(p) PROVE ColumnsInv'
  <2>1. UNCHANGED <<row, applied, tx, session, psub, sent, now, users, cancelling>>
    BY <1>6 DEF SyncLoad, SyncCount, SyncFails
  <2> QED
    BY <1>6, <2>1, SyncSteps DEF Sync, ColumnsInv
<1>7. CASE CancelReads \/ CancelDies
  <2>1. cancelling' \in CancelType
    BY <1>7, BillingKinds DEF CancelReads, CancelDies, ColumnsInv, CancelType
  <2> QED
    BY <1>7, <2>1 DEF CancelReads, CancelDies, ColumnsInv
<1>8. CASE UsersChange \/ Tick \/ UNCHANGED vars
  BY <1>8 DEF UsersChange, Tick, vars, ColumnsInv
<1> QED
  BY <1>1, <1>2, <1>3, <1>4, <1>5, <1>6, <1>7, <1>8 DEF Next, ProviderStep, Sync, Checkout

LEMMA ColumnsInit == Init => ColumnsInv
<1> SUFFICES ASSUME Init PROVE ColumnsInv
  OBVIOUS
<1>1. row \in RowType
  BY DEF Init, RowType, Statuses, NoDate
<1>2. sync \in [Syncers -> SyncType]
  BY DEF Init, SyncType
<1>3. sent = <<>> /\ now = 0 /\ users = 1 /\ applied = {}
  BY DEF Init
<1>4. session \in [Checkouts -> SessionType] /\ cancelling \in CancelType
      /\ psub \in [Checkouts -> TermsType]
  BY DEF Init, SessionType, CancelType, TermsType
<1> QED
  BY <1>1, <1>2, <1>3, <1>4 DEF Init, ColumnsInv

LEMMA ColumnsAlways == Spec => []ColumnsInv
BY ColumnsInit, ColumnsStep, PTL DEF Spec

--------------------------------------------------------------------------------
(* Failed payments *)

(* What a commit leaves counted. *)
LEMMA CountedCommitted ==
  ASSUME ColumnsInv, ApplyInv, NEW p \in Processes, CommitApply(p)
  PROVE  /\ IsFiniteSet(counted') /\ counted' \subseteq applied'
         /\ FailuresCounted'
<1> DEFINE i == tx[p].event
           e == sent[i]
<1>1. /\ i \notin applied /\ row'.failed = Failures(row, e)
      /\ applied' = applied \cup {i} /\ counted' = CountedAfter(i)
  BY DEF CommitApply, ApplyInv
<1>2. IsFiniteSet(counted) /\ counted \subseteq applied /\ row.failed = Cardinality(counted)
  BY DEF ApplyInv, FailuresCounted
<1>3. CASE Matched(row, e) /\ e.kind = "payment.failed"
  <2>1. counted' = counted \cup {i} /\ row'.failed = row.failed + 1
    BY <1>1, <1>3 DEF CountedAfter, Failures
  <2> HIDE DEF i, e
  <2>2. IsFiniteSet(counted') /\ Cardinality(counted') = Cardinality(counted) + 1
    BY <1>1, <1>2, <2>1, FS_AddElement
  <2> QED
    BY <1>1, <1>2, <2>1, <2>2 DEF FailuresCounted
<1>4. CASE Matched(row, e) /\ e.kind \in {"payment.succeeded", "checkout.completed"}
  <2>1. counted' = {} /\ row'.failed = 0
    BY <1>1, <1>4 DEF CountedAfter, Failures
  <2> QED
    BY <2>1, FS_EmptySet DEF FailuresCounted
<1>5. CASE ~Matched(row, e) \/ e.kind \notin {"payment.failed", "payment.succeeded", "checkout.completed"}
  <2>1. counted' = counted /\ row'.failed = row.failed
    BY <1>1, <1>5 DEF CountedAfter, Failures
  <2> HIDE DEF i, e
  <2> QED
    BY <1>1, <1>2, <2>1 DEF FailuresCounted
<1> QED
  BY <1>3, <1>4, <1>5

LEMMA ApplyStep == ColumnsInv /\ ApplyInv /\ [Next]_vars => ApplyInv'
<1> SUFFICES ASSUME ColumnsInv, ApplyInv, [Next]_vars PROVE ApplyInv'
  OBVIOUS
<1> USE DEF billingVars, guardVars, providerVars, seatVars, clockVars
<1>1. ASSUME UNCHANGED <<row, applied, tx, counted>>,
             \A i \in DOMAIN sent : sent'[i] = sent[i]
      PROVE  ApplyInv'
  <2>1. \A q \in Processes : tx[q] # NoTx => sent'[tx[q].event] = sent[tx[q].event]
    BY <1>1 DEF ColumnsInv
  <2> QED
    BY <1>1, <2>1 DEF ApplyInv, FailuresCounted, Failures, Matched
<1>2. ASSUME ProviderStep PROVE ApplyInv'
  <2>1. UNCHANGED <<row, applied, tx, counted>>
    BY <1>2, ProviderKeeps
  <2> QED
    BY <1>1, <1>2, <2>1, ProviderSteps
<1>3. ASSUME \/ \E c \in Checkouts : CheckoutStored(c)
             \/ \E p \in Processes : CancelStored(p)
             \/ \E p \in Syncers : SyncStore(p)
      PROVE  ApplyInv'
  <2>1. NobodyApplies /\ row'.failed = row.failed
    BY <1>3, RowRewritten DEF Rewritten
  <2>2. UNCHANGED <<applied, tx, counted>>
    BY <1>3 DEF CheckoutStored, CancelStored, SyncStore
  <2> QED
    BY <2>1, <2>2 DEF ApplyInv, FailuresCounted, NobodyApplies
<1>4. ASSUME NEW p \in Processes, NEW i \in DOMAIN sent, BeginApply(p, i) PROVE ApplyInv'
  <2>1. NobodyApplies /\ i \notin applied /\ UNCHANGED <<row, applied, counted, sent>>
    BY <1>4 DEF BeginApply
  <2>2. PICK x \in TxType : /\ tx' = [tx EXCEPT ![p] = x] /\ x.event = i
                            /\ x.row.failed = Failures(row, sent[i])
    BY <1>4, BeginType
  <2>3. tx'[p] = x /\ \A q \in Processes \ {p} : tx'[q] = NoTx
    BY <2>1, <2>2 DEF ColumnsInv, NobodyApplies
  <2>4. \A q \in Processes : tx'[q] # NoTx =>
            /\ q = p /\ tx'[q].event \notin applied'
            /\ tx'[q].row.failed = Failures(row', sent'[tx'[q].event])
    BY <2>1, <2>2, <2>3 DEF Failures, Matched
  <2> QED
    BY <2>1, <2>4 DEF ApplyInv, FailuresCounted, Failures, Matched
<1>5. ASSUME NEW p \in Processes, CommitApply(p) PROVE ApplyInv'
  <2>1. \A q \in Processes : tx'[q] = NoTx
    BY <1>5 DEF CommitApply, ColumnsInv, ApplyInv
  <2> QED
    BY <1>5, <2>1, CountedCommitted DEF ApplyInv
<1>6. ASSUME NEW p \in Processes, RollbackApply(p) PROVE ApplyInv'
  <2>1. \A q \in Processes : tx'[q] = NoTx
    BY <1>6 DEF RollbackApply, ColumnsInv, ApplyInv
  <2> QED
    BY <1>6, <2>1 DEF RollbackApply, ApplyInv, FailuresCounted
<1>7. CASE \/ \E c \in Checkouts : CheckoutReads(c) \/ CheckoutOpens(c)
           \/ \E p \in Guards : Guard(p)
           \/ \E p \in Syncers : SyncLoad(p) \/ SyncCount(p) \/ SyncFails(p)
           \/ CancelReads \/ CancelDies \/ UsersChange \/ Tick \/ UNCHANGED vars
  <2>1. UNCHANGED <<row, applied, tx, counted, sent>>
    BY <1>7 DEF CheckoutReads, CheckoutOpens, Guard, UseCached, ReadRow, StoreVerdict, SyncLoad,
                SyncCount, SyncFails, CancelReads, CancelDies, UsersChange, Tick, vars
  <2> QED
    BY <1>1, <2>1
<1> QED
  BY <1>2, <1>3, <1>4, <1>5, <1>6, <1>7 DEF Next, ProviderStep, Sync, Webhook, Checkout

LEMMA ApplyInit == Init => ApplyInv
BY FS_EmptySet DEF Init, ApplyInv, FailuresCounted

(* However the webhooks race, are repeated, reordered, rolled back, and        *)
(* whatever else changes the row meanwhile, the count of failed payments is    *)
(* that of the failures recorded since a payment last succeeded.               *)
THEOREM FailuresAreCounted == Spec => []FailuresCounted
<1>1. ApplyInv => FailuresCounted
  BY DEF ApplyInv
<1> QED
  BY <1>1, ColumnsAlways, ApplyInit, ApplyStep, PTL DEF Spec

--------------------------------------------------------------------------------
(* The guard *)

(* A verdict that has been read is one of this tick, a cached one of the tick  *)
(* in which it was stored.                                                     *)
GuardInv ==
    /\ recent = [this |-> recent.this, last |-> recent.last]
    /\ Verdict(row, now) \in recent.this
    /\ reader \in [Processes -> {"idle", "restricted", "free"}]
    /\ cache \in [Processes -> [verdict : {"none", "restricted", "free"}, until : Nat]]
    /\ \A p \in Processes : reader[p] # "idle" => reader[p] \in recent.this
    /\ \A p \in Processes : cache[p] # NoEntry =>
           /\ cache[p].until <= now + 1
           /\ cache[p].until = now + 1 => cache[p].verdict \in recent.this
           /\ cache[p].until = now => cache[p].verdict \in recent.this \cup recent.last
    /\ VerdictIsRecent

LEMMA VerdictKinds ==
  /\ \A r, t : Verdict(r, t) \in {"restricted", "free"}
  /\ NoEntry \in [verdict : {"none", "restricted", "free"}, until : Nat]
BY DEF Verdict, NoEntry

(* Clearing an entry is harmless. *)
LEMMA CacheCleared ==
  ASSUME GuardInv, NEW p \in Processes,
         cache' = cache \/ cache' = [cache EXCEPT ![p] = NoEntry],
         UNCHANGED <<reader, decision, now>>,
         recent' = [this |-> recent'.this, last |-> recent.last],
         recent.this \subseteq recent'.this, Verdict(row', now) \in recent'.this
  PROVE  GuardInv'
<1>1. cache' \in [Processes -> [verdict : {"none", "restricted", "free"}, until : Nat]]
  BY VerdictKinds DEF GuardInv
<1>2. \A q \in Processes : cache'[q] = cache[q] \/ cache'[q] = NoEntry
  BY DEF GuardInv
<1>3. recent'.last = recent.last
  OBVIOUS
<1> QED
  BY <1>1, <1>2, <1>3 DEF GuardInv, VerdictIsRecent

LEMMA GuardStep == ColumnsInv /\ GuardInv /\ [Next]_vars => GuardInv'
<1> SUFFICES ASSUME ColumnsInv, GuardInv, [Next]_vars PROVE GuardInv'
  OBVIOUS
<1> USE DEF billingVars, guardVars, providerVars, seatVars, clockVars
<1>0. now \in Nat
  BY DEF ColumnsInv
<1>1. CASE \/ ProviderStep
           \/ \E c \in Checkouts : CheckoutReads(c) \/ CheckoutOpens(c)
           \/ \E p \in Syncers : SyncLoad(p) \/ SyncCount(p) \/ SyncFails(p)
           \/ \E p \in Processes : RollbackApply(p)
           \/ CancelReads \/ CancelDies \/ UsersChange \/ UNCHANGED vars
  <2>1. UNCHANGED <<row, now, recent, reader, cache, decision>>
    BY <1>1, ProviderKeeps DEF CheckoutReads, CheckoutOpens, SyncLoad, SyncCount, SyncFails,
                RollbackApply, CancelReads, CancelDies, UsersChange, vars
  <2> QED
    BY <2>1 DEF GuardInv, VerdictIsRecent
<1>2. ASSUME \/ \E c \in Checkouts : CheckoutStored(c)
             \/ \E p \in Processes : CancelStored(p)
             \/ \E p \in Syncers : SyncStore(p)
      PROVE  GuardInv'
  <2>1. Verdict(row', now) = Verdict(row, now)
    BY <1>2, RowRewritten DEF Rewritten, Verdict
  <2>2. UNCHANGED <<reader, decision, now, recent>>
    BY <1>2 DEF CheckoutStored, CancelStored, SyncStore
  <2>3. /\ Verdict(row', now) \in recent'.this /\ recent.this \subseteq recent'.this
        /\ recent' = [this |-> recent'.this, last |-> recent.last]
    BY <2>1, <2>2 DEF GuardInv
  <2>4. CASE UNCHANGED cache
    <3>1. UNCHANGED <<recent, reader, cache, decision, now>> /\ Verdict(row', now') \in recent.this
      BY <2>2, <2>3, <2>4
    <3> QED
      BY <3>1 DEF GuardInv, VerdictIsRecent
  <2>5. ASSUME NEW p \in Processes, CancelStored(p) PROVE GuardInv'
    <3>1. cache' = [cache EXCEPT ![p] = NoEntry]
      BY <2>5 DEF CancelStored
    <3> QED
      BY <2>2, <2>3, <3>1, CacheCleared
  <2> QED
    BY <1>2, <2>4, <2>5 DEF CheckoutStored, SyncStore
<1>3. ASSUME NEW p \in Processes, NEW i \in DOMAIN sent, BeginApply(p, i) PROVE GuardInv'
  <2>1. UNCHANGED <<row, reader, decision, now, recent>>
    BY <1>3 DEF BeginApply
  <2>2. cache' = cache \/ cache' = [cache EXCEPT ![p] = NoEntry]
    BY <1>3 DEF BeginApply
  <2>3. /\ Verdict(row', now) \in recent'.this /\ recent.this \subseteq recent'.this
        /\ recent' = [this |-> recent'.this, last |-> recent.last]
    BY <2>1 DEF GuardInv
  <2> QED
    BY <2>1, <2>2, <2>3, CacheCleared
<1>4. ASSUME NEW p \in Processes, CommitApply(p) PROVE GuardInv'
  <2>1. UNCHANGED <<reader, decision, now, cache>> /\ row' = tx[p].row
    BY <1>4 DEF CommitApply
  <2>2. recent' = [recent EXCEPT !.this = @ \cup {Verdict(row', now)}]
    BY <1>4, <2>1 DEF CommitApply
  <2>3. recent' = [this |-> recent.this \cup {Verdict(row', now)}, last |-> recent.last]
    BY <2>2 DEF GuardInv
  <2>4. recent' = [this |-> recent'.this, last |-> recent.last]
    BY <2>3
  <2> QED
    BY <2>1, <2>3, <2>4, CacheCleared
<1>5. ASSUME NEW p \in Guards, Guard(p) PROVE GuardInv'
  <2>0. p \in Processes /\ UNCHANGED <<row, now, recent>>
    BY <1>5 DEF Guard, UseCached, ReadRow, StoreVerdict
  <2>1. CASE UseCached(p)
    <3>1. /\ cache[p] # NoEntry /\ now <= cache[p].until /\ cache[p].until \in Nat
          /\ decision' = cache[p].verdict /\ UNCHANGED <<cache, reader>>
      BY <2>0, <2>1 DEF UseCached, GuardInv
    <3>2. cache[p].until \in {now, now + 1}
      BY <1>0, <2>0, <3>1 DEF GuardInv
    <3>3. decision' \in recent.this \cup recent.last
      BY <2>0, <3>1, <3>2 DEF GuardInv
    <3> QED
      BY <2>0, <3>1, <3>3 DEF GuardInv, VerdictIsRecent
  <2>2. CASE ReadRow(p)
    <3>1. reader' = [reader EXCEPT ![p] = Verdict(row, now)] /\ UNCHANGED <<cache, decision>>
      BY <2>2 DEF ReadRow
    <3>2. /\ reader' \in [Processes -> {"idle", "restricted", "free"}]
          /\ \A q \in Processes : reader'[q] # "idle" => reader'[q] \in recent.this
      BY <2>0, <3>1, VerdictKinds DEF GuardInv
    <3> QED
      BY <2>0, <3>1, <3>2 DEF GuardInv, VerdictIsRecent
  <2>3. CASE StoreVerdict(p)
    <3> DEFINE x == [verdict |-> reader[p], until |-> now + 1]
    <3>1. reader[p] \in {"restricted", "free"} /\ reader[p] \in recent.this
      BY <2>0, <2>3 DEF StoreVerdict, GuardInv
    <3>2. /\ cache' = [cache EXCEPT ![p] = x] /\ decision' = reader[p]
          /\ reader' = [reader EXCEPT ![p] = "idle"]
      BY <2>3 DEF StoreVerdict
    <3>3. /\ x \in [verdict : {"none", "restricted", "free"}, until : Nat]
          /\ x.until = now + 1 /\ x.verdict \in recent.this
      BY <1>0, <3>1
    <3> HIDE DEF x
    <3>4. /\ cache' \in [Processes -> [verdict : {"none", "restricted", "free"}, until : Nat]]
          /\ cache'[p] = x /\ \A q \in Processes \ {p} : cache'[q] = cache[q]
      BY <2>0, <3>2, <3>3 DEF GuardInv
    <3>5. \A q \in Processes : cache'[q] # NoEntry =>
              /\ cache'[q].until <= now + 1
              /\ cache'[q].until = now + 1 => cache'[q].verdict \in recent.this
              /\ cache'[q].until = now => cache'[q].verdict \in recent.this \cup recent.last
      BY <1>0, <3>3, <3>4 DEF GuardInv
    <3>6. /\ reader' \in [Processes -> {"idle", "restricted", "free"}]
          /\ \A q \in Processes : reader'[q] # "idle" => reader'[q] \in recent.this
      BY <3>2 DEF GuardInv
    <3> QED
      BY <2>0, <3>1, <3>2, <3>4, <3>5, <3>6 DEF GuardInv, VerdictIsRecent
  <2> QED
    BY <1>5, <2>1, <2>2, <2>3 DEF Guard
<1>6. CASE Tick
  <2>1. /\ recent' = [this |-> {Verdict(row, now + 1)}, last |-> recent.this]
        /\ UNCHANGED <<row, cache, reader>> /\ now' = now + 1 /\ decision' = "none"
        /\ \A p \in Processes : reader[p] = "idle"
    BY <1>6 DEF Tick
  <2>2. recent'.this = {Verdict(row', now')} /\ recent'.last = recent.this
    BY <2>1
  <2>3. \A p \in Processes : cache[p] # NoEntry =>
            /\ cache[p].until <= now' + 1 /\ cache[p].until # now' + 1
            /\ cache[p].until = now' => cache[p].verdict \in recent'.last
    BY <1>0, <2>1, <2>2 DEF GuardInv
  <2>4. recent' = [this |-> recent'.this, last |-> recent'.last]
    BY <2>1
  <2> QED
    BY <2>1, <2>2, <2>3, <2>4 DEF GuardInv, VerdictIsRecent
<1> QED
  BY <1>1, <1>2, <1>3, <1>4, <1>5, <1>6 DEF Next, ProviderStep, Sync, Webhook, Checkout

LEMMA GuardInit == Init => GuardInv
<1> SUFFICES ASSUME Init PROVE GuardInv
  OBVIOUS
<1>1. /\ recent = [this |-> {Verdict(row, 0)}, last |-> {}] /\ now = 0 /\ decision = "none"
      /\ reader = [p \in Processes |-> "idle"] /\ cache = [p \in Processes |-> NoEntry]
  BY DEF Init
<1> QED
  BY <1>1, VerdictKinds DEF GuardInv, VerdictIsRecent

LEMMA GuardAlways == Spec => []GuardInv
BY ColumnsAlways, GuardInit, GuardStep, PTL DEF Spec

(* However many processes cache the verdict, clear it before their commit or   *)
(* store what they had read before another's, a write is let through or        *)
(* refused by what the subscription was in this tick or the last.              *)
THEOREM VerdictStaysRecent == Spec => []VerdictIsRecent
<1>1. GuardInv => VerdictIsRecent
  BY DEF GuardInv
<1> QED
  BY <1>1, GuardAlways, PTL

(* Rows, transactions, cached verdicts and the provider's state keep their     *)
(* types, whatever is delivered when.                                          *)
THEOREM SubscriptionTypeCorrect == Spec => []TypeOK
<1>1. ColumnsInv /\ GuardInv => TypeOK
  <2> SUFFICES ASSUME ColumnsInv, GuardInv PROVE TypeOK
    OBVIOUS
  <2>1. \A p \in Processes : cache[p].until <= MaxTime + 1
    <3>1. now \in Nat /\ now <= MaxTime /\ NoEntry.until = 0
      BY DEF ColumnsInv, NoEntry
    <3>2. \A p \in Processes : cache[p] # NoEntry => cache[p].until <= now + 1 /\ cache[p].until \in Nat
      BY DEF GuardInv
    <3> QED
      BY <3>1, <3>2
  <2>2. cache \in [Processes -> [verdict : {"none", "restricted", "free"}, until : 0..(MaxTime + 1)]]
    BY <2>1 DEF GuardInv
  <2>3. \A p \in Processes : tx[p] # NoTx => tx[p].event \in DOMAIN sent /\ tx[p].row \in RowType
    BY BillingKinds DEF ColumnsInv
  <2> QED
    BY <2>2, <2>3 DEF TypeOK, ColumnsInv, GuardInv
<1> QED
  BY <1>1, ColumnsAlways, GuardAlways, PTL

--------------------------------------------------------------------------------
(* Events in order *)

(* A subscription was bought, as far as the first k events tell.               *)
Bought(c, k) ==
    \E j \in DOMAIN sent : j <= k /\ sent[j].kind = "checkout.completed" /\ sent[j].sub = c

(* An event goes on about the subscription of the one before, or tells of one  *)
(* that nobody had bought; payments are told of one that was bought, but for   *)
(* the first.                                                                  *)
Sound(i) ==
    /\ i > 1 => sent[i - 1].sub = sent[i].sub \/ ~Bought(sent[i].sub, i - 1)
    /\ sent[i].status = "INCOMPLETE" => ~Bought(sent[i].sub, i)
    /\ sent[i].kind = "checkout.completed" => sent[i].status = "ACTIVE"
    /\ sent[i].kind = "subscription.deleted" => sent[i].status = "CANCELED"
    /\ sent[i].kind = "payment.failed" =>
           \/ sent[i].status = "INCOMPLETE"
           \/ sent[i].status = "PAST_DUE" /\ Bought(sent[i].sub, i)
    /\ sent[i].kind = "payment.succeeded" =>
           /\ i > 1 /\ sent[i].status = "ACTIVE" /\ sent[i - 1].sub = sent[i].sub
           /\ \/ sent[i - 1].status = "ACTIVE"
              \/ sent[i - 1].status = "PAST_DUE" /\ Bought(sent[i].sub, i)

(* What the provider sends tells its state: one subscription at a time is      *)
(* unfinished, the one the last event is about.                                *)
SentInv ==
    /\ sent # <<>> => psub[sent[Len(sent)].sub].status = sent[Len(sent)].status
    /\ \A c \in Checkouts :
           /\ psub[c].status \in Unfinished => sent # <<>> /\ c = sent[Len(sent)].sub
           /\ psub[c].status \in Live => Bought(c, Len(sent))
           /\ psub[c].status \in {"none", "INCOMPLETE"} => ~Bought(c, Len(sent))
    /\ \A i \in DOMAIN sent : Sound(i)

(* What a row tells once the first k events were applied to it in order.       *)
Tells(r, k) ==
    /\ r.sub # NoCheckout => Bought(r.sub, k)
    /\ k > 0 => /\ sent[k].status # "INCOMPLETE" => r.status = sent[k].status
                /\ Bought(sent[k].sub, k) => r.sub = sent[k].sub

FirstApplied(k) ==
    /\ applied = 1..k /\ Tells(row, k)
    /\ \A p \in Processes : tx[p] # NoTx /\ tx[p].event = k + 1 => Tells(tx[p].row, k + 1)

OrderInv == /\ reordered \in BOOLEAN /\ overlapped \in BOOLEAN
            /\ ~overlapped => SentInv
            /\ ~overlapped /\ ~reordered => \E k \in 0..Len(sent) : FirstApplied(k)

(* The provider's steps *)

(* More events about a subscription, none other of which is unfinished, leave  *)
(* what was said true.                                                         *)
LEMMA MoreEvents ==
  ASSUME ColumnsInv, SentInv, NEW c \in Checkouts, NEW es \in Seq(EventType), Told(c, es),
         sent' \in Seq(EventType), ~overlapped'
  PROVE  SentInv'
<1>1. PICK n \in Nat : sent \in Seq(EventType) /\ n = Len(sent) /\ DOMAIN sent = 1..n
  BY DEF ColumnsInv
<1>2. PICK m \in Nat : m = Len(es) /\ DOMAIN es = 1..m /\ m > 0
  BY DEF Told
<1>3. /\ Len(sent') = n + m /\ DOMAIN sent' = 1..(n + m) /\ sent' # <<>>
      /\ \A i \in 1..n : sent'[i] = sent[i]
      /\ \A j \in 1..m : sent'[n + j] = es[j]
  BY <1>1, <1>2 DEF Emit, Told
<1>4. \A d \in Checkouts \ {c} : psub'[d] = psub[d] /\ psub[d].status \notin Unfinished
  <2>1. CASE psub[c].status \in Unfinished
    BY <2>1 DEF SentInv, Told
  <2>2. CASE psub[c].status \notin Unfinished
    BY <2>2 DEF Told
  <2> QED
    BY <2>1, <2>2
<1>5. psub[c].status \in Unfinished => n > 0 /\ sent[n].sub = c /\ sent[n].status = psub[c].status
  BY <1>1 DEF SentInv
<1>6. ASSUME NEW d, NEW k \in Nat, k <= n PROVE Bought(d, k)' <=> Bought(d, k)
  <2>1. \A j \in DOMAIN sent' : j <= k => j \in DOMAIN sent /\ sent'[j] = sent[j]
    BY <1>1, <1>3, <1>6
  <2>2. \A j \in DOMAIN sent : j \in DOMAIN sent' /\ sent'[j] = sent[j]
    BY <1>1, <1>2, <1>3
  <2> QED
    BY <2>1, <2>2 DEF Bought
<1>7. \A j \in 1..m : es[j].sub = c /\ es[j].status = psub'[c].status
  BY <1>2 DEF Told
<1>8. ASSUME NEW d, NEW k \in Nat, n <= k, k <= n + m,
             \A j \in 1..m : n + j <= k => ~(es[j].kind = "checkout.completed" /\ es[j].sub = d)
      PROVE  Bought(d, k)' <=> Bought(d, n)
  <2>1. ASSUME NEW i \in DOMAIN sent', i <= k, i > n,
               sent'[i].kind = "checkout.completed", sent'[i].sub = d
        PROVE  FALSE
    <3>1. i - n \in 1..m /\ n + (i - n) = i
      BY <1>1, <1>3, <2>1
    <3>2. sent'[i] = es[i - n]
      BY <1>3, <3>1
    <3> QED
      BY <1>8, <2>1, <3>1, <3>2
  <2>2. Bought(d, k)' => Bought(d, n)'
    BY <1>1, <1>3, <2>1 DEF Bought
  <2>3. Bought(d, n)' => Bought(d, k)'
    BY <1>1, <1>3, <1>8 DEF Bought
  <2> QED
    BY <1>1, <1>6, <2>2, <2>3
<1>9. psub'[c].status # "ACTIVE" => \A j \in 1..m : es[j].kind # "checkout.completed"
  BY <1>2, <1>7 DEF Told
<1>10. \A d \in Checkouts \ {c} : Bought(d, n + m)' <=> Bought(d, n)
  BY <1>1, <1>2, <1>7, <1>8
<1>11. ASSUME NEW k \in Nat, n <= k, k <= n + m, psub[c].status \in Live PROVE Bought(c, k)'
  <2>1. Bought(c, n)
    BY <1>1, <1>11 DEF SentInv
  <2>2. Bought(c, n)'
    BY <1>1, <1>6, <2>1
  <2> QED
    BY <1>1, <1>3, <1>11, <2>2 DEF Bought
<1>12. ASSUME NEW k \in Nat, n <= k, k <= n + m, psub'[c].status = "INCOMPLETE" PROVE ~Bought(c, k)'
  <2>1. psub[c].status \in {"none", "INCOMPLETE"}
    BY <1>12, StatusKinds DEF Told
  <2>2. ~Bought(c, n)
    BY <1>1, <2>1 DEF SentInv
  <2> QED
    BY <1>8, <1>9, <1>12, <2>2
<1>13. ASSUME NEW i \in 1..n PROVE Sound(i)'
  <2>1. sent'[i] = sent[i] /\ i \in Nat /\ i <= n /\ Sound(i)
    BY <1>1, <1>3 DEF SentInv
  <2>2. \A d : Bought(d, i)' <=> Bought(d, i)
    BY <1>6, <2>1
  <2>3. CASE i = 1
    BY <2>1, <2>2, <2>3 DEF Sound
  <2>4. CASE i > 1
    <3>1. i - 1 \in 1..n /\ i - 1 \in Nat /\ i - 1 <= n
      BY <1>1, <2>4
    <3>2. sent'[i - 1] = sent[i - 1]
      BY <1>3, <3>1
    <3>3. \A d : Bought(d, i - 1)' <=> Bought(d, i - 1)
      BY <1>6, <3>1
    <3> QED
      BY <2>1, <2>2, <2>4, <3>2, <3>3 DEF Sound
  <2> QED
    BY <1>1, <2>3, <2>4
<1>14. ASSUME NEW j \in 1..m PROVE Sound(n + j)'
  <2>1. PICK i \in Nat : i = n + j /\ n <= i /\ i <= n + m /\ i >= 1
    BY <1>1, <1>2
  <2>2. sent'[i] = es[j] /\ es[j].sub = c /\ es[j].status = psub'[c].status
    BY <1>3, <1>7, <2>1
  <2>3. CASE j = 1 /\ n > 0
    <3>1. i - 1 = n /\ i > 1 /\ n \in 1..n
      BY <1>1, <2>1, <2>3
    <3>2. sent'[i - 1] = sent[n]
      BY <1>3, <3>1
    <3>3. sent[n].sub = c \/ ~Bought(c, i - 1)'
      <4>1. CASE psub[c].status \in Unfinished
        BY <1>5, <4>1
      <4>2. CASE psub[c].status = "none"
        <5>1. ~Bought(c, n)
          BY <1>1, <4>2 DEF SentInv
        <5> QED
          BY <1>1, <1>6, <3>1, <5>1
      <4> QED
        BY <4>1, <4>2 DEF Told
    <3>4. psub[c].status \in Live => /\ sent[n].sub = c /\ Bought(c, i)'
                                     /\ sent[n].status = "ACTIVE" \/ sent[n].status = "PAST_DUE"
      BY <1>5, <1>11, <2>1, StatusKinds
    <3>5. psub'[c].status = "INCOMPLETE" => ~Bought(c, i)'
      BY <1>12, <2>1
    <3>6. /\ es[j].kind = "checkout.completed" => es[j].status = "ACTIVE"
          /\ es[j].kind = "subscription.deleted" => es[j].status = "CANCELED"
          /\ es[j].kind = "payment.failed" =>
                \/ es[j].status = "INCOMPLETE"
                \/ es[j].status = "PAST_DUE" /\ psub[c].status \in Live
          /\ es[j].kind = "payment.succeeded" => es[j].status = "ACTIVE" /\ psub[c].status \in Live
      BY <1>2, <2>3 DEF Told
    <3>7. Sound(i)'
      BY <2>2, <3>1, <3>2, <3>3, <3>4, <3>5, <3>6 DEF Sound
    <3> QED
      BY <2>1, <3>7
  <2>4. CASE j = 1 /\ n = 0
    <3>1. i = 1 /\ psub[c].status \notin Live
      BY <1>1, <1>5, <2>1, <2>4, StatusKinds
    <3>2. psub'[c].status = "INCOMPLETE" => ~Bought(c, i)'
      BY <1>12, <2>1
    <3>3. /\ es[j].kind = "checkout.completed" => es[j].status = "ACTIVE"
          /\ es[j].kind = "subscription.deleted" => es[j].status = "CANCELED"
          /\ es[j].kind = "payment.failed" => es[j].status = "INCOMPLETE"
          /\ es[j].kind # "payment.succeeded"
      BY <1>2, <2>4, <3>1 DEF Told
    <3>4. Sound(i)'
      BY <2>2, <3>1, <3>2, <3>3 DEF Sound
    <3> QED
      BY <2>1, <3>4
  <2>5. CASE j > 1
    <3>1. j - 1 \in 1..m /\ i - 1 = n + (j - 1) /\ i > 1
      BY <1>1, <1>2, <2>1, <2>5
    <3>2. sent'[i - 1].sub = c /\ sent'[i - 1].status = psub'[c].status
      <4>1. PICK k \in 1..m : k = j - 1 /\ i - 1 = n + k
        BY <3>1
      <4>2. sent'[n + k] = es[k] /\ es[k].sub = c /\ es[k].status = psub'[c].status
        BY <1>3, <1>7
      <4> QED
        BY <4>1, <4>2
    <3>3. psub[c].status \in Live => Bought(c, i)'
      BY <1>11, <2>1
    <3>4. psub'[c].status = "INCOMPLETE" => ~Bought(c, i)'
      BY <1>12, <2>1
    <3>5. /\ es[j].kind = "checkout.completed" => es[j].status = "ACTIVE"
          /\ es[j].kind = "subscription.deleted" => es[j].status = "CANCELED"
          /\ es[j].kind = "payment.failed" =>
                \/ es[j].status = "INCOMPLETE"
                \/ es[j].status = "PAST_DUE" /\ psub[c].status \in Live
          /\ es[j].kind = "payment.succeeded" => es[j].status = "ACTIVE"
      BY <1>2 DEF Told
    <3>6. Sound(i)'
      BY <2>2, <3>1, <3>2, <3>3, <3>4, <3>5 DEF Sound
    <3> QED
      BY <2>1, <3>6
  <2> QED
    BY <1>1, <1>2, <2>3, <2>4, <2>5
<1>15. \A i \in DOMAIN sent' : Sound(i)'
  <2> SUFFICES ASSUME NEW i \in DOMAIN sent' PROVE Sound(i)'
    OBVIOUS
  <2>1. CASE i <= n
    <3>1. i \in 1..n
      BY <1>1, <1>3, <2>1
    <3> QED
      BY <1>13, <3>1
  <2>2. CASE i > n
    <3>1. PICK j \in 1..m : n + j = i
      <4>1. i - n \in 1..m /\ n + (i - n) = i
        BY <1>1, <1>2, <1>3, <2>2
      <4> QED
        BY <4>1
    <3> QED
      BY <1>14, <3>1
  <2> QED
    BY <1>1, <1>3, <2>1, <2>2
<1>16. sent'[n + m].sub = c /\ sent'[n + m].status = psub'[c].status
  <2>1. m \in 1..m
    BY <1>2
  <2> QED
    BY <1>3, <1>7, <2>1
<1>17. ASSUME NEW d \in Checkouts
       PROVE  /\ psub'[d].status \in Unfinished => d = c
              /\ psub'[d].status \in Live => Bought(d, n + m)'
              /\ psub'[d].status \in {"none", "INCOMPLETE"} => ~Bought(d, n + m)'
  <2>1. CASE d # c
    <3>1. psub'[d] = psub[d] /\ psub[d].status \notin Unfinished /\ psub[d].status \notin Live
      BY <1>4, <2>1, StatusKinds
    <3>2. psub[d].status \in {"none", "INCOMPLETE"} => ~Bought(d, n)
      BY <1>1 DEF SentInv
    <3> QED
      BY <1>10, <2>1, <3>1, <3>2
  <2>2. CASE d = c
    <3>1. n + m \in Nat /\ n <= n + m /\ n + m <= n + m
      BY <1>1, <1>2
    <3>2. psub'[c].status # "none"
      BY StatusKinds DEF Told
    <3>3. ASSUME psub'[c].status \in Live, psub[c].status \notin Live PROVE Bought(c, n + m)'
      <4>1. m \in 1..m /\ es[m].kind = "checkout.completed" /\ es[m].sub = c
        BY <1>2, <1>7, <3>3 DEF Told
      <4>2. n + m \in DOMAIN sent' /\ sent'[n + m] = es[m]
        BY <1>1, <1>2, <1>3, <4>1
      <4> QED
        BY <3>1, <4>1, <4>2 DEF Bought
    <3> QED
      BY <1>11, <1>12, <2>2, <3>1, <3>2, <3>3
  <2> QED
    BY <2>1, <2>2
<1> QED
  BY <1>3, <1>15, <1>16, <1>17 DEF SentInv

LEMMA SentStep ==
  ASSUME ColumnsInv, SentInv, ProviderStep, ~overlapped'
  PROVE  SentInv'
<1>1. CASE UNCHANGED <<psub, sent>>
  BY <1>1 DEF SentInv, Sound, Bought
<1>2. CASE \E c \in Checkouts, es \in Seq(EventType) : Told(c, es)
  BY <1>2, ProviderSteps, MoreEvents
<1> QED
  BY <1>1, <1>2, ProviderTells

(* The row *)

LEMMA RowApplied ==
  ASSUME NEW r \in RowType, NEW e \in EventType, now \in 0..MaxTime
  PROVE  /\ e.kind = "checkout.completed" =>
                Applied(r, e).status = "ACTIVE" /\ Applied(r, e).sub = e.sub
         /\ e.kind # "checkout.completed" => Applied(r, e).sub = r.sub
         /\ e.kind = "subscription.updated" => Applied(r, e).status = e.status
         /\ e.kind = "subscription.deleted" => Applied(r, e).status = "CANCELED"
         /\ e.kind = "payment.failed" => Applied(r, e).status = "PAST_DUE"
         /\ e.kind = "payment.succeeded" =>
                Applied(r, e).status = IF r.status = "PAST_DUE" THEN "ACTIVE" ELSE r.status
<1>1. CASE e.kind = "checkout.completed"
  <2>1. Applied(r, e) = [ActiveAgain(r) EXCEPT !.sub = e.sub, !.customer = e.customer,
                                              !.cancels = FALSE]
    BY <1>1 DEF Applied
  <2>2. ActiveAgain(r) \in RowType /\ ActiveAgain(r).status = "ACTIVE"
    <3>1. ActiveAgain(r) \in RowType
      BY ActiveAgainType
    <3>2. ActiveAgain(r).status = "ACTIVE"
      BY DEF ActiveAgain, RowType
    <3> QED
      BY <3>1, <3>2
  <2>3. PICK a \in RowType : a = ActiveAgain(r)
    BY <2>2
  <2>4. PICK b : b = [a EXCEPT !.sub = e.sub, !.customer = e.customer, !.cancels = FALSE]
    OBVIOUS
  <2>5. b.status = a.status /\ b.sub = e.sub
    BY <2>4 DEF RowType
  <2> QED
    BY <1>1, <2>1, <2>2, <2>3, <2>4, <2>5
<1>p. \A q \in RowType : PastDue(q).status = "PAST_DUE" /\ PastDue(q).sub = q.sub
  BY DEF PastDue, RowType
<1>2. CASE e.kind = "subscription.updated"
  <2> DEFINE v == [r EXCEPT !.status = e.status, !.cancels = e.cancels, !.seats = e.seats]
  <2>1. v \in RowType /\ v.status = e.status /\ v.sub = r.sub
    BY BillingKinds DEF RowType
  <2>2. Applied(r, e) = IF e.status = "ACTIVE" THEN [v EXCEPT !.since = NoDate]
                        ELSE IF e.status = "PAST_DUE" THEN PastDue(v) ELSE v
    BY <1>2 DEF Applied
  <2>3. PICK u \in RowType : u = v
    BY <2>1
  <2> HIDE DEF v
  <2>4. [u EXCEPT !.since = NoDate].status = u.status /\ [u EXCEPT !.since = NoDate].sub = u.sub
    BY DEF RowType
  <2>5. Applied(r, e).status = e.status /\ Applied(r, e).sub = r.sub
    BY <1>p, <2>1, <2>2, <2>3, <2>4
  <2> QED
    BY <1>2, <2>5
<1>3. CASE e.kind = "subscription.deleted"
  <2>1. Applied(r, e) = [r EXCEPT !.status = "CANCELED"]
    BY <1>3 DEF Applied
  <2> QED
    BY <1>3, <2>1 DEF RowType
<1>4. CASE e.kind = "payment.failed"
  <2>1. Applied(r, e) = [PastDue(r) EXCEPT !.failed = @ + 1]
    BY <1>4 DEF Applied
  <2>2. PICK d \in RowType : d = PastDue(r)
    BY PastDueType
  <2>3. [d EXCEPT !.failed = @ + 1].status = d.status /\ [d EXCEPT !.failed = @ + 1].sub = d.sub
    BY DEF RowType
  <2> QED
    BY <1>4, <1>p, <2>1, <2>2, <2>3
<1>5. CASE e.kind = "payment.succeeded"
  <2>1. Applied(r, e) = [r EXCEPT !.status = IF @ = "PAST_DUE" THEN "ACTIVE" ELSE @,
                                  !.since = NoDate, !.failed = 0]
    BY <1>5 DEF Applied
  <2> QED
    BY <1>5, <2>1 DEF RowType
<1> QED
  BY <1>1, <1>2, <1>3, <1>4, <1>5, BillingKinds DEF Kinds

(* The next event makes the row tell what the provider told with it.           *)
LEMMA TellsMore ==
  ASSUME ColumnsInv, SentInv, NEW r \in RowType, NEW k \in Nat, k + 1 \in DOMAIN sent, Tells(r, k)
  PROVE  Tells(IF Matched(r, sent[k + 1]) THEN Applied(r, sent[k + 1]) ELSE r, k + 1)
<1>1. PICK i \in DOMAIN sent : i = k + 1 /\ i \in Nat /\ i - 1 = k
  OBVIOUS
<1>2. PICK e \in EventType : e = sent[i]
  BY DEF ColumnsInv
<1>3. PICK q : q = IF Matched(r, e) THEN Applied(r, e) ELSE r
  OBVIOUS
<1>4. now \in 0..MaxTime /\ Sound(i)
  BY DEF ColumnsInv, SentInv
<1>5. ASSUME NEW d, ~(e.kind = "checkout.completed" /\ e.sub = d)
      PROVE  Bought(d, i) <=> Bought(d, k)
  <2>1. \A j \in DOMAIN sent : j <= i <=> j <= k \/ j = i
    BY <1>1 DEF ColumnsInv
  <2> QED
    BY <1>2, <1>5, <2>1 DEF Bought
<1>6. q.sub = IF e.kind = "checkout.completed" THEN e.sub ELSE r.sub
  <2>1. e.kind = "checkout.completed" => q = Applied(r, e)
    BY <1>3 DEF Matched
  <2> QED
    BY <1>3, <1>4, <2>1, RowApplied
<1>7. ASSUME e.kind # "checkout.completed", Bought(e.sub, i)
      PROVE  k > 0 /\ sent[k].sub = e.sub /\ r.sub = e.sub
  <2>1. Bought(e.sub, k)
    BY <1>5, <1>7
  <2>2. k > 0
    BY <2>1 DEF Bought, ColumnsInv
  <2>3. i > 1 /\ i - 1 = k
    BY <1>1, <2>2
  <2>4. sent[k].sub = e.sub
    BY <1>2, <1>4, <2>1, <2>3 DEF Sound
  <2> QED
    BY <2>1, <2>2, <2>4 DEF Tells
<1>8. ASSUME e.status # "INCOMPLETE" PROVE q.status = e.status
  <2>1. CASE e.kind \in {"checkout.completed", "subscription.updated", "subscription.deleted"}
    <3>1. q = Applied(r, e)
      BY <1>3, <2>1 DEF Matched
    <3> QED
      BY <1>2, <1>4, <2>1, <3>1, RowApplied DEF Sound
  <2>2. CASE e.kind = "payment.failed"
    <3>1. e.status = "PAST_DUE" /\ r.sub = e.sub
      BY <1>2, <1>4, <1>7, <1>8, <2>2 DEF Sound
    <3>2. q = Applied(r, e)
      BY <1>3, <3>1 DEF Matched
    <3> QED
      BY <1>4, <2>2, <3>1, <3>2, RowApplied
  <2>3. CASE e.kind = "payment.succeeded"
    <3>1. /\ e.status = "ACTIVE" /\ i > 1
          /\ \/ sent[k].status = "ACTIVE"
             \/ sent[k].status = "PAST_DUE" /\ Bought(e.sub, i)
      BY <1>1, <1>2, <1>4, <2>3 DEF Sound
    <3>2. k > 0 /\ r.status = sent[k].status
      BY <1>1, <3>1 DEF Tells
    <3>3. r.status = "ACTIVE" \/ (r.status = "PAST_DUE" /\ r.sub = e.sub)
      BY <1>7, <2>3, <3>1, <3>2
    <3>4. r.sub = e.sub => q = Applied(r, e)
      BY <1>3 DEF Matched
    <3>5. Applied(r, e).status = IF r.status = "PAST_DUE" THEN "ACTIVE" ELSE r.status
      BY <1>4, <2>3, RowApplied
    <3>6. q = Applied(r, e) \/ q = r
      BY <1>3
    <3> QED
      BY <3>1, <3>3, <3>4, <3>5, <3>6
  <2> QED
    BY <2>1, <2>2, <2>3, BillingKinds DEF Kinds
<1>9. q.sub # NoCheckout => Bought(q.sub, i)
  <2>1. CASE e.kind = "checkout.completed"
    <3>1. Bought(e.sub, i)
      BY <1>1, <1>2, <2>1 DEF Bought
    <3> QED
      BY <1>6, <2>1, <3>1
  <2>2. CASE e.kind # "checkout.completed"
    <3>1. q.sub = r.sub /\ (r.sub # NoCheckout => Bought(r.sub, k))
      BY <1>6, <2>2 DEF Tells
    <3> QED
      BY <1>5, <2>2, <3>1
  <2> QED
    BY <2>1, <2>2
<1>10. Bought(e.sub, i) => q.sub = e.sub
  BY <1>6, <1>7
<1>11. Tells(q, i)
  BY <1>2, <1>8, <1>9, <1>10 DEF Tells
<1> QED
  BY <1>1, <1>2, <1>3, <1>11

(* What a row tells of the first events, it goes on telling of them.           *)
LEMMA TellsOn ==
  ASSUME ColumnsInv, DOMAIN sent \subseteq DOMAIN sent', sent' \in Seq(EventType),
         \A i \in DOMAIN sent : sent'[i] = sent[i],
         NEW r, NEW k \in 0..Len(sent), Tells(r, k), NEW q, q.sub = r.sub, q.status = r.status
  PROVE  Tells(q, k)'
<1>1. sent \in Seq(EventType) /\ k \in Nat /\ (k > 0 => k \in DOMAIN sent)
  BY DEF ColumnsInv
<1>2. \A d : Bought(d, k)' <=> Bought(d, k)
  <2>1. \A j \in DOMAIN sent' : j <= k => j \in DOMAIN sent
    BY <1>1
  <2> QED
    BY <2>1 DEF Bought
<1>3. k > 0 => sent'[k] = sent[k]
  BY <1>1
<1> QED
  BY <1>1, <1>2, <1>3 DEF Tells

LEMMA OrderTold ==
  ASSUME ColumnsInv, OrderInv, UNCHANGED <<applied, tx, reordered>>,
         overlapped => overlapped', overlapped' \in BOOLEAN,
         DOMAIN sent \subseteq DOMAIN sent', sent' \in Seq(EventType),
         \A i \in DOMAIN sent : sent'[i] = sent[i],
         row'.sub = row.sub, row'.status = row.status,
         ~overlapped' => SentInv'
  PROVE  OrderInv'
<1> SUFFICES ASSUME ~overlapped', ~reordered' PROVE \E k \in 0..Len(sent') : FirstApplied(k)'
  BY DEF OrderInv
<1>1. PICK k \in 0..Len(sent) : FirstApplied(k)
  BY DEF OrderInv
<1>2. sent \in Seq(EventType) /\ k \in Nat /\ k \in 0..Len(sent')
  BY DEF ColumnsInv
<1>3. Tells(row, k)'
  <2>1. PICK q : q = row'
    OBVIOUS
  <2>2. PICK r : r = row
    OBVIOUS
  <2>3. Tells(r, k) /\ q.sub = r.sub /\ q.status = r.status
    BY <1>1, <2>1, <2>2 DEF FirstApplied
  <2>4. Tells(q, k)'
    BY <2>3, TellsOn
  <2> QED
    BY <2>1, <2>4 DEF Tells
<1>4. ASSUME NEW p \in Processes, tx'[p] # NoTx, tx'[p].event = k + 1
      PROVE  Tells(tx[p].row, k + 1)'
  <2>1. PICK q : q = tx[p].row
    OBVIOUS
  <2>2. Tells(q, k + 1) /\ k + 1 \in DOMAIN sent
    BY <1>1, <1>4, <2>1 DEF FirstApplied, ColumnsInv
  <2>3. k + 1 \in 0..Len(sent)
    BY <1>2, <2>2
  <2>4. Tells(q, k + 1)'
    BY <2>2, <2>3, TellsOn
  <2> QED
    BY <2>1, <2>4 DEF Tells
<1>5. FirstApplied(k)'
  BY <1>1, <1>3, <1>4 DEF FirstApplied
<1> QED
  BY <1>2, <1>5

LEMMA OrderBegin ==
  ASSUME ColumnsInv, OrderInv, NEW p \in Processes, NEW i \in DOMAIN sent, BeginApply(p, i)
  PROVE  OrderInv'
<1>1. UNCHANGED <<row, applied, sent, psub, reordered, overlapped>> /\ NobodyApplies
  BY DEF BeginApply, providerVars, clockVars
<1>2. SentInv => SentInv'
  BY <1>1 DEF SentInv, Sound, Bought
<1> SUFFICES ASSUME ~overlapped, ~reordered PROVE \E k \in 0..Len(sent') : FirstApplied(k)'
  BY <1>1, <1>2 DEF OrderInv
<1>3. PICK k \in 0..Len(sent) : FirstApplied(k)
  BY DEF OrderInv
<1>4. SentInv /\ row \in RowType /\ k \in Nat
  BY DEF OrderInv, ColumnsInv
<1>5. /\ tx'[p] = [event |-> i, row |-> IF Matched(row, sent[i]) THEN Applied(row, sent[i]) ELSE row]
      /\ \A q \in Processes \ {p} : tx'[q] = NoTx
  BY <1>1 DEF BeginApply, ColumnsInv, NobodyApplies
<1>6. \A r, j : Tells(r, j)' <=> Tells(r, j)
  BY <1>1 DEF Tells, Bought
<1>7. Tells(row, k)'
  BY <1>1, <1>3, <1>6 DEF FirstApplied, Tells, Bought
<1>8. ASSUME NEW q \in Processes, tx'[q] # NoTx, tx'[q].event = k + 1 PROVE Tells(tx[q].row, k + 1)'
  <2>1. q = p /\ i = k + 1
    BY <1>5, <1>8
  <2>2. PICK r \in RowType : r = row
    BY <1>4
  <2>3. Tells(r, k)
    BY <1>3, <2>2 DEF FirstApplied
  <2>4. PICK x : x = IF Matched(r, sent[k + 1]) THEN Applied(r, sent[k + 1]) ELSE r
    OBVIOUS
  <2>5. Tells(x, k + 1)
    BY <1>4, <2>1, <2>3, <2>4, TellsMore
  <2>6. tx'[q].row = x
    BY <1>5, <2>1, <2>2, <2>4
  <2> QED
    <3>1. Tells(x, k + 1)'
      BY <1>6, <2>5
    <3> QED
      BY <2>6, <3>1 DEF Tells
<1>9. FirstApplied(k)'
  BY <1>1, <1>3, <1>7, <1>8 DEF FirstApplied
<1> QED
  BY <1>1, <1>9

LEMMA OrderCommit ==
  ASSUME ColumnsInv, ApplyInv, OrderInv, NEW p \in Processes, CommitApply(p)
  PROVE  OrderInv'
<1> DEFINE i == tx[p].event
<1>1. /\ UNCHANGED <<sent, psub, overlapped>> /\ row' = tx[p].row /\ applied' = applied \cup {i}
      /\ reordered' = (reordered \/ Overtakes(i)) /\ i \in DOMAIN sent /\ i \notin applied
      /\ \A q \in Processes : tx'[q] = NoTx
  BY DEF CommitApply, providerVars, ColumnsInv, ApplyInv
<1> HIDE DEF i
<1>2. SentInv => SentInv'
  BY <1>1 DEF SentInv, Sound, Bought
<1>3. reordered' \in BOOLEAN /\ overlapped' \in BOOLEAN
  BY <1>1 DEF OrderInv, Overtakes
<1> SUFFICES ASSUME ~overlapped, ~reordered, ~Overtakes(i)
             PROVE  \E k \in 0..Len(sent') : FirstApplied(k)'
  BY <1>1, <1>2, <1>3 DEF OrderInv
<1>4. PICK k \in 0..Len(sent) : FirstApplied(k)
  BY DEF OrderInv
<1>5. k \in Nat /\ i \in Nat /\ i >= 1 /\ i <= Len(sent) /\ Len(sent) \in Nat /\ DOMAIN sent = 1..Len(sent)
  BY <1>1 DEF ColumnsInv
<1>6. i = k + 1
  <2>1. i > k
    BY <1>1, <1>4, <1>5 DEF FirstApplied
  <2>2. ASSUME i > k + 1 PROVE FALSE
    <3>1. k + 1 \in DOMAIN sent /\ k + 1 < i
      BY <1>5, <2>2
    <3>2. k + 1 \notin applied
      BY <1>4, <1>5 DEF FirstApplied
    <3> QED
      BY <3>1, <3>2 DEF Overtakes
  <2> QED
    BY <1>5, <2>1, <2>2
<1>7. Tells(tx[p].row, k + 1)
  BY <1>4, <1>6 DEF FirstApplied, CommitApply, i
<1>8. PICK j \in 0..Len(sent) : j = k + 1
  BY <1>5, <1>6
<1>9. applied' = 1..j
  BY <1>1, <1>4, <1>5, <1>6, <1>8 DEF FirstApplied
<1>10. Tells(row, j)'
  BY <1>1, <1>7, <1>8 DEF Tells, Bought
<1>11. FirstApplied(j)'
  BY <1>1, <1>9, <1>10 DEF FirstApplied
<1> QED
  BY <1>1, <1>11

LEMMA OrderStep == ColumnsInv /\ ApplyInv /\ OrderInv /\ [Next]_vars => OrderInv'
<1> SUFFICES ASSUME ColumnsInv, ApplyInv, OrderInv, [Next]_vars PROVE OrderInv'
  OBVIOUS
<1> USE DEF billingVars, guardVars, providerVars, seatVars, clockVars
<1>0. sent \in Seq(EventType)
  BY DEF ColumnsInv
<1>1. ASSUME ProviderStep PROVE OrderInv'
  <2>1. UNCHANGED <<row, applied, tx, reordered>>
    BY <1>1, ProviderKeeps
  <2>2. \/ overlapped' = overlapped
        \/ \E c \in Checkouts : overlapped' =
               (overlapped \/ \E d \in Checkouts \ {c} : psub[d].status \in Unfinished)
    BY <1>1 DEF ProviderStep, Provider, Tries, CheckoutPaid, CheckoutDeclined, CheckoutExpires,
                RenewalPaid, RenewalFails, StandingChanges, SubscriptionEnds, Cancel, SyncProvider
  <2>3. overlapped' \in BOOLEAN /\ (overlapped => overlapped')
    BY <2>2 DEF OrderInv
  <2>4. ~overlapped' => SentInv'
    BY <1>1, <2>3, SentStep DEF OrderInv
  <2>5. /\ DOMAIN sent \subseteq DOMAIN sent' /\ sent' \in Seq(EventType)
        /\ \A i \in DOMAIN sent : sent'[i] = sent[i]
    BY <1>1, ProviderSteps
  <2> QED
    BY <2>1, <2>3, <2>4, <2>5, OrderTold
<1>2. ASSUME UNCHANGED <<applied, tx, reordered, overlapped, sent, psub>>,
             row'.sub = row.sub, row'.status = row.status
      PROVE  OrderInv'
  <2>1. SentInv => SentInv'
    BY <1>2 DEF SentInv, Sound, Bought
  <2>2. overlapped' \in BOOLEAN /\ (~overlapped' => SentInv')
    BY <1>2, <2>1 DEF OrderInv
  <2> QED
    BY <1>0, <1>2, <2>2, OrderTold
<1>3. ASSUME \/ \E c \in Checkouts : CheckoutStored(c)
             \/ \E p \in Processes : CancelStored(p)
             \/ \E p \in Syncers : SyncStore(p)
      PROVE  OrderInv'
  <2>1. UNCHANGED <<applied, tx, reordered, overlapped, sent, psub>>
    BY <1>3 DEF CheckoutStored, CancelStored, SyncStore
  <2>2. row'.status = row.status
    BY <1>3, RowRewritten DEF Rewritten
  <2>3. row'.sub = row.sub
    <3>1. row \in RowType
      BY DEF ColumnsInv
    <3>2. CASE \E c \in Checkouts : CheckoutStored(c)
      BY <3>1, <3>2 DEF CheckoutStored, RowType
    <3>3. CASE \E p \in Processes : CancelStored(p)
      BY <3>1, <3>3 DEF CancelStored, RowType
    <3>4. CASE \E p \in Syncers : SyncStore(p)
      BY <3>1, <3>4 DEF SyncStore, RowType
    <3> QED
      BY <1>3, <3>2, <3>3, <3>4
  <2> QED
    BY <1>2, <2>1, <2>2, <2>3
<1>4. ASSUME NEW p \in Processes, RollbackApply(p) PROVE OrderInv'
  <2>1. /\ UNCHANGED <<row, applied, reordered, overlapped, sent, psub>>
        /\ \A q \in Processes : tx'[q] = NoTx
    BY <1>4 DEF RollbackApply, ColumnsInv, ApplyInv
  <2> QED
    BY <2>1 DEF OrderInv, SentInv, Sound, FirstApplied, Tells, Bought
<1>5. CASE \/ \E c \in Checkouts : CheckoutReads(c) \/ CheckoutOpens(c)
           \/ \E p \in Guards : Guard(p)
           \/ \E p \in Syncers : SyncLoad(p) \/ SyncCount(p) \/ SyncFails(p)
           \/ CancelReads \/ CancelDies \/ UsersChange \/ Tick \/ UNCHANGED vars
  <2>1. UNCHANGED <<row, applied, tx, reordered, overlapped, sent, psub>>
    BY <1>5 DEF CheckoutReads, CheckoutOpens, Guard, UseCached, ReadRow, StoreVerdict, SyncLoad,
                SyncCount, SyncFails, CancelReads, CancelDies, UsersChange, Tick, vars
  <2> QED
    BY <1>2, <2>1
<1> QED
  BY <1>1, <1>3, <1>4, <1>5, OrderBegin, OrderCommit DEF Next, ProviderStep, Sync, Webhook, Checkout

LEMMA OrderInit == Init => OrderInv
<1> SUFFICES ASSUME Init PROVE OrderInv
  OBVIOUS
<1>1. /\ sent = <<>> /\ applied = {} /\ reordered = FALSE /\ overlapped = FALSE
      /\ row.sub = NoCheckout /\ \A p \in Processes : tx[p] = NoTx
      /\ \A c \in Checkouts : psub[c].status = "none"
  BY DEF Init
<1>2. Len(sent) = 0 /\ DOMAIN sent = {}
  BY <1>1
<1>3. SentInv
  BY <1>1, <1>2, StatusKinds DEF SentInv, Bought
<1>4. 0 \in 0..Len(sent) /\ 1..0 = {}
  BY <1>2
<1>5. FirstApplied(0)
  BY <1>1, <1>4 DEF FirstApplied, Tells
<1> QED
  BY <1>1, <1>3, <1>4, <1>5 DEF OrderInv

LEMMA ToldInOrder == ColumnsInv /\ OrderInv => AgreesInOrder
<1> SUFFICES ASSUME ColumnsInv, OrderInv, AllApplied, ~reordered, ~overlapped, sent # <<>>,
                    NEW c, c = sent[Len(sent)].sub
             PROVE  /\ psub[c].status # "INCOMPLETE" => row.status = psub[c].status
                    /\ psub[c].status \in Live => row.sub = c
  BY DEF AgreesInOrder
<1>1. PICK k \in 0..Len(sent) : FirstApplied(k)
  BY DEF OrderInv
<1>2. SentInv /\ sent \in Seq(EventType) /\ k \in Nat /\ Len(sent) \in Nat
  BY DEF OrderInv, ColumnsInv
<1>3. k = Len(sent)
  <2>1. SUFFICES ASSUME k < Len(sent) PROVE FALSE
    BY <1>1, <1>2
  <2>2. k + 1 \in DOMAIN sent
    BY <1>2, <2>1
  <2>3. k + 1 \in applied
    BY <2>2 DEF AllApplied
  <2>4. k + 1 \notin applied
    BY <1>1, <1>2 DEF FirstApplied
  <2> QED
    BY <2>3, <2>4
<1>4. k > 0 /\ k \in DOMAIN sent /\ c = sent[k].sub /\ c \in Checkouts
  BY <1>2, <1>3, BillingKinds
<1>5. psub[c].status = sent[k].status /\ (psub[c].status \in Live => Bought(c, k))
  BY <1>2, <1>3, <1>4 DEF SentInv
<1> QED
  BY <1>1, <1>4, <1>5 DEF FirstApplied, Tells

(* However webhooks race, repeat and roll back beside cancellations, the seat  *)
(* sync, declined and expired checkouts and checkouts after a subscription     *)
(* ended, once every event was recorded, in the order they happened, the row   *)
(* tells the provider's state of the subscription they last told of, and       *)
(* follows it while it is live: for any number of events and processes.        *)
THEOREM AgreesOnceApplied == Spec => []AgreesInOrder
BY ColumnsAlways, ApplyInit, ApplyStep, OrderInit, OrderStep, ToldInOrder, PTL DEF Spec
================================================================================
