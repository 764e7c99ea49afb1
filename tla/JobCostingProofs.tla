---------------------------- MODULE JobCostingProofs ----------------------------
(* That an hour of labour is charged once, that the accounts of a job are     *)
(* what its rows of labour and its material come to, and that the stored cost *)
(* of a completed job is that of its hours, for any number of jobs,           *)
(* employees, entries, payroll runs and months; and that the composed model   *)
(* of MCTrade only does what its modules do.                                  *)
EXTENDS MCTrade, PurchaseProofs, SalesProofs

(* The types of what the argument reads. *)
HoursTypeOK ==
    /\ month \in Months
    /\ job \in [Jobs -> Job]
    /\ timesheet \in [Entries -> Entry \cup {NoEntry}]
    /\ payRun \in [PayRuns -> PayRun]
    /\ labour \subseteq LabourRow

(* A running clock has somebody and a month to write its hours for. *)
ClockInv ==
    \A j \in Jobs : job[j].op = "RUNNING" => job[j].operator \in Employees /\ job[j].since \in Months

ChargeInv == HoursTypeOK /\ ClockInv /\ HoursChargedOnce

--------------------------------------------------------------------------------
(* Facts about the operators. *)

(* What one of several units takes with it is no more than there is. *)
LEMMA ShareBound ==
    ASSUME NEW v \in Nat, NEW u \in Nat, u > 1
    PROVE  (2 * v + u) \div (2 * u) \in 0..v
<1> DEFINE q == (2 * v + u) \div (2 * u)
<1>1. q \in Int /\ (2 * u) * q <= 2 * v + u /\ 2 * v + u < (2 * u) * (q + 1)
  OBVIOUS
<1>2. q >= 0
  BY <1>1
<1>3. q <= v
  <2>1. SUFFICES ASSUME q >= v + 1 PROVE FALSE
    BY <1>1
  <2>2. (2 * u) * q >= (2 * u) * (v + 1)
    BY <1>1, <2>1
  <2>3. u * v >= v
    OBVIOUS
  <2>4. (2 * u) * (v + 1) = 2 * (u * v) + 2 * u
    OBVIOUS
  <2> QED
    BY <1>1, <2>2, <2>3, <2>4
<1> QED
  BY <1>1, <1>2, <1>3

(* Counting entries gives a number. *)
LEMMA CountIsNat ==
    ASSUME NEW S, S \subseteq Entries
    PROVE  Cardinality(S) \in Nat
BY JobCostingAssumption, FS_Subset, FS_CardinalityType

(* What steps of each kind do to the charged hours. *)

(* The rest of the system moves. *)
LEMMA OfNothing ==
    ASSUME HoursChargedOnce, UNCHANGED <<timesheet, payRun, labour>>
    PROVE  HoursChargedOnce'
BY DEF HoursChargedOnce, StampsArePosted, RowsCountStamps, Stamped, Recorded

(* Rows that are cleared stay rows of the same hours. *)
LEMMA OfClearing ==
    ASSUME HoursTypeOK, HoursChargedOnce, NEW moving \in SUBSET labour,
           NEW to \in {"COGS", "EXPENSE"}, UNCHANGED <<timesheet, payRun>>,
           labour' = (labour \ moving) \cup {[w EXCEPT !.clearedTo = to] : w \in moving}
    PROVE  labour' \subseteq LabourRow /\ HoursChargedOnce'
<1>1. ASSUME NEW w \in labour'
      PROVE  /\ w \in LabourRow
             /\ \E v \in labour : /\ w.run = v.run /\ w.employee = v.employee
                                  /\ w.job = v.job /\ w.hours = v.hours
  <2>1. CASE w \in labour
    BY <2>1 DEF HoursTypeOK
  <2>2. CASE w \notin labour
    <3>1. PICK v \in moving : w = [v EXCEPT !.clearedTo = to]
      BY <2>2
    <3>2. v \in labour /\ v \in LabourRow
      BY DEF HoursTypeOK
    <3> QED
      BY <3>1, <3>2 DEF LabourRow
  <2> QED
    BY <2>1, <2>2
<1>2. StampsArePosted'
  BY DEF HoursChargedOnce, StampsArePosted, Recorded
<1>3. ASSUME NEW r, NEW e, NEW j
      PROVE  Stamped(r, e, j)' = Stamped(r, e, j)
  BY DEF Stamped, Recorded
<1>4. RowsCountStamps'
  BY <1>1, <1>3 DEF HoursChargedOnce, RowsCountStamps
<1> QED
  BY <1>1, <1>2, <1>4 DEF HoursChargedOnce

(* An entry no run has charged comes, changes or goes. *)
LEMMA OfEntry ==
    ASSUME HoursTypeOK, HoursChargedOnce, NEW n \in Entries,
           NEW hour \in Entry \cup {NoEntry}, hour.at = "recorded" => hour.run = "none",
           n \in Recorded => timesheet[n].run = "none",
           timesheet' = [timesheet EXCEPT ![n] = hour], UNCHANGED <<payRun, labour>>
    PROVE  timesheet' \in [Entries -> Entry \cup {NoEntry}] /\ HoursChargedOnce'
<1>1. timesheet' \in [Entries -> Entry \cup {NoEntry}]
  BY DEF HoursTypeOK
<1>2. ASSUME NEW m \in Entries, m # n
      PROVE  timesheet'[m] = timesheet[m]
  BY <1>2 DEF HoursTypeOK
<1>3. timesheet'[n] = hour
  BY DEF HoursTypeOK
<1>4. StampsArePosted'
  BY <1>2, <1>3 DEF HoursChargedOnce, StampsArePosted, Recorded
<1>5. ASSUME NEW r \in PayRuns, NEW e, NEW j
      PROVE  Stamped(r, e, j)' = Stamped(r, e, j)
  BY <1>2, <1>3, JobCostingAssumption DEF Stamped, Recorded
<1>6. RowsCountStamps'
  BY <1>5 DEF HoursChargedOnce, RowsCountStamps, HoursTypeOK, LabourRow
<1> QED
  BY <1>1, <1>4, <1>6 DEF HoursChargedOnce

(* A run that charged nothing is rewritten, or a posted one stays posted. *)
LEMMA OfRun ==
    ASSUME HoursTypeOK, HoursChargedOnce, NEW r \in PayRuns, NEW to \in PayRun,
           payRun' = [payRun EXCEPT ![r] = to], UNCHANGED <<timesheet, labour>>,
           payRun[r].status \in PostedRunStatuses =>
               /\ to.status \in PostedRunStatuses
               /\ to.month = payRun[r].month /\ to.lines = payRun[r].lines
    PROVE  payRun' \in [PayRuns -> PayRun] /\ HoursChargedOnce'
<1>1. payRun' \in [PayRuns -> PayRun]
  BY DEF HoursTypeOK
<1>2. ASSUME NEW s \in PayRuns, payRun[s].status \in PostedRunStatuses
      PROVE  /\ payRun'[s].status \in PostedRunStatuses
             /\ payRun'[s].month = payRun[s].month /\ payRun'[s].lines = payRun[s].lines
  BY <1>2 DEF HoursTypeOK
<1>3. \A n \in Recorded : timesheet[n].run \in PayRuns \cup {"none"}
  BY DEF HoursTypeOK, Recorded, Entry, NoEntry
<1>4. StampsArePosted'
  BY <1>2, <1>3 DEF HoursChargedOnce, StampsArePosted, Recorded
<1>5. ASSUME NEW s, NEW e, NEW j
      PROVE  Stamped(s, e, j)' = Stamped(s, e, j)
  BY DEF Stamped, Recorded
<1>6. RowsCountStamps'
  BY <1>2, <1>5 DEF HoursChargedOnce, RowsCountStamps, HoursTypeOK, LabourRow
<1> QED
  BY <1>1, <1>4, <1>6 DEF HoursChargedOnce

(* One lemma per part of the next-state relation. *)

LEMMA InitCharge == CostingInit => ChargeInv
<1> SUFFICES ASSUME CostingInit PROVE ChargeInv
  OBVIOUS
<1>1. month \in Months /\ job \in [Jobs -> Job] /\ payRun \in [PayRuns -> PayRun]
  BY JobCostingAssumption DEF CostingInit, Months, Job, NewJob, PayRun, NoPayRun, PostedRunStatuses
<1>2. timesheet \in [Entries -> Entry \cup {NoEntry}] /\ labour \subseteq LabourRow
  BY DEF CostingInit
<1>3. ClockInv /\ HoursChargedOnce
  BY DEF CostingInit, ClockInv, NewJob, HoursChargedOnce, StampsArePosted, RowsCountStamps,
         Recorded, NoEntry
<1> QED
  BY <1>1, <1>2, <1>3 DEF ChargeInv, HoursTypeOK

(* A step that moves one job and nothing of the hours. *)
LEMMA OfJob ==
    ASSUME ChargeInv, NEW j \in Jobs, NEW entered \in Job,
           entered.op = "RUNNING" => entered.operator \in Employees /\ entered.since \in Months,
           job' = [job EXCEPT ![j] = entered]
    PROVE  job' \in [Jobs -> Job] /\ ClockInv'
BY DEF ChargeInv, HoursTypeOK, ClockInv

LEMMA JobStep ==
    ASSUME ChargeInv, NEW j \in Jobs,
           \/ ReleaseJob(j) \/ CompleteJob(j) \/ CancelJob(j)
           \/ \E status \in {"RELEASED", "IN_PROGRESS"} : MoveColumn(j, status)
    PROVE  ChargeInv'
<1> USE DEF ChargeInv
<1>j. /\ job[j] \in Job
      /\ job[j].op = "RUNNING" => job[j].operator \in Employees /\ job[j].since \in Months
  BY DEF HoursTypeOK, ClockInv
<1>1. CASE ReleaseJob(j)
  <2>1. job' = [job EXCEPT ![j] = [job[j] EXCEPT !.status = "RELEASED"]]
    BY <1>1 DEF ReleaseJob
  <2>2. job' \in [Jobs -> Job] /\ ClockInv'
    BY <2>1, <1>j, OfJob DEF Job
  <2> QED
    BY <1>1, <2>2, OfNothing DEF ReleaseJob, HoursTypeOK, Months
<1>2. ASSUME NEW status \in {"RELEASED", "IN_PROGRESS"}, MoveColumn(j, status)
      PROVE  ChargeInv'
  <2>1. job' = [job EXCEPT ![j] = [job[j] EXCEPT !.status = status]]
    BY <1>2 DEF MoveColumn
  <2>2. job' \in [Jobs -> Job] /\ ClockInv'
    BY <2>1, <1>j, OfJob DEF Job
  <2> QED
    BY <1>2, <2>2, OfNothing DEF MoveColumn, HoursTypeOK, Months
<1>3. CASE CompleteJob(j)
  <2> DEFINE op == CASE job[j].op = "PENDING" -> "SKIPPED" [] job[j].op = "PAUSED" -> "DONE"
                     [] OTHER -> job[j].op
             entered == [job[j] EXCEPT !.status = "COMPLETE", !.completed = month, !.op = op]
  <2>1. job' = [job EXCEPT ![j] = entered]
    BY <1>3, <1>j DEF CompleteJob, HoursTypeOK, Job
  <2>2. month \in Nat
    BY JobCostingAssumption DEF HoursTypeOK, Months
  <2>3. entered \in Job
    BY <1>j, <2>2 DEF Job
  <2>4. entered.op # "RUNNING"
    BY <1>3, <1>j DEF CompleteJob, Job
  <2>5. job' \in [Jobs -> Job] /\ ClockInv'
    BY <2>1, <2>3, <2>4, OfJob
  <2>6. InWip(RowsOn(labour, j)) \subseteq labour
    BY DEF InWip, RowsOn
  <2>7. labour' \subseteq LabourRow /\ HoursChargedOnce'
    BY <1>3, <2>6, OfClearing DEF CompleteJob
  <2> QED
    BY <1>3, <2>5, <2>7 DEF CompleteJob, HoursTypeOK, Months
<1>4. CASE CancelJob(j)
  <2> DEFINE entered == [job[j] EXCEPT !.status = "CANCELLED", !.since = 0,
                                   !.op = IF job[j].op = "RUNNING" THEN "PAUSED" ELSE job[j].op]
  <2>1. job' = [job EXCEPT ![j] = entered]
    BY <1>4, <1>j DEF CancelJob, HoursTypeOK, Job
  <2>2. entered \in Job /\ entered.op # "RUNNING"
    BY <1>j DEF Job
  <2>3. job' \in [Jobs -> Job] /\ ClockInv'
    BY <2>1, <2>2, OfJob
  <2>4. InWip(RowsOn(labour, j)) \subseteq labour
    BY DEF InWip, RowsOn
  <2>5. labour' \subseteq LabourRow /\ HoursChargedOnce'
    BY <1>4, <2>4, OfClearing DEF CancelJob
  <2> QED
    BY <1>4, <2>3, <2>5 DEF CancelJob, HoursTypeOK, Months
<1> QED
  BY <1>1, <1>2, <1>3, <1>4

(* The clock's entry, if it writes one. *)
LEMMA ClockEntry ==
    ASSUME ChargeInv, NEW j \in Jobs, NEW e \in Employees, NEW m \in Months,
           RecordClock(j, e, m), UNCHANGED <<payRun, labour>>
    PROVE  timesheet' \in [Entries -> Entry \cup {NoEntry}] /\ HoursChargedOnce'
<1> USE DEF ChargeInv
<1>1. CASE UNCHANGED timesheet
  BY <1>1, OfNothing DEF HoursTypeOK
<1>2. ASSUME NEW n \in Entries \ Recorded, timesheet' = [timesheet EXCEPT ![n] = Hour(e, m, j)]
      PROVE  timesheet' \in [Entries -> Entry \cup {NoEntry}] /\ HoursChargedOnce'
  <2>1. Hour(e, m, j) \in Entry /\ Hour(e, m, j).run = "none"
    BY DEF Hour, Entry
  <2> QED
    BY <1>2, <2>1, OfEntry
<1> QED
  BY <1>1, <1>2 DEF RecordClock

LEMMA FloorStep ==
    ASSUME ChargeInv, FloorNext
    PROVE  ChargeInv'
<1> USE DEF ChargeInv
<1>0. PICK j \in Jobs :
        \/ job[j].issued < MaxIssued /\ \E cost \in UnitCosts : IssueToJob(j, cost)
        \/ ReturnFromJob(j)
        \/ \E finish \in BOOLEAN : \E h \in {0, 1} :
              job[j].hours + h <= MaxHours /\ StopOperation(j, finish, h)
        \/ \E e \in Employees : \/ StartOperation(j, e)
                                \/ job[j].hours < MaxHours /\ LogTime(j, e)
  BY DEF FloorNext
<1>j. /\ job[j] \in Job
      /\ job[j].op = "RUNNING" => job[j].operator \in Employees /\ job[j].since \in Months
  BY DEF HoursTypeOK, ClockInv
<1>1. ASSUME NEW cost \in UnitCosts, IssueToJob(j, cost)
      PROVE  ChargeInv'
  <2> DEFINE entered == [job[j] EXCEPT !.issued = job[j].issued + 1, !.value = job[j].value + cost,
                                   !.status = "IN_PROGRESS"]
  <2>1. job' = [job EXCEPT ![j] = entered]
    BY <1>1, <1>j DEF IssueToJob, HoursTypeOK, Job
  <2>2. job[j].issued + 1 \in Nat /\ job[j].value + cost \in Nat
    <3>1. cost \in Nat /\ job[j].issued \in Nat /\ job[j].value \in Nat
      BY <1>j, JobCostingAssumption DEF Job
    <3> QED
      BY <3>1
  <2>3. entered \in Job /\ entered.op = job[j].op /\ entered.operator = job[j].operator
          /\ entered.since = job[j].since
    BY <1>j, <2>2 DEF Job
  <2>4. job' \in [Jobs -> Job] /\ ClockInv'
    BY <1>j, <2>1, <2>3, OfJob
  <2> QED
    BY <1>1, <2>4, OfNothing DEF IssueToJob, HoursTypeOK, Months
<1>2. CASE ReturnFromJob(j)
  <2> DEFINE units == job[j].issued
             share == IF units = 1 THEN job[j].value
                      ELSE (2 * job[j].value + units) \div (2 * units)
             entered == [job[j] EXCEPT !.issued = units - 1, !.value = job[j].value - share]
  <2>1. job' = [job EXCEPT ![j] = entered]
    BY <1>2, <1>j DEF ReturnFromJob, HoursTypeOK, Job
  <2>2. units \in Nat /\ units > 0 /\ job[j].value \in Nat
    BY <1>2, <1>j DEF ReturnFromJob, Job
  <2>3. share \in 0..job[j].value
    <3>1. CASE units = 1
      BY <2>2, <3>1
    <3>2. CASE units > 1
      BY <2>2, <3>2, ShareBound
    <3> QED
      BY <2>2, <3>1, <3>2
  <2>4. units - 1 \in Nat /\ job[j].value - share \in Nat
    <3> HIDE DEF share
    <3> QED
      BY <2>2, <2>3
  <2>5. entered \in Job /\ entered.op = job[j].op /\ entered.operator = job[j].operator
          /\ entered.since = job[j].since
    <3> HIDE DEF share
    <3> QED
      BY <1>j, <2>4 DEF Job
  <2>6. job' \in [Jobs -> Job] /\ ClockInv'
    <3> HIDE DEF entered
    <3> QED
      BY <1>j, <2>1, <2>5, OfJob
  <2> QED
    BY <1>2, <2>6, OfNothing DEF ReturnFromJob, HoursTypeOK, Months
<1>3. ASSUME NEW finish \in BOOLEAN, NEW h \in {0, 1}, StopOperation(j, finish, h)
      PROVE  ChargeInv'
  <2> DEFINE entered == [job[j] EXCEPT !.hours = job[j].hours + h, !.since = 0,
                                   !.op = IF finish THEN "DONE" ELSE "PAUSED"]
  <2>1. job' = [job EXCEPT ![j] = entered]
    BY <1>3, <1>j DEF StopOperation, HoursTypeOK, Job
  <2>h. job[j].hours + h \in Nat
    <3>1. job[j].hours \in Nat
      BY <1>j DEF Job
    <3> QED
      BY <3>1
  <2>2. entered \in Job /\ entered.op # "RUNNING"
    BY <1>j, <2>h DEF Job
  <2>3. job' \in [Jobs -> Job] /\ ClockInv'
    BY <2>1, <2>2, OfJob
  <2>4. timesheet' \in [Entries -> Entry \cup {NoEntry}] /\ HoursChargedOnce'
    <3>1. CASE h = 0
      BY <1>3, <3>1, OfNothing DEF StopOperation, HoursTypeOK
    <3>2. CASE h = 1
      BY <1>3, <1>j, <3>2, ClockEntry DEF StopOperation
    <3> QED
      BY <3>1, <3>2
  <2> QED
    BY <1>3, <2>3, <2>4 DEF StopOperation, HoursTypeOK, Months
<1>4. ASSUME NEW e \in Employees, StartOperation(j, e)
      PROVE  ChargeInv'
  <2> DEFINE entered == [job[j] EXCEPT !.op = "RUNNING", !.since = month, !.operator = e,
                                   !.status = "IN_PROGRESS"]
  <2>1. job' = [job EXCEPT ![j] = entered]
    BY <1>4, <1>j DEF StartOperation, HoursTypeOK, Job
  <2>2. month \in Months /\ month \in Nat
    BY JobCostingAssumption DEF HoursTypeOK, Months
  <2>3. entered \in Job /\ entered.operator \in Employees /\ entered.since \in Months
    BY <1>j, <2>2 DEF Job
  <2>4. job' \in [Jobs -> Job] /\ ClockInv'
    BY <2>1, <2>3, OfJob
  <2> QED
    BY <1>4, <2>4, OfNothing DEF StartOperation, HoursTypeOK, Months
<1>5. ASSUME NEW e \in Employees, LogTime(j, e)
      PROVE  ChargeInv'
  <2> DEFINE entered == [job[j] EXCEPT !.hours = job[j].hours + 1, !.status = "IN_PROGRESS",
                        !.operator = IF job[j].operator = "none" THEN e ELSE job[j].operator,
                        !.op = IF job[j].op = "PENDING" THEN "PAUSED" ELSE job[j].op]
  <2>1. job' = [job EXCEPT ![j] = entered]
    BY <1>5, <1>j DEF LogTime, HoursTypeOK, Job
  <2>h. job[j].hours + 1 \in Nat
    <3>1. job[j].hours \in Nat
      BY <1>j DEF Job
    <3> QED
      BY <3>1
  <2>2. entered \in Job
    BY <1>j, <2>h DEF Job
  <2>3. entered.op = "RUNNING" => entered.operator \in Employees /\ entered.since \in Months
    BY <1>j DEF Job
  <2>4. job' \in [Jobs -> Job] /\ ClockInv'
    BY <2>1, <2>2, <2>3, OfJob
  <2>5. timesheet' \in [Entries -> Entry \cup {NoEntry}] /\ HoursChargedOnce'
    BY <1>5, ClockEntry DEF LogTime, HoursTypeOK
  <2> QED
    BY <1>5, <2>4, <2>5 DEF LogTime, HoursTypeOK, Months
<1> QED
  BY <1>0, <1>1, <1>2, <1>3, <1>4, <1>5

(* What a write of the timesheets may take away, no run has charged. *)
LEMMA OpenEntry ==
    ASSUME HoursTypeOK, HoursChargedOnce, NEW n \in Recorded, MayTakeFrom(n)
    PROVE  timesheet[n] \in Entry /\ timesheet[n].run = "none"
<1>1. n \in Entries /\ timesheet[n] \in Entry
  BY DEF HoursTypeOK, Recorded, NoEntry
<1>2. SUFFICES ASSUME timesheet[n].run # "none" PROVE FALSE
  BY <1>1
<1>3. timesheet[n].run \in PayRuns
  BY <1>1, <1>2 DEF Entry
<1>4. PostedRunOf(timesheet[n].employee, timesheet[n].month)
  BY <1>2, <1>3 DEF HoursChargedOnce, StampsArePosted, PostedRunOf
<1> QED
  BY <1>4 DEF MayTakeFrom

(* Moving hours leaves every clock as it is. *)
LEMMA OfMoving ==
    ASSUME ChargeInv, NEW from, NEW to, MoveHours(from, to)
    PROVE  job' \in [Jobs -> Job] /\ ClockInv'
<1> DEFINE op(j) == IF job[j].op = "PENDING" THEN "PAUSED" ELSE job[j].op
           taken(j) == [job[j] EXCEPT !.hours = IF job[j].hours > 0 THEN job[j].hours - 1 ELSE 0]
           given(j) == [job[j] EXCEPT !.hours = job[j].hours + 1, !.op = op(j),
                          !.status = IF job[j].status = "RELEASED" THEN "IN_PROGRESS"
                                     ELSE job[j].status]
<1>1. ASSUME NEW j \in Jobs
      PROVE  /\ job'[j] \in {job[j], taken(j), given(j)}
             /\ job'[j] \in Job
             /\ job'[j].op = "RUNNING" =>
                    job'[j].operator \in Employees /\ job'[j].since \in Months
  <2>1. /\ job[j] \in Job
        /\ job[j].op = "RUNNING" => job[j].operator \in Employees /\ job[j].since \in Months
    BY DEF ChargeInv, HoursTypeOK, ClockInv
  <2>2. job'[j] \in {job[j], taken(j), given(j)}
    <3>1. CASE from = to \/ j \notin {from, to}
      BY <3>1 DEF MoveHours
    <3>2. CASE j = from /\ from # to
      BY <2>1, <3>2 DEF MoveHours, Job
    <3>3. CASE j = to /\ from # to
      BY <2>1, <3>3 DEF MoveHours, Job
    <3> QED
      BY <3>1, <3>2, <3>3
  <2>3. /\ job[j].hours + 1 \in Nat
        /\ (IF job[j].hours > 0 THEN job[j].hours - 1 ELSE 0) \in Nat
    <3>1. job[j].hours \in Nat
      BY <2>1 DEF Job
    <3> QED
      BY <3>1
  <2>4. taken(j) \in Job /\ taken(j).op = job[j].op
          /\ taken(j).operator = job[j].operator /\ taken(j).since = job[j].since
    BY <2>1, <2>3 DEF Job
  <2>5. given(j) \in Job /\ (given(j).op = "RUNNING" => job[j].op = "RUNNING")
          /\ given(j).operator = job[j].operator /\ given(j).since = job[j].since
    BY <2>1, <2>3 DEF Job
  <2> HIDE DEF taken, given
  <2> QED
    BY <2>1, <2>2, <2>4, <2>5
<1>2. job' = [j \in Jobs |-> job'[j]]
  BY DEF MoveHours
<1> QED
  BY <1>1, <1>2 DEF ClockInv

LEMMA TimesheetStep ==
    ASSUME ChargeInv, TimesheetNext
    PROVE  ChargeInv'
<1> USE DEF ChargeInv
<1>0. PICK n \in Entries :
        \/ \E e \in Employees, m \in Months, j \in Jobs \cup {"indirect"} :
              CreateEntry(n, e, m, j) \/ UpdateEntry(n, e, m, j)
        \/ RemoveEntry(n)
  BY DEF TimesheetNext
<1>1. ASSUME NEW e \in Employees, NEW m \in Months, NEW j \in Jobs \cup {"indirect"},
             CreateEntry(n, e, m, j)
      PROVE  ChargeInv'
  <2>1. Hour(e, m, j) \in Entry /\ Hour(e, m, j).run = "none"
    BY DEF Hour, Entry
  <2>2. timesheet' \in [Entries -> Entry \cup {NoEntry}] /\ HoursChargedOnce'
    BY <1>1, <2>1, OfEntry DEF CreateEntry
  <2>3. job' \in [Jobs -> Job] /\ ClockInv'
    BY <1>1, OfMoving DEF CreateEntry
  <2> QED
    BY <1>1, <2>2, <2>3 DEF CreateEntry, HoursTypeOK, Months
<1>2. ASSUME NEW e \in Employees, NEW m \in Months, NEW j \in Jobs \cup {"indirect"},
             UpdateEntry(n, e, m, j)
      PROVE  ChargeInv'
  <2>1. n \in Recorded /\ timesheet[n] \in Entry /\ timesheet[n].run = "none"
    BY <1>2, OpenEntry DEF UpdateEntry
  <2> DEFINE hour == [timesheet[n] EXCEPT !.employee = e, !.month = m, !.job = j]
  <2>2. hour \in Entry /\ hour.run = "none"
    BY <2>1 DEF Entry
  <2>3. timesheet' = [timesheet EXCEPT ![n] = hour]
    BY <1>2, <2>1 DEF UpdateEntry, HoursTypeOK, Entry
  <2>4. timesheet' \in [Entries -> Entry \cup {NoEntry}] /\ HoursChargedOnce'
    BY <1>2, <2>1, <2>2, <2>3, OfEntry DEF UpdateEntry
  <2>5. job' \in [Jobs -> Job] /\ ClockInv'
    BY <1>2, OfMoving DEF UpdateEntry
  <2> QED
    BY <1>2, <2>4, <2>5 DEF UpdateEntry, HoursTypeOK, Months
<1>3. CASE RemoveEntry(n)
  <2>1. n \in Recorded /\ timesheet[n].run = "none"
    BY <1>3, OpenEntry DEF RemoveEntry
  <2>2. NoEntry.at # "recorded"
    BY DEF NoEntry
  <2>3. timesheet' \in [Entries -> Entry \cup {NoEntry}] /\ HoursChargedOnce'
    BY <1>3, <2>1, <2>2, OfEntry DEF RemoveEntry
  <2>4. job' \in [Jobs -> Job] /\ ClockInv'
    BY <1>3, OfMoving DEF RemoveEntry
  <2> QED
    BY <1>3, <2>3, <2>4 DEF RemoveEntry, HoursTypeOK, Months
<1> QED
  BY <1>0, <1>1, <1>2, <1>3

(* Approval stamps hours no run had, and its rows count them. *)
LEMMA ApproveStep ==
    ASSUME ChargeInv, NEW r \in PayRuns, NEW rate \in [Employees -> Rates], ApprovePayRun(r, rate)
    PROVE  ChargeInv'
<1> USE DEF ChargeInv
<1> DEFINE HoursOf(e, j) ==
               Cardinality({n \in Absorbable(r) : timesheet[n].employee = e /\ timesheet[n].job = j})
<1>1. /\ payRun[r] \in PayRun /\ payRun[r].status = "DRAFT"
      /\ payRun' = [payRun EXCEPT ![r].status = "APPROVED"]
  BY DEF ApprovePayRun, HoursTypeOK
<1>2. /\ payRun' \in [PayRuns -> PayRun]
      /\ payRun'[r].status = "APPROVED"
      /\ payRun'[r].month = payRun[r].month /\ payRun'[r].lines = payRun[r].lines
      /\ \A s \in PayRuns : s # r => payRun'[s] = payRun[s]
  BY <1>1 DEF HoursTypeOK, PayRun, PostedRunStatuses
<1>3. ASSUME NEW n \in Absorbable(r)
      PROVE  /\ n \in Recorded /\ n \in Entries /\ timesheet[n] \in Entry
             /\ timesheet[n].run = "none" /\ timesheet[n].month = payRun[r].month
             /\ timesheet[n].employee \in payRun[r].lines
             /\ timesheet'[n] = [timesheet[n] EXCEPT !.run = r]
  BY DEF Absorbable, Unpaid, Recorded, HoursTypeOK, NoEntry, ApprovePayRun
<1>4. \A n \in Entries \ Absorbable(r) : timesheet'[n] = timesheet[n]
  BY DEF ApprovePayRun
<1>5. /\ timesheet' \in [Entries -> Entry \cup {NoEntry}]
      /\ Recorded' = Recorded
  <2>1. ASSUME NEW n \in Entries
        PROVE  timesheet'[n] \in Entry \cup {NoEntry} /\ timesheet'[n].at = timesheet[n].at
    <3>1. CASE n \in Absorbable(r)
      <4>1. [timesheet[n] EXCEPT !.run = r] \in Entry
        BY <1>3, <3>1 DEF Entry
      <4> QED
        BY <1>3, <3>1, <4>1 DEF Entry
    <3>2. CASE n \notin Absorbable(r)
      BY <1>4, <3>2 DEF HoursTypeOK
    <3> QED
      BY <3>1, <3>2
  <2>2. timesheet' = [n \in Entries |-> timesheet'[n]]
    BY DEF ApprovePayRun
  <2> QED
    BY <2>1, <2>2 DEF Recorded
<1>6. ASSUME NEW n \in Recorded, timesheet[n].run = r
      PROVE  FALSE
  BY <1>1, <1>6, JobCostingAssumption DEF HoursChargedOnce, StampsArePosted, PostedRunStatuses
<1>7. StampsArePosted'
  <2> SUFFICES ASSUME NEW n \in Recorded, timesheet'[n].run # "none"
               PROVE  LET s == payRun'[timesheet'[n].run]
                      IN  /\ s.status \in PostedRunStatuses
                          /\ s.month = timesheet'[n].month
                          /\ timesheet'[n].employee \in s.lines
    BY <1>5 DEF StampsArePosted
  <2>1. CASE n \in Absorbable(r)
    BY <1>2, <1>3, <2>1 DEF Entry, PostedRunStatuses
  <2>2. CASE n \notin Absorbable(r)
    <3>1. timesheet'[n] = timesheet[n] /\ timesheet[n] \in Entry
      BY <1>4, <2>2 DEF Recorded, HoursTypeOK, NoEntry
    <3>2. timesheet[n].run \in PayRuns /\ timesheet[n].run # r
      BY <1>6, <3>1 DEF Entry
    <3> QED
      BY <1>2, <3>1, <3>2 DEF HoursChargedOnce, StampsArePosted
  <2> QED
    BY <2>1, <2>2
<1>8. ASSUME NEW s \in PayRuns, NEW e, NEW j, s # r
      PROVE  Stamped(s, e, j)' = Stamped(s, e, j)
  <2>1. ASSUME NEW n \in Recorded
        PROVE  n \in Stamped(s, e, j)' <=> n \in Stamped(s, e, j)
    <3>1. CASE n \in Absorbable(r)
      BY <1>3, <1>5, <1>8, <3>1, JobCostingAssumption DEF Stamped, Entry
    <3>2. CASE n \notin Absorbable(r)
      BY <1>4, <1>5, <3>2 DEF Stamped, Recorded
    <3> QED
      BY <3>1, <3>2
  <2> QED
    BY <1>5, <2>1 DEF Stamped
<1>9. ASSUME NEW e, NEW j
      PROVE  Stamped(r, e, j)' =
                 {n \in Absorbable(r) : timesheet[n].employee = e /\ timesheet[n].job = j}
  <2>1. ASSUME NEW n \in Recorded
        PROVE  n \in Stamped(r, e, j)' <=>
                   n \in Absorbable(r) /\ timesheet[n].employee = e /\ timesheet[n].job = j
    <3>1. CASE n \in Absorbable(r)
      BY <1>3, <1>5, <3>1 DEF Stamped, Entry
    <3>2. CASE n \notin Absorbable(r)
      BY <1>4, <1>5, <1>6, <3>2 DEF Stamped, Recorded
    <3> QED
      BY <3>1, <3>2
  <2> QED
    BY <1>3, <1>5, <2>1 DEF Stamped
<1>10. ASSUME NEW w \in Charges(r, rate)
       PROVE  w \in LabourRow /\ w.run = r /\ w.hours = HoursOf(w.employee, w.job)
  <2>1. PICK e \in payRun[r].lines, j \in Jobs : w = Charge(r, e, j, HoursOf(e, j), rate[e])
    BY <1>10 DEF Charges
  <2>2. HoursOf(e, j) \in Nat
    <3>1. {n \in Absorbable(r) : timesheet[n].employee = e /\ timesheet[n].job = j} \subseteq Entries
      BY <1>3
    <3> QED
      BY <3>1, CountIsNat
  <2>3. e \in Employees /\ rate[e] \in Nat
    BY <1>1, JobCostingAssumption DEF PayRun
  <2> HIDE DEF HoursOf
  <2>4. HoursOf(e, j) * rate[e] \in Nat
    BY <2>2, <2>3
  <2>5. w \in LabourRow /\ w.run = r /\ w.employee = e /\ w.job = j /\ w.hours = HoursOf(e, j)
    BY <2>1, <2>2, <2>3, <2>4 DEF Charge, AccountFor, LabourRow
  <2> QED
    BY <2>5
<1>11. labour' = labour \cup Charges(r, rate)
  BY DEF ApprovePayRun
<1>12. RowsCountStamps'
  <2> SUFFICES ASSUME NEW w \in labour'
               PROVE  /\ payRun'[w.run].status \in PostedRunStatuses
                      /\ w.hours = Cardinality(Stamped(w.run, w.employee, w.job)')
    BY DEF RowsCountStamps
  <2>1. CASE w \in labour
    <3>1. w.run \in PayRuns /\ w.run # r
      BY <1>1, <2>1 DEF HoursTypeOK, LabourRow, HoursChargedOnce, RowsCountStamps, PostedRunStatuses
    <3> QED
      BY <1>2, <1>8, <2>1, <3>1 DEF HoursChargedOnce, RowsCountStamps
  <2>2. CASE w \in Charges(r, rate)
    BY <1>2, <1>9, <1>10, <2>2 DEF PostedRunStatuses
  <2> QED
    BY <1>11, <2>1, <2>2
<1>13. labour' \subseteq LabourRow
  BY <1>10, <1>11 DEF HoursTypeOK
<1>14. UNCHANGED <<month, job>>
  BY DEF ApprovePayRun
<1> QED
  BY <1>2, <1>5, <1>7, <1>12, <1>13, <1>14 DEF HoursTypeOK, Months, ClockInv, HoursChargedOnce

(* A void takes the stamps and the rows of its run away, and no others. *)
LEMMA VoidStep ==
    ASSUME ChargeInv, NEW r \in PayRuns, VoidPayRun(r)
    PROVE  ChargeInv'
<1> USE DEF ChargeInv
<1>1. /\ payRun' \in [PayRuns -> PayRun]
      /\ \A s \in PayRuns : s # r => payRun'[s] = payRun[s]
  BY DEF VoidPayRun, HoursTypeOK, PayRun
<1>2. labour' = {w \in labour : w.run # r}
  BY DEF VoidPayRun
<1>3. ASSUME NEW n \in Entries
      PROVE  /\ timesheet'[n] \in Entry \cup {NoEntry}
             /\ timesheet'[n].at = timesheet[n].at
             /\ n \in Recorded =>
                    timesheet'[n] = IF timesheet[n].run = r
                                    THEN [timesheet[n] EXCEPT !.run = "none"] ELSE timesheet[n]
  <2>1. CASE n \in Recorded /\ timesheet[n].run = r
    <3>1. timesheet[n] \in Entry
      BY <2>1 DEF HoursTypeOK, Recorded, NoEntry
    <3>2. timesheet'[n] = [timesheet[n] EXCEPT !.run = "none"]
      BY <2>1 DEF VoidPayRun
    <3>3. [timesheet[n] EXCEPT !.run = "none"] \in Entry
      BY <3>1 DEF Entry
    <3> QED
      BY <2>1, <3>1, <3>2, <3>3 DEF Entry
  <2>2. CASE ~ (n \in Recorded /\ timesheet[n].run = r)
    BY <2>2 DEF VoidPayRun, HoursTypeOK
  <2> QED
    BY <2>1, <2>2
<1>4. timesheet' \in [Entries -> Entry \cup {NoEntry}] /\ Recorded' = Recorded
  <2>1. timesheet' = [n \in Entries |-> timesheet'[n]]
    BY DEF VoidPayRun
  <2> QED
    BY <1>3, <2>1 DEF Recorded
<1>5. ASSUME NEW n \in Recorded
      PROVE  /\ n \in Entries /\ timesheet[n] \in Entry /\ timesheet'[n] \in Entry
             /\ timesheet'[n].employee = timesheet[n].employee
             /\ timesheet'[n].month = timesheet[n].month /\ timesheet'[n].job = timesheet[n].job
             /\ timesheet'[n].run = IF timesheet[n].run = r THEN "none" ELSE timesheet[n].run
  <2>1. n \in Entries /\ timesheet[n] \in Entry
    BY DEF HoursTypeOK, Recorded, NoEntry
  <2> QED
    BY <1>3, <2>1 DEF Entry
<1>6. StampsArePosted'
  <2> SUFFICES ASSUME NEW n \in Recorded, timesheet'[n].run # "none"
               PROVE  LET s == payRun'[timesheet'[n].run]
                      IN  /\ s.status \in PostedRunStatuses
                          /\ s.month = timesheet'[n].month
                          /\ timesheet'[n].employee \in s.lines
    BY <1>4 DEF StampsArePosted
  <2>1. timesheet[n].run \in PayRuns \ {r} /\ timesheet'[n].run = timesheet[n].run
    BY <1>5 DEF Entry
  <2> QED
    BY <1>1, <1>5, <2>1, JobCostingAssumption DEF HoursChargedOnce, StampsArePosted
<1>7. ASSUME NEW s \in PayRuns, NEW e, NEW j, s # r
      PROVE  Stamped(s, e, j)' = Stamped(s, e, j)
  BY <1>4, <1>5, <1>7, JobCostingAssumption DEF Stamped
<1>8. RowsCountStamps'
  <2> SUFFICES ASSUME NEW w \in labour'
               PROVE  /\ payRun'[w.run].status \in PostedRunStatuses
                      /\ w.hours = Cardinality(Stamped(w.run, w.employee, w.job)')
    BY DEF RowsCountStamps
  <2>1. w \in labour /\ w.run \in PayRuns /\ w.run # r
    BY <1>2 DEF HoursTypeOK, LabourRow
  <2> QED
    BY <1>1, <1>7, <2>1 DEF HoursChargedOnce, RowsCountStamps
<1>9. labour' \subseteq LabourRow /\ UNCHANGED <<month, job>>
  BY <1>2 DEF VoidPayRun, HoursTypeOK
<1> QED
  BY <1>1, <1>4, <1>6, <1>8, <1>9 DEF HoursTypeOK, Months, ClockInv, HoursChargedOnce

LEMMA PayrollStep ==
    ASSUME ChargeInv, PayrollNext
    PROVE  ChargeInv'
<1> USE DEF ChargeInv
<1>0. PICK r \in PayRuns :
        \/ \E lines \in SUBSET Employees :
              RefreshPayRun(r, lines) \/ \E m \in Months : CreatePayRun(r, m, lines)
        \/ \E rate \in [Employees -> Rates] : ApprovePayRun(r, rate)
        \/ RemovePayRun(r) \/ VoidPayRun(r)
        \/ \E status \in {"PARTIALLY_PAID", "PAID"} : PayPayRun(r, status)
  BY DEF PayrollNext
<1>r. payRun[r] \in PayRun
  BY DEF HoursTypeOK
<1>1. ASSUME NEW lines \in SUBSET Employees, RefreshPayRun(r, lines)
      PROVE  ChargeInv'
  <2> DEFINE to == [payRun[r] EXCEPT !.lines = lines]
  <2>1. payRun' = [payRun EXCEPT ![r] = to]
    BY <1>1, <1>r DEF RefreshPayRun, HoursTypeOK, PayRun
  <2>2. to \in PayRun /\ payRun[r].status \notin PostedRunStatuses
    BY <1>1, <1>r DEF RefreshPayRun, PayRun, PostedRunStatuses
  <2>3. payRun' \in [PayRuns -> PayRun] /\ HoursChargedOnce'
    BY <1>1, <2>1, <2>2, OfRun DEF RefreshPayRun
  <2> QED
    BY <1>1, <2>3 DEF RefreshPayRun, HoursTypeOK, Months, ClockInv
<1>2. ASSUME NEW lines \in SUBSET Employees, NEW m \in Months, CreatePayRun(r, m, lines)
      PROVE  ChargeInv'
  <2> DEFINE to == [status |-> "DRAFT", month |-> m, lines |-> lines]
  <2>1. to \in PayRun /\ payRun[r].status \notin PostedRunStatuses
    BY <1>2, JobCostingAssumption DEF CreatePayRun, PayRun, PostedRunStatuses, Months
  <2>2. payRun' \in [PayRuns -> PayRun] /\ HoursChargedOnce'
    BY <1>2, <2>1, OfRun DEF CreatePayRun
  <2> QED
    BY <1>2, <2>2 DEF CreatePayRun, HoursTypeOK, Months, ClockInv
<1>3. CASE RemovePayRun(r)
  <2>1. NoPayRun \in PayRun /\ payRun[r].status \notin PostedRunStatuses
    BY <1>3 DEF RemovePayRun, NoPayRun, PayRun, PostedRunStatuses
  <2>2. payRun' \in [PayRuns -> PayRun] /\ HoursChargedOnce'
    BY <1>3, <2>1, OfRun DEF RemovePayRun
  <2> QED
    BY <1>3, <2>2 DEF RemovePayRun, HoursTypeOK, Months, ClockInv
<1>4. ASSUME NEW status \in {"PARTIALLY_PAID", "PAID"}, PayPayRun(r, status)
      PROVE  ChargeInv'
  <2> DEFINE to == [payRun[r] EXCEPT !.status = status]
  <2>1. payRun' = [payRun EXCEPT ![r] = to]
    BY <1>4, <1>r DEF PayPayRun, HoursTypeOK, PayRun
  <2>2. to \in PayRun /\ to.status \in PostedRunStatuses /\ to.month = payRun[r].month
          /\ to.lines = payRun[r].lines
    BY <1>r DEF PayRun, PostedRunStatuses
  <2>3. payRun' \in [PayRuns -> PayRun] /\ HoursChargedOnce'
    BY <1>4, <2>1, <2>2, OfRun DEF PayPayRun
  <2> QED
    BY <1>4, <2>3 DEF PayPayRun, HoursTypeOK, Months, ClockInv
<1> QED
  BY <1>0, <1>1, <1>2, <1>3, <1>4, ApproveStep, VoidStep

--------------------------------------------------------------------------------

LEMMA StepCharge == ChargeInv /\ [CostingNext]_costingVars => ChargeInv'
<1> SUFFICES ASSUME ChargeInv, [CostingNext]_costingVars PROVE ChargeInv'
  OBVIOUS
<1>1. CASE NextMonth
  <2>1. month' \in Months
    BY <1>1, JobCostingAssumption DEF NextMonth, ChargeInv, HoursTypeOK, Months
  <2> QED
    BY <1>1, <2>1, OfNothing DEF NextMonth, ChargeInv, HoursTypeOK, Months, ClockInv
<1>2. CASE JobNext
  BY <1>2, JobStep DEF JobNext
<1>3. CASE UNCHANGED costingVars
  BY <1>3, OfNothing DEF costingVars, ChargeInv, HoursTypeOK, Months, ClockInv
<1> QED
  BY <1>1, <1>2, <1>3, FloorStep, TimesheetStep, PayrollStep DEF CostingNext

(* The types of jobs, entries, runs and rows of labour, and that a clock that *)
(* runs always has somebody to write its hours for.                           *)
THEOREM CostingTypesHold == CostingSpec => [](HoursTypeOK /\ ClockInv)
<1>1. ChargeInv => HoursTypeOK /\ ClockInv
  BY DEF ChargeInv
<1> QED
  BY InitCharge, StepCharge, <1>1, PTL DEF CostingSpec

(* However clocks, timesheet writes, approvals and voids interleave, the run  *)
(* stamped on an hour is posted and paid its employee for its month, and a    *)
(* row of labour counts the hours stamped for it.                             *)
THEOREM HoursAreChargedOnce == CostingSpec => []HoursChargedOnce
<1>1. ChargeInv => HoursChargedOnce
  BY DEF ChargeInv
<1> QED
  BY InitCharge, StepCharge, <1>1, PTL DEF CostingSpec

--------------------------------------------------------------------------------
(* Amounts *)

LEMMA AmountType ==
    ASSUME NEW S \in SUBSET LabourRow, IsFiniteSet(S)
    PROVE  Amount(S) \in Nat
<1>1. \A w \in S : w.amount \in Nat
  BY DEF LabourRow
<1>2. [w \in S |-> w.amount] \in [S -> Nat]
  BY <1>1
<1>3. \A f \in [S -> Nat] : SumFunction(f) \in Nat
  BY SumOfNat
<1> QED
  BY <1>2, <1>3 DEF Amount

LEMMA AmountOfNone == Amount({}) = 0
<1>1. DOMAIN [w \in {} |-> w.amount] = {}
  OBVIOUS
<1> QED
  BY <1>1, SumEmpty DEF Amount

(* Two parts of the rows come to what the rows come to. *)
LEMMA AmountParts ==
    ASSUME NEW S \in SUBSET LabourRow, IsFiniteSet(S), NEW T \in SUBSET S
    PROVE  /\ Amount(S) = Amount(S \ T) + Amount(T)
           /\ Amount(S \ T) \in Nat /\ Amount(T) \in Nat
<1>0. IsFiniteSet(T) /\ IsFiniteSet(S \ T)
  BY FS_Subset
<1>1. Amount(S \ T) \in Nat /\ Amount(T) \in Nat
  BY <1>0, AmountType
<1>2. \A f, g, h \in [S -> Int] :
          (\A x \in S : h[x] = f[x] + g[x]) => SumFunction(h) = SumFunction(f) + SumFunction(g)
  BY SumAdd
<1>3. \A U \in SUBSET S : \A f \in [S -> Int], g \in [U -> Int] :
          (\A x \in U : f[x] = g[x]) /\ (\A x \in S \ U : f[x] = 0) => SumFunction(f) = SumFunction(g)
  BY SumOfPart
<1>4. \A w \in S : w.amount \in Int
  BY DEF LabourRow
<1>5. PICK h \in [S -> Int] : h = [w \in S |-> w.amount]
  BY <1>4
<1>6. PICK f \in [S -> Int] : \A w \in S : f[w] = IF w \in T THEN 0 ELSE h[w]
  <2>1. [w \in S |-> IF w \in T THEN 0 ELSE h[w]] \in [S -> Int]
    OBVIOUS
  <2> QED
    BY <2>1
<1>7. PICK g \in [S -> Int] : \A w \in S : g[w] = IF w \in T THEN h[w] ELSE 0
  <2>1. [w \in S |-> IF w \in T THEN h[w] ELSE 0] \in [S -> Int]
    OBVIOUS
  <2> QED
    BY <2>1
<1>8. SumFunction(h) = SumFunction(f) + SumFunction(g)
  <2>1. \A x \in S : h[x] = f[x] + g[x]
    BY <1>4, <1>5, <1>6, <1>7
  <2> QED
    BY <1>2, <2>1
<1>9. SumFunction(g) = Amount(T)
  <2>1. PICK u \in [T -> Int] : u = [w \in T |-> w.amount]
    BY <1>4
  <2>2. (\A x \in T : g[x] = u[x]) /\ (\A x \in S \ T : g[x] = 0)
    BY <1>5, <1>7, <2>1
  <2>3. SumFunction(g) = SumFunction(u)
    BY <1>3, <2>2
  <2> QED
    BY <2>1, <2>3 DEF Amount
<1>10. SumFunction(f) = Amount(S \ T)
  <2> DEFINE R == S \ T
  <2>1. R \in SUBSET S /\ \A x \in S : x \in T <=> x \notin R
    OBVIOUS
  <2> HIDE DEF R
  <2>2. PICK u \in [R -> Int] : u = [w \in R |-> w.amount]
    BY <1>4, <2>1
  <2>3. (\A x \in R : f[x] = u[x]) /\ (\A x \in S \ R : f[x] = 0)
    BY <1>5, <1>6, <2>1, <2>2
  <2>4. SumFunction(f) = SumFunction(u)
    BY <1>3, <2>1, <2>3
  <2> QED
    BY <2>2, <2>4 DEF Amount, R
<1> QED
  BY <1>1, <1>5, <1>8, <1>9, <1>10 DEF Amount

LEMMA AmountOfBoth ==
    ASSUME NEW S \in SUBSET LabourRow, IsFiniteSet(S), NEW T \in SUBSET LabourRow, IsFiniteSet(T),
           S \cap T = {}
    PROVE  /\ Amount(S \cup T) = Amount(S) + Amount(T)
           /\ Amount(S) \in Nat /\ Amount(T) \in Nat
<1>1. /\ S \cup T \in SUBSET LabourRow /\ IsFiniteSet(S \cup T)
      /\ T \in SUBSET (S \cup T) /\ (S \cup T) \ T = S
  BY FS_Union
<1>2. \A U \in SUBSET LabourRow : IsFiniteSet(U) => \A V \in SUBSET U :
          Amount(U) = Amount(U \ V) + Amount(V) /\ Amount(U \ V) \in Nat /\ Amount(V) \in Nat
  BY AmountParts
<1> QED
  BY <1>1, <1>2

Cleared(rows, to) == {[w EXCEPT !.clearedTo = to] : w \in rows}

(* Clearing rows changes none of their amounts. *)
LEMMA AmountOfCleared ==
    ASSUME NEW S \in SUBSET LabourRow, IsFiniteSet(S), \A w \in S : w.clearedTo = "none",
           NEW to \in {"COGS", "EXPENSE"}
    PROVE  /\ Cleared(S, to) \in SUBSET LabourRow /\ IsFiniteSet(Cleared(S, to))
           /\ Amount(Cleared(S, to)) = Amount(S)
<1> DEFINE h == [w \in S |-> [w EXCEPT !.clearedTo = to]]
           C == Cleared(S, to)
<1>1. \A w \in S : /\ h[w] = [w EXCEPT !.clearedTo = to] /\ h[w] \in LabourRow
                   /\ h[w].amount = w.amount /\ w.amount \in Int
  BY DEF LabourRow
<1>2. C = {h[w] : w \in S}
  BY <1>1 DEF Cleared
<1>3. \A v, w \in S : h[v] = h[w] => v = w
  <2> SUFFICES ASSUME NEW v \in S, NEW w \in S, h[v] = h[w] PROVE v = w
    OBVIOUS
  <2>1. v \in LabourRow /\ w \in LabourRow /\ v.clearedTo = "none" /\ w.clearedTo = "none"
    OBVIOUS
  <2>2. [v EXCEPT !.clearedTo = to] = [w EXCEPT !.clearedTo = to]
    BY <1>1
  <2>3. /\ v.job = w.job /\ v.employee = w.employee /\ v.run = w.run /\ v.hours = w.hours
        /\ v.amount = w.amount /\ v.account = w.account /\ v.clearedTo = w.clearedTo
    BY <2>1, <2>2 DEF LabourRow
  <2> QED
    BY <2>1, <2>3 DEF LabourRow
<1>4. h \in Surjection(S, C)
  <2>1. h \in [S -> C] /\ \A c \in C : \E w \in S : h[w] = c
    BY <1>2
  <2> QED
    BY <2>1 DEF Surjection
<1>5. C \in SUBSET LabourRow
  BY <1>1, <1>2
<1> HIDE DEF h, C
<1>6. IsFiniteSet(C)
  BY <1>4, FS_Surjection
<1>7. \A u \in [S -> Int], v \in [{h[x] : x \in S} -> Int] :
          (\A x \in S : v[h[x]] = u[x]) => SumFunction(v) = SumFunction(u)
  BY <1>3, SumRename
<1>8. PICK u \in [S -> Int] : u = [w \in S |-> w.amount]
  BY <1>1
<1>9. PICK v \in [C -> Int] : v = [w \in C |-> w.amount]
  <2>1. \A w \in C : w.amount \in Int
    BY <1>5 DEF LabourRow
  <2> QED
    BY <2>1
<1>10. \A x \in S : v[h[x]] = u[x]
  <2>1. \A x \in S : h[x] \in C
    BY <1>2
  <2> QED
    BY <1>1, <1>8, <1>9, <2>1
<1>11. SumFunction(v) = SumFunction(u)
  BY <1>2, <1>7, <1>10
<1> QED
  BY <1>5, <1>6, <1>8, <1>9, <1>11 DEF Amount, C

--------------------------------------------------------------------------------
(* The accounts *)

(* Nothing of a job that is over waits in work in progress, and no run charges *)
(* an employee's hours on a job twice.                                         *)
IsOver(j) == job[j].status \in {"COMPLETE", "CANCELLED"}
LabourInv ==
    /\ IsFiniteSet(labour)
    /\ \A v, w \in labour :
          v.job = w.job /\ v.employee = w.employee /\ v.run = w.run => v = w
    /\ \A w \in labour : IsOver(w.job) => ~ (w.account = "WIP" /\ w.clearedTo = "none")

(* What the accounts say of one job. *)
TellsJob(j) ==
    /\ wip[j] = (IF IsOver(j) THEN 0 ELSE job[j].value + Amount(InWip(RowsOn(labour, j))))
    /\ cogs[j] = (IF job[j].status = "COMPLETE" THEN job[j].value ELSE 0)
                   + Amount(InCogs(RowsOn(labour, j)))
    /\ absorbed[j] = Amount({w \in RowsOn(labour, j) : w.clearedTo # "EXPENSE"})

AccountsInv ==
    /\ wip \in [Jobs -> Int] /\ cogs \in [Jobs -> Int] /\ absorbed \in [Jobs -> Int]
    /\ \A j \in Jobs : job[j].issued = 0 => job[j].value = 0
    /\ \A j \in Jobs : TellsJob(j)

Cost == [actual : Nat, provisional : Nat, unlinked : Nat]
CostInv == jobCost \in [Jobs -> Cost] /\ CostTellsLabour

BooksInv == ChargeInv /\ LabourInv /\ AccountsInv
CostingInv == BooksInv /\ CostInv

LEMMA TellsEachJob == AccountsInv => AccountsTellJobs
BY DEF AccountsInv, AccountsTellJobs, TellsJob, IsOver

LEMMA InitBooks == CostingInit => LabourInv /\ AccountsInv /\ CostInv
<1> SUFFICES ASSUME CostingInit PROVE LabourInv /\ AccountsInv /\ CostInv
  OBVIOUS
<1>1. LabourInv
  BY FS_EmptySet DEF CostingInit, LabourInv
<1>2. \A j \in Jobs : /\ job[j].status = "PLANNED" /\ job[j].value = 0 /\ job[j].issued = 0
                      /\ wip[j] = 0 /\ cogs[j] = 0 /\ absorbed[j] = 0
  BY DEF CostingInit, NewJob
<1>3. ASSUME NEW j \in Jobs PROVE TellsJob(j)
  <2>1. /\ InWip(RowsOn(labour, j)) = {} /\ InCogs(RowsOn(labour, j)) = {}
        /\ {w \in RowsOn(labour, j) : w.clearedTo # "EXPENSE"} = {}
    BY DEF CostingInit, InWip, InCogs, RowsOn
  <2> QED
    BY <1>2, <2>1, AmountOfNone DEF TellsJob, IsOver
<1>4. wip \in [Jobs -> Int] /\ cogs \in [Jobs -> Int] /\ absorbed \in [Jobs -> Int]
  BY DEF CostingInit
<1>5. jobCost \in [Jobs -> Cost]
  BY DEF CostingInit, Cost
<1> QED
  BY <1>1, <1>2, <1>3, <1>4, <1>5 DEF AccountsInv, CostInv, CostTellsLabour

(* The rows of a job, sorted by where their amounts sit. *)
LEMMA RowsOfJob ==
    ASSUME NEW rows \in SUBSET LabourRow, IsFiniteSet(rows), NEW j
    PROVE  /\ RowsOn(rows, j) \in SUBSET LabourRow /\ IsFiniteSet(RowsOn(rows, j))
           /\ InWip(RowsOn(rows, j)) \in SUBSET RowsOn(rows, j)
           /\ InCogs(RowsOn(rows, j)) \in SUBSET RowsOn(rows, j)
           /\ IsFiniteSet(InWip(RowsOn(rows, j))) /\ IsFiniteSet(InCogs(RowsOn(rows, j)))
           /\ IsFiniteSet({w \in RowsOn(rows, j) : w.clearedTo # "EXPENSE"})
<1>1. RowsOn(rows, j) \in SUBSET rows
  BY DEF RowsOn
<1>2. IsFiniteSet(RowsOn(rows, j))
  BY <1>1, FS_Subset
<1>3. /\ InWip(RowsOn(rows, j)) \in SUBSET RowsOn(rows, j)
      /\ InCogs(RowsOn(rows, j)) \in SUBSET RowsOn(rows, j)
      /\ {w \in RowsOn(rows, j) : w.clearedTo # "EXPENSE"} \in SUBSET RowsOn(rows, j)
  BY DEF InWip, InCogs
<1> QED
  BY <1>1, <1>2, <1>3, FS_Subset

(* A step that moves neither the rows of labour nor the accounts, nor the     *)
(* material of a job nor what becomes of it.                                  *)
LEMMA BooksOfJobs ==
    ASSUME BooksInv, UNCHANGED <<labour, accountVars>>,
           \A j \in Jobs : /\ job'[j].value = job[j].value
                           /\ job'[j].issued = 0 => job[j].issued = 0
                           /\ (job'[j].status = "COMPLETE") <=> (job[j].status = "COMPLETE")
                           /\ (job'[j].status = "CANCELLED") <=> (job[j].status = "CANCELLED")
    PROVE  LabourInv' /\ AccountsInv'
<1>1. \A w \in labour : w.job \in Jobs
  BY DEF BooksInv, ChargeInv, HoursTypeOK, LabourRow
<1>2. LabourInv'
  BY <1>1 DEF BooksInv, LabourInv, IsOver
<1>3. ASSUME NEW j \in Jobs PROVE TellsJob(j)'
  BY DEF BooksInv, AccountsInv, TellsJob, IsOver, accountVars
<1> QED
  BY <1>2, <1>3 DEF BooksInv, AccountsInv, accountVars

(* Material goes to a job that is open, or comes back. *)
LEMMA BooksOfMaterial ==
    ASSUME BooksInv, NEW j \in Jobs, ~ IsOver(j), NEW units \in Nat, NEW left \in Nat,
           units = 0 => left = 0, UNCHANGED <<labour, cogs, absorbed>>,
           job'[j].issued = units, job'[j].value = left,
           job'[j].status \notin {"COMPLETE", "CANCELLED"},
           \A k \in Jobs \ {j} : job'[k] = job[k],
           wip' = [wip EXCEPT ![j] = wip[j] + (left - job[j].value)]
    PROVE  LabourInv' /\ AccountsInv'
<1>1. \A w \in labour : w.job \in Jobs
  BY DEF BooksInv, ChargeInv, HoursTypeOK, LabourRow
<1>2. LabourInv'
  BY <1>1 DEF BooksInv, LabourInv, IsOver
<1>3. wip[j] \in Int /\ job[j].value \in Int
  BY DEF BooksInv, AccountsInv, ChargeInv, HoursTypeOK, Job
<1>4. wip[j] + (left - job[j].value) \in Int
  BY <1>3
<1>5. wip' \in [Jobs -> Int]
  BY <1>4 DEF BooksInv, AccountsInv
<1>6. ASSUME NEW k \in Jobs PROVE TellsJob(k)'
  <2>1. CASE k # j
    <3>1. wip'[k] = wip[k]
      BY <2>1 DEF BooksInv, AccountsInv
    <3>2. TellsJob(k) /\ job'[k] = job[k]
      BY <2>1 DEF BooksInv, AccountsInv
    <3> QED
      BY <3>1, <3>2 DEF TellsJob, IsOver
  <2>2. CASE k = j
    <3> DEFINE waiting == Amount(InWip(RowsOn(labour, j)))
    <3>1. waiting \in Int
      <4>1. InWip(RowsOn(labour, j)) \in SUBSET LabourRow /\ IsFiniteSet(InWip(RowsOn(labour, j)))
        BY RowsOfJob DEF BooksInv, LabourInv, ChargeInv, HoursTypeOK
      <4> QED
        BY <4>1, AmountType
    <3>2. TellsJob(j) /\ wip[j] = job[j].value + waiting
      BY DEF BooksInv, AccountsInv, TellsJob
    <3>3. wip'[j] = wip[j] + (left - job[j].value)
      BY DEF BooksInv, AccountsInv
    <3> HIDE DEF waiting
    <3>4. wip'[j] = left + waiting
      BY <1>3, <3>1, <3>2, <3>3
    <3> QED
      BY <2>2, <3>2, <3>4 DEF TellsJob, IsOver, waiting
  <2> QED
    BY <2>1, <2>2
<1>7. \A k \in Jobs : job'[k].issued = 0 => job'[k].value = 0
  BY DEF BooksInv, AccountsInv
<1> QED
  BY <1>2, <1>5, <1>6, <1>7 DEF BooksInv, AccountsInv

(* The rows a job has in work in progress are cleared, and the job is over. *)
LEMMA RowsOfClearing ==
    ASSUME BooksInv, NEW j \in Jobs, NEW to \in {"COGS", "EXPENSE"},
           labour' = (labour \ InWip(RowsOn(labour, j))) \cup Cleared(InWip(RowsOn(labour, j)), to)
    PROVE  /\ \A k \in Jobs \ {j} : RowsOn(labour', k) = RowsOn(labour, k)
           /\ RowsOn(labour', j) = (RowsOn(labour, j) \ InWip(RowsOn(labour, j)))
                                       \cup Cleared(InWip(RowsOn(labour, j)), to)
           /\ Cleared(InWip(RowsOn(labour, j)), to) \cap labour = {}
           /\ InWip(RowsOn(labour', j)) = {}
           /\ IsFiniteSet(labour')
           /\ \A v, w \in labour' :
                 v.job = w.job /\ v.employee = w.employee /\ v.run = w.run => v = w
<1> DEFINE moving == InWip(RowsOn(labour, j))
           C == Cleared(moving, to)
<1>0. labour \in SUBSET LabourRow /\ IsFiniteSet(labour)
  BY DEF BooksInv, LabourInv, ChargeInv, HoursTypeOK
<1>1. /\ moving \in SUBSET labour /\ IsFiniteSet(moving) /\ moving \in SUBSET LabourRow
      /\ \A w \in moving : w.job = j /\ w.clearedTo = "none" /\ w.account = "WIP"
  BY <1>0, FS_Subset DEF InWip, RowsOn
<1>2. C \in SUBSET LabourRow /\ IsFiniteSet(C)
  BY <1>1, AmountOfCleared
<1>3. ASSUME NEW c \in C
      PROVE  \E w \in moving : /\ c.job = j /\ c.employee = w.employee /\ c.run = w.run
                               /\ c.clearedTo = to /\ c = [w EXCEPT !.clearedTo = to]
  BY <1>1 DEF Cleared, LabourRow
<1>4. \A v, w \in labour : v.job = w.job /\ v.employee = w.employee /\ v.run = w.run => v = w
  BY DEF BooksInv, LabourInv
<1>5. C \cap labour = {}
  <2> SUFFICES ASSUME NEW c \in C, c \in labour PROVE FALSE
    OBVIOUS
  <2>1. PICK w \in moving : c.job = j /\ c.employee = w.employee /\ c.run = w.run /\ c.clearedTo = to
    BY <1>3
  <2> QED
    BY <1>1, <1>4, <2>1
<1>6. \A c \in C : c.job = j /\ c.clearedTo # "none"
  BY <1>3
<1> HIDE DEF C
<1>7. \A k \in Jobs \ {j} : RowsOn(labour', k) = RowsOn(labour, k)
  <2> SUFFICES ASSUME NEW k \in Jobs \ {j} PROVE RowsOn(labour', k) = RowsOn(labour, k)
    OBVIOUS
  <2>1. labour' = (labour \ moving) \cup C
    BY DEF C
  <2> HIDE DEF moving
  <2> QED
    BY <1>1, <1>6, <2>1 DEF RowsOn
<1>8. labour' = (labour \ moving) \cup C
  BY DEF C
<1>9. RowsOn(labour', j) = (RowsOn(labour, j) \ moving) \cup C
  <2> HIDE DEF moving
  <2> QED
    BY <1>1, <1>6, <1>8 DEF RowsOn
<1>10. InWip(RowsOn(labour', j)) = {}
  <2>1. \A w \in RowsOn(labour, j) \ moving : ~ (w.account = "WIP" /\ w.clearedTo = "none")
    BY DEF InWip
  <2> QED
    BY <1>6, <1>9, <2>1 DEF InWip
<1>11. IsFiniteSet(labour')
  BY <1>0, <1>2, <1>8, FS_Subset, FS_Union
<1>12. ASSUME NEW v \in labour', NEW w \in labour',
              v.job = w.job, v.employee = w.employee, v.run = w.run
       PROVE  v = w
  <2>1. \A c \in labour' : \E x \in labour :
           /\ c.job = x.job /\ c.employee = x.employee /\ c.run = x.run
           /\ c = IF x \in moving THEN [x EXCEPT !.clearedTo = to] ELSE x
    <3> SUFFICES ASSUME NEW c \in labour'
                 PROVE  \E x \in labour :
                          /\ c.job = x.job /\ c.employee = x.employee /\ c.run = x.run
                          /\ c = IF x \in moving THEN [x EXCEPT !.clearedTo = to] ELSE x
      OBVIOUS
    <3>1. CASE c \in C
      <4>1. PICK x \in moving : /\ c.job = j /\ c.employee = x.employee /\ c.run = x.run
                                /\ c = [x EXCEPT !.clearedTo = to]
        BY <1>3, <3>1 DEF C
      <4> QED
        BY <1>1, <4>1
    <3>2. CASE c \in labour \ moving
      BY <3>2
    <3> QED
      BY <1>8, <3>1, <3>2
  <2>2. PICK x \in labour : /\ v.job = x.job /\ v.employee = x.employee /\ v.run = x.run
                            /\ v = IF x \in moving THEN [x EXCEPT !.clearedTo = to] ELSE x
    BY <2>1
  <2>3. PICK y \in labour : /\ w.job = y.job /\ w.employee = y.employee /\ w.run = y.run
                            /\ w = IF y \in moving THEN [y EXCEPT !.clearedTo = to] ELSE y
    BY <2>1
  <2>4. x = y
    BY <1>4, <1>12, <2>2, <2>3
  <2> QED
    BY <2>2, <2>3, <2>4
<1> QED
  BY <1>5, <1>7, <1>9, <1>10, <1>11, <1>12 DEF C

(* What clearing does to the sums of the job. *)
LEMMA SumsOfClearing ==
    ASSUME NEW R \in SUBSET LabourRow, IsFiniteSet(R), NEW to \in {"COGS", "EXPENSE"},
           NEW M, M = InWip(R), Cleared(M, to) \cap R = {},
           NEW Q, Q = (R \ M) \cup Cleared(M, to)
    PROVE  LET kept(S) == {w \in S : w.clearedTo # "EXPENSE"} IN
           /\ Amount(M) \in Nat /\ Amount(InCogs(R)) \in Nat /\ Amount(kept(R)) \in Nat
           /\ Amount(InCogs(Q)) = Amount(InCogs(R)) + IF to = "COGS" THEN Amount(M) ELSE 0
           /\ Amount(kept(Q)) = Amount(kept(R)) - IF to = "COGS" THEN 0 ELSE Amount(M)
<1> DEFINE kept(S) == {w \in S : w.clearedTo # "EXPENSE"}
           C == Cleared(M, to)
           K == kept(R)
           G == InCogs(R)
<1>1. /\ M \in SUBSET R /\ IsFiniteSet(M) /\ M \in SUBSET LabourRow
      /\ \A w \in M : w.clearedTo = "none" /\ w.account = "WIP"
  BY FS_Subset DEF InWip
<1>2. C \in SUBSET LabourRow /\ IsFiniteSet(C) /\ Amount(C) = Amount(M)
  BY <1>1, AmountOfCleared
<1>3. \A c \in C : c.account = "WIP" /\ c.clearedTo = to
  BY <1>1 DEF Cleared, LabourRow
<1>4. /\ G \in SUBSET R /\ G \in SUBSET LabourRow /\ IsFiniteSet(G) /\ G \cap M = {}
  BY <1>1, FS_Subset DEF InCogs
<1>5. /\ K \in SUBSET R /\ K \in SUBSET LabourRow /\ IsFiniteSet(K) /\ M \in SUBSET K
  BY <1>1, FS_Subset
<1>6. /\ Amount(K) = Amount(K \ M) + Amount(M)
      /\ Amount(K \ M) \in Nat /\ Amount(M) \in Nat
  BY <1>5, AmountParts
<1>7. C \cap R = {} /\ Q = (R \ M) \cup C
  OBVIOUS
<1> HIDE DEF C
<1>8. Amount(G) \in Nat /\ Amount(K) \in Nat
  BY <1>4, <1>5, AmountType
<1>9. IsFiniteSet(K \ M) /\ K \ M \in SUBSET LabourRow
  BY <1>5, FS_Subset
<1>10. CASE to = "COGS"
  <2>1. InCogs(Q) = G \cup C
    BY <1>1, <1>3, <1>7, <1>10 DEF InCogs
  <2>2. G \cap C = {}
    BY <1>4, <1>7
  <2>3. kept(Q) = (K \ M) \cup C /\ (K \ M) \cap C = {}
    BY <1>1, <1>3, <1>7, <1>10
  <2>4. Amount(InCogs(Q)) = Amount(G) + Amount(M)
    <3> HIDE DEF G
    <3>1. Amount(G \cup C) = Amount(G) + Amount(C)
      BY <1>2, <1>4, <2>2, AmountOfBoth
    <3> QED
      BY <1>2, <2>1, <3>1
  <2>5. Amount(kept(Q)) = Amount(K)
    <3> DEFINE L == K \ M
    <3>1. kept(Q) = L \cup C /\ L \cap C = {} /\ L \in SUBSET LabourRow /\ IsFiniteSet(L)
            /\ Amount(L) \in Nat /\ Amount(K) = Amount(L) + Amount(M)
      BY <1>6, <1>9, <2>3
    <3> HIDE DEF L, K, kept
    <3>2. Amount(L \cup C) = Amount(L) + Amount(C)
      BY <1>2, <3>1, AmountOfBoth
    <3> QED
      BY <1>2, <3>1, <3>2
  <2> QED
    <3> HIDE DEF G, K
    <3>1. Amount(kept(Q)) = Amount(K) - 0
      BY <1>8, <2>5
    <3> QED
      BY <1>6, <1>8, <1>10, <2>4, <3>1 DEF G, K
<1>11. CASE to = "EXPENSE"
  <2>1. InCogs(Q) = G
    BY <1>1, <1>3, <1>7, <1>11 DEF InCogs
  <2>2. kept(Q) = K \ M
    BY <1>1, <1>3, <1>7, <1>11
  <2>3. Amount(kept(Q)) = Amount(K) - Amount(M)
    <3> DEFINE a == Amount(K)
               b == Amount(K \ M)
               c == Amount(M)
    <3>1. a \in Int /\ b \in Int /\ c \in Int /\ a = b + c
      <4> HIDE DEF K
      <4> QED
        BY <1>6, <1>8
    <3>3. Amount(kept(Q)) = b
      <4>1. \A S, T : S = T => Amount(S) = Amount(T)
        OBVIOUS
      <4> QED
        BY <2>2, <4>1
    <3> HIDE DEF a, b, c
    <3>2. b = a - c
      BY <3>1
    <3> QED
      BY <3>2, <3>3 DEF a, c
  <2>4. Amount(InCogs(Q)) = Amount(G) + 0
    BY <1>8, <2>1
  <2> QED
    BY <1>6, <1>8, <1>11, <2>3, <2>4
<1> QED
  BY <1>10, <1>11

(* A job is over: completed, with its material and labour in cost of sales,   *)
(* or cancelled, with its labour back in expense.                             *)
LEMMA BooksOfEnding ==
    ASSUME BooksInv, NEW j \in Jobs, ~ IsOver(j), NEW to \in {"COGS", "EXPENSE"}, NEW shifted,
           labour' = (labour \ InWip(RowsOn(labour, j))) \cup Cleared(InWip(RowsOn(labour, j)), to),
           shifted = Amount(InWip(RowsOn(labour, j))),
           to = "EXPENSE" => job[j].value = 0,
           job'[j].issued = job[j].issued, job'[j].value = job[j].value,
           job'[j].status = IF to = "COGS" THEN "COMPLETE" ELSE "CANCELLED",
           \A k \in Jobs \ {j} : job'[k] = job[k],
           wip' = [wip EXCEPT ![j] = @ - (job[j].value + shifted)],
           cogs' = IF to = "COGS" THEN [cogs EXCEPT ![j] = @ + (job[j].value + shifted)] ELSE cogs,
           absorbed' = IF to = "COGS" THEN absorbed ELSE [absorbed EXCEPT ![j] = @ - shifted]
    PROVE  LabourInv' /\ AccountsInv'
<1> DEFINE R == RowsOn(labour, j)
           M == InWip(R)
           Q == RowsOn(labour', j)
           kept(S) == {w \in S : w.clearedTo # "EXPENSE"}
<1>0. labour \in SUBSET LabourRow /\ IsFiniteSet(labour)
  BY DEF BooksInv, LabourInv, ChargeInv, HoursTypeOK
<1>1. /\ \A k \in Jobs \ {j} : RowsOn(labour', k) = RowsOn(labour, k)
      /\ Q = (R \ M) \cup Cleared(M, to) /\ Cleared(M, to) \cap labour = {}
      /\ InWip(Q) = {} /\ IsFiniteSet(labour')
      /\ \A v, w \in labour' :
            v.job = w.job /\ v.employee = w.employee /\ v.run = w.run => v = w
  BY RowsOfClearing
<1>2. R \in SUBSET LabourRow /\ IsFiniteSet(R) /\ R \subseteq labour
  <2>1. R \subseteq labour
    BY DEF RowsOn
  <2> QED
    BY <1>0, <2>1, FS_Subset
<1>3. Cleared(M, to) \cap R = {}
  BY <1>1, <1>2
<1>4. labour' \subseteq LabourRow
  <2>1. M \in SUBSET R /\ \A w \in M : w.clearedTo = "none"
    BY DEF InWip
  <2>2. M \in SUBSET LabourRow /\ IsFiniteSet(M)
    BY <1>2, <2>1, FS_Subset
  <2>3. Cleared(M, to) \subseteq LabourRow
    BY <2>1, <2>2, AmountOfCleared
  <2> QED
    BY <1>0, <2>3
<1>5. /\ Amount(M) \in Nat /\ Amount(InCogs(R)) \in Nat /\ Amount(kept(R)) \in Nat
      /\ Amount(InCogs(Q)) = Amount(InCogs(R)) + IF to = "COGS" THEN Amount(M) ELSE 0
      /\ Amount(kept(Q)) = Amount(kept(R)) - IF to = "COGS" THEN 0 ELSE Amount(M)
  <2> HIDE DEF R, Q
  <2>1. Q = (R \ M) \cup Cleared(M, to)
    BY <1>1
  <2> QED
    BY <1>2, <1>3, <2>1, SumsOfClearing
<1>6. LabourInv'
  <2>1. \A w \in labour' : w.job \in Jobs
    BY <1>4 DEF LabourRow
  <2>2. ASSUME NEW w \in labour', IsOver(w.job)'
        PROVE  ~ (w.account = "WIP" /\ w.clearedTo = "none")
    <3>1. CASE w.job = j
      <4>1. w \in Q
        BY <3>1 DEF RowsOn
      <4> QED
        BY <1>1, <4>1 DEF InWip
    <3>2. CASE w.job # j
      <4>1. w \in RowsOn(labour', w.job)
        BY DEF RowsOn
      <4>2. w \in labour
        BY <1>1, <2>1, <3>2, <4>1 DEF RowsOn
      <4>3. IsOver(w.job)
        BY <2>1, <2>2, <3>2 DEF IsOver
      <4> QED
        BY <4>2, <4>3 DEF BooksInv, LabourInv
    <3> QED
      BY <3>1, <3>2
  <2> QED
    BY <1>1, <2>2 DEF LabourInv
<1>7. /\ wip[j] = job[j].value + shifted /\ shifted = Amount(M) /\ job[j].value \in Nat
      /\ cogs[j] = Amount(InCogs(R)) /\ absorbed[j] = Amount(kept(R))
  <2>1. TellsJob(j) /\ job[j].value \in Nat
    BY DEF BooksInv, AccountsInv, ChargeInv, HoursTypeOK, Job
  <2>2. cogs[j] = 0 + Amount(InCogs(R))
    BY <2>1 DEF TellsJob, IsOver
  <2> QED
    BY <1>5, <2>1, <2>2 DEF TellsJob, IsOver
<1>8. /\ wip \in [Jobs -> Int] /\ cogs \in [Jobs -> Int] /\ absorbed \in [Jobs -> Int]
  BY DEF BooksInv, AccountsInv
<1> DEFINE g == Amount(InCogs(R))
           a == Amount(kept(R))
           v == job[j].value
<1>9. g \in Nat /\ a \in Nat /\ v \in Nat /\ shifted \in Nat
  BY <1>5, <1>7
<1>10. /\ Amount(InCogs(Q)) = g + IF to = "COGS" THEN shifted ELSE 0
       /\ Amount(kept(Q)) = a - IF to = "COGS" THEN 0 ELSE shifted
       /\ wip[j] = v + shifted /\ cogs[j] = g /\ absorbed[j] = a
  BY <1>5, <1>7
<1> HIDE DEF g, a
<1>11. /\ wip'[j] = 0
       /\ cogs'[j] = IF to = "COGS" THEN g + (v + shifted) ELSE g
       /\ absorbed'[j] = IF to = "COGS" THEN a ELSE a - shifted
       /\ \A k \in Jobs \ {j} : wip'[k] = wip[k] /\ cogs'[k] = cogs[k] /\ absorbed'[k] = absorbed[k]
  <2>1. wip'[j] = (v + shifted) - (v + shifted)
    BY <1>8, <1>10
  <2>2. wip'[j] = 0
    BY <1>9, <2>1
  <2>3. cogs'[j] = IF to = "COGS" THEN g + (v + shifted) ELSE g
    BY <1>8, <1>10
  <2>4. absorbed'[j] = IF to = "COGS" THEN a ELSE a - shifted
    BY <1>8, <1>10
  <2> QED
    BY <1>8, <2>2, <2>3, <2>4
<1>12. wip' \in [Jobs -> Int] /\ cogs' \in [Jobs -> Int] /\ absorbed' \in [Jobs -> Int]
  <2>1. /\ wip[j] - (v + shifted) \in Int /\ cogs[j] + (v + shifted) \in Int
        /\ absorbed[j] - shifted \in Int
    BY <1>9, <1>10
  <2> HIDE DEF v
  <2> QED
    BY <1>8, <2>1 DEF v
<1>13. ASSUME NEW k \in Jobs PROVE TellsJob(k)'
  <2>1. CASE k # j
    <3>1. /\ TellsJob(k) /\ job'[k] = job[k] /\ RowsOn(labour', k) = RowsOn(labour, k)
          /\ wip'[k] = wip[k] /\ cogs'[k] = cogs[k] /\ absorbed'[k] = absorbed[k]
      BY <1>1, <1>11, <2>1 DEF BooksInv, AccountsInv
    <3> QED
      BY <3>1 DEF TellsJob, IsOver
  <2>2. CASE k = j
    <3>1. cogs'[j] = (IF to = "COGS" THEN v ELSE 0) + Amount(InCogs(Q))
      <4>1. CASE to = "COGS"
        <5>1. g + (v + shifted) = v + (g + shifted)
          BY <1>9
        <5> QED
          BY <1>10, <1>11, <4>1, <5>1
      <4>2. CASE to # "COGS"
        <5>1. g = 0 + (g + 0)
          BY <1>9
        <5> QED
          BY <1>10, <1>11, <4>2, <5>1
      <4> QED
        BY <4>1, <4>2
    <3>2. absorbed'[j] = Amount(kept(Q))
      <4>1. a = a - 0
        BY <1>9
      <4> QED
        BY <1>10, <1>11, <4>1
    <3> QED
      BY <1>11, <2>2, <3>1, <3>2 DEF TellsJob, IsOver
  <2> QED
    BY <2>1, <2>2
<1>14. \A k \in Jobs : job'[k].issued = 0 => job'[k].value = 0
  BY DEF BooksInv, AccountsInv
<1> QED
  BY <1>6, <1>12, <1>13, <1>14 DEF AccountsInv

LEMMA BooksOfJobStep ==
    ASSUME BooksInv, JobNext
    PROVE  LabourInv' /\ AccountsInv'
<1>0. PICK j \in Jobs :
        \/ ReleaseJob(j) \/ CompleteJob(j) \/ CancelJob(j)
        \/ \E status \in {"RELEASED", "IN_PROGRESS"} : MoveColumn(j, status)
  BY DEF JobNext
<1>j. job \in [Jobs -> Job] /\ job[j] \in Job
  BY DEF BooksInv, ChargeInv, HoursTypeOK
<1>1. ASSUME NEW status \in {"RELEASED", "IN_PROGRESS"},
             (ReleaseJob(j) /\ status = "RELEASED") \/ MoveColumn(j, status)
      PROVE  LabourInv' /\ AccountsInv'
  <2>1. /\ job' = [job EXCEPT ![j].status = status] /\ UNCHANGED <<labour, accountVars>>
        /\ job[j].status \notin {"COMPLETE", "CANCELLED"}
    BY <1>1, <1>j DEF ReleaseJob, MoveColumn, CanMoveTo, WorkOrderTransitions, Job
  <2>2. \A k \in Jobs : /\ job'[k].value = job[k].value /\ job'[k].issued = job[k].issued
                        /\ k # j => job'[k].status = job[k].status
                        /\ k = j => job'[k].status = status
    BY <1>j, <2>1 DEF Job
  <2> QED
    BY <2>1, <2>2, BooksOfJobs
<1>2. CASE CompleteJob(j)
  <2> DEFINE moving == InWip(RowsOn(labour, j))
             shifted == Amount(moving)
  <2>1. /\ job[j].status \in {"RELEASED", "IN_PROGRESS"}
        /\ labour' = (labour \ moving) \cup Cleared(moving, "COGS")
        /\ wip' = [wip EXCEPT ![j] = @ - (job[j].value + shifted)]
        /\ cogs' = [cogs EXCEPT ![j] = @ + (job[j].value + shifted)]
        /\ absorbed' = absorbed
    BY <1>2, <1>j DEF CompleteJob, CanMoveTo, WorkOrderTransitions, Job, Cleared
  <2>2. /\ job'[j].issued = job[j].issued /\ job'[j].value = job[j].value
        /\ job'[j].status = "COMPLETE" /\ \A k \in Jobs \ {j} : job'[k] = job[k]
    BY <1>2, <1>j DEF CompleteJob, Job
  <2>3. ~ IsOver(j)
    BY <2>1 DEF IsOver
  <2> QED
    BY <2>1, <2>2, <2>3, BooksOfEnding
<1>3. CASE CancelJob(j)
  <2> DEFINE moving == InWip(RowsOn(labour, j))
             shifted == Amount(moving)
  <2>1. /\ job[j].status \in {"PLANNED", "RELEASED", "IN_PROGRESS"}
        /\ labour' = (labour \ moving) \cup Cleared(moving, "EXPENSE")
        /\ wip' = [wip EXCEPT ![j] = @ - shifted]
        /\ cogs' = cogs
        /\ absorbed' = [absorbed EXCEPT ![j] = @ - shifted]
    BY <1>3, <1>j DEF CancelJob, CanMoveTo, WorkOrderTransitions, Job, Cleared
  <2>2. /\ job'[j].issued = job[j].issued /\ job'[j].value = job[j].value
        /\ job'[j].status = "CANCELLED" /\ \A k \in Jobs \ {j} : job'[k] = job[k]
    BY <1>3, <1>j DEF CancelJob, Job
  <2>3. ~ IsOver(j)
    BY <2>1 DEF IsOver
  <2>4. job[j].value = 0
    BY <1>3 DEF CancelJob, BooksInv, AccountsInv
  <2>5. job[j].value + shifted = shifted
    <3>1. InWip(RowsOn(labour, j)) \in SUBSET LabourRow /\ IsFiniteSet(InWip(RowsOn(labour, j)))
      BY RowsOfJob DEF BooksInv, LabourInv, ChargeInv, HoursTypeOK
    <3>2. shifted \in Nat
      BY <3>1, AmountType
    <3> QED
      BY <2>4, <3>2
  <2> HIDE DEF shifted
  <2>6. wip' = [wip EXCEPT ![j] = @ - (job[j].value + shifted)]
    BY <2>1, <2>5
  <2> QED
    BY <2>1, <2>2, <2>3, <2>4, <2>6, BooksOfEnding DEF shifted
<1> QED
  BY <1>0, <1>1, <1>2, <1>3

LEMMA BooksOfFloorStep ==
    ASSUME BooksInv, FloorNext
    PROVE  LabourInv' /\ AccountsInv'
<1>0. PICK j \in Jobs :
        \/ job[j].issued < MaxIssued /\ \E cost \in UnitCosts : IssueToJob(j, cost)
        \/ ReturnFromJob(j)
        \/ \E finish \in BOOLEAN : \E h \in {0, 1} :
              job[j].hours + h <= MaxHours /\ StopOperation(j, finish, h)
        \/ \E e \in Employees : \/ StartOperation(j, e)
                                \/ job[j].hours < MaxHours /\ LogTime(j, e)
  BY DEF FloorNext
<1>j. job \in [Jobs -> Job] /\ job[j] \in Job /\ wip \in [Jobs -> Int]
  BY DEF BooksInv, ChargeInv, HoursTypeOK, AccountsInv
<1>v. job[j].value \in Nat /\ job[j].issued \in Nat
  BY <1>j DEF Job
<1>1. ASSUME NEW cost \in UnitCosts, IssueToJob(j, cost)
      PROVE  LabourInv' /\ AccountsInv'
  <2>1. /\ job'[j].issued = job[j].issued + 1 /\ job'[j].value = job[j].value + cost
        /\ job'[j].status = "IN_PROGRESS" /\ \A k \in Jobs \ {j} : job'[k] = job[k]
        /\ wip' = [wip EXCEPT ![j] = wip[j] + cost] /\ UNCHANGED <<labour, cogs, absorbed>>
    BY <1>1, <1>j DEF IssueToJob, Job
  <2>2. ~ IsOver(j)
    BY <1>1 DEF IssueToJob, OnTheFloor, IsOver
  <2> DEFINE units == job[j].issued + 1
             left == job[j].value + cost
  <2>3. units \in Nat /\ left \in Nat /\ units # 0 /\ left - job[j].value = cost
    <3>1. cost \in Nat
      BY JobCostingAssumption
    <3> QED
      BY <1>v, <3>1
  <2>4. wip' = [wip EXCEPT ![j] = wip[j] + (left - job[j].value)]
    <3> HIDE DEF left
    <3> QED
      BY <2>1, <2>3
  <2>5. job'[j].issued = units /\ job'[j].value = left
    BY <2>1
  <2> HIDE DEF units, left
  <2> QED
    BY <2>1, <2>2, <2>3, <2>4, <2>5, BooksOfMaterial
<1>2. CASE ReturnFromJob(j)
  <2> DEFINE share == IF job[j].issued = 1 THEN job[j].value
                      ELSE (2 * job[j].value + job[j].issued) \div (2 * job[j].issued)
             units == job[j].issued - 1
             left == job[j].value - share
  <2>1. /\ job'[j].issued = units /\ job'[j].value = left /\ job[j].issued > 0
        /\ job'[j].status = job[j].status /\ \A k \in Jobs \ {j} : job'[k] = job[k]
        /\ wip' = [wip EXCEPT ![j] = wip[j] - share] /\ UNCHANGED <<labour, cogs, absorbed>>
    BY <1>2, <1>j DEF ReturnFromJob, Job
  <2>2. ~ IsOver(j) /\ job[j].status \notin {"COMPLETE", "CANCELLED"}
    BY <1>2 DEF ReturnFromJob, OnTheFloor, IsOver
  <2>3. share \in 0..job[j].value
    <3>1. CASE job[j].issued = 1
      BY <1>v, <3>1
    <3>2. CASE job[j].issued > 1
      BY <1>v, <3>2, ShareBound
    <3> QED
      BY <1>v, <2>1, <3>1, <3>2
  <2>4. units \in Nat /\ left \in Nat /\ wip[j] - share = wip[j] + (left - job[j].value)
    <3>1. wip[j] \in Int
      BY <1>j
    <3> HIDE DEF share
    <3> QED
      BY <1>v, <2>1, <2>3, <3>1
  <2>5. units = 0 => left = 0
    <3>1. units = 0 => share = job[j].value
      BY <1>v
    <3> HIDE DEF share
    <3> QED
      BY <1>v, <3>1
  <2>6. wip' = [wip EXCEPT ![j] = wip[j] + (left - job[j].value)]
    BY <2>1, <2>4
  <2> HIDE DEF units, left, share
  <2> QED
    BY <2>1, <2>2, <2>4, <2>5, <2>6, BooksOfMaterial
<1>3. ASSUME NEW finish, NEW h, NEW e,
             StopOperation(j, finish, h) \/ StartOperation(j, e) \/ LogTime(j, e)
      PROVE  LabourInv' /\ AccountsInv'
  <2>1. /\ OnTheFloor(j) /\ UNCHANGED <<labour, accountVars>>
        /\ \A k \in Jobs \ {j} : job'[k] = job[k]
        /\ job'[j].value = job[j].value /\ job'[j].issued = job[j].issued
        /\ job'[j].status \in {job[j].status, "IN_PROGRESS"}
    <3>1. CASE StopOperation(j, finish, h)
      BY <1>j, <3>1 DEF StopOperation, Job
    <3>2. CASE StartOperation(j, e)
      BY <1>j, <3>2 DEF StartOperation, Job
    <3>3. CASE LogTime(j, e)
      BY <1>j, <3>3 DEF LogTime, Job
    <3> QED
      BY <1>3, <3>1, <3>2, <3>3
  <2>2. \A k \in Jobs : /\ job'[k].value = job[k].value /\ job'[k].issued = job[k].issued
                        /\ (job'[k].status = "COMPLETE") <=> (job[k].status = "COMPLETE")
                        /\ (job'[k].status = "CANCELLED") <=> (job[k].status = "CANCELLED")
    BY <2>1 DEF OnTheFloor
  <2> QED
    BY <2>1, <2>2, BooksOfJobs
<1> QED
  BY <1>0, <1>1, <1>2, <1>3

LEMMA BooksOfTimesheetStep ==
    ASSUME BooksInv, TimesheetNext
    PROVE  LabourInv' /\ AccountsInv'
<1>1. PICK from, to : MoveHours(from, to) /\ UNCHANGED <<labour, accountVars>>
  <2>1. \A n, e, m, j : CreateEntry(n, e, m, j) =>
            MoveHours("indirect", j) /\ UNCHANGED <<labour, accountVars>>
    BY DEF CreateEntry
  <2>2. \A n, e, m, j : UpdateEntry(n, e, m, j) =>
            MoveHours(timesheet[n].job, j) /\ UNCHANGED <<labour, accountVars>>
    BY DEF UpdateEntry
  <2>3. \A n : RemoveEntry(n) =>
            MoveHours(timesheet[n].job, "indirect") /\ UNCHANGED <<labour, accountVars>>
    BY DEF RemoveEntry
  <2> QED
    BY <2>1, <2>2, <2>3, Zenon DEF TimesheetNext
<1>2. ASSUME NEW k \in Jobs
      PROVE  /\ job'[k].value = job[k].value /\ job'[k].issued = job[k].issued
             /\ (job'[k].status = "COMPLETE") <=> (job[k].status = "COMPLETE")
             /\ (job'[k].status = "CANCELLED") <=> (job[k].status = "CANCELLED")
  <2>0. job[k] \in Job
    BY DEF BooksInv, ChargeInv, HoursTypeOK
  <2>1. CASE from = to \/ k \notin {from, to}
    BY <1>1, <2>1 DEF MoveHours
  <2>2. CASE k = from /\ from # to
    BY <1>1, <2>0, <2>2 DEF MoveHours, Job
  <2>3. CASE k = to /\ from # to
    BY <1>1, <2>0, <2>3 DEF MoveHours, Job
  <2> QED
    BY <2>1, <2>2, <2>3
<1> QED
  BY <1>1, <1>2, BooksOfJobs

Kept(rows) == {w \in rows : w.clearedTo # "EXPENSE"}

(* Rows that come to a job, or go, count for what they are. *)
LEMMA SumsOfJoin ==
    ASSUME NEW R \in SUBSET LabourRow, IsFiniteSet(R), NEW C \in SUBSET LabourRow, IsFiniteSet(C),
           R \cap C = {}
    PROVE  /\ Amount(InWip(R \cup C)) = Amount(InWip(R)) + Amount(InWip(C))
           /\ Amount(InCogs(R \cup C)) = Amount(InCogs(R)) + Amount(InCogs(C))
           /\ Amount(Kept(R \cup C)) = Amount(Kept(R)) + Amount(Kept(C))
           /\ Amount(InWip(R)) \in Nat /\ Amount(InWip(C)) \in Nat
           /\ Amount(InCogs(R)) \in Nat /\ Amount(InCogs(C)) \in Nat
           /\ Amount(Kept(R)) \in Nat /\ Amount(Kept(C)) \in Nat
<1>1. \A S \in SUBSET R, T \in SUBSET C :
          /\ Amount(S \cup T) = Amount(S) + Amount(T)
          /\ Amount(S) \in Nat /\ Amount(T) \in Nat
  <2> SUFFICES ASSUME NEW S \in SUBSET R, NEW T \in SUBSET C
               PROVE  /\ Amount(S \cup T) = Amount(S) + Amount(T)
                      /\ Amount(S) \in Nat /\ Amount(T) \in Nat
    OBVIOUS
  <2>1. IsFiniteSet(S) /\ IsFiniteSet(T) /\ S \cap T = {}
    BY FS_Subset
  <2> QED
    BY <2>1, AmountOfBoth
<1>2. /\ InWip(R) \in SUBSET R /\ InWip(C) \in SUBSET C
      /\ InWip(R \cup C) = InWip(R) \cup InWip(C)
  BY DEF InWip
<1>3. /\ InCogs(R) \in SUBSET R /\ InCogs(C) \in SUBSET C
      /\ InCogs(R \cup C) = InCogs(R) \cup InCogs(C)
  BY DEF InCogs
<1>4. /\ Kept(R) \in SUBSET R /\ Kept(C) \in SUBSET C
      /\ Kept(R \cup C) = Kept(R) \cup Kept(C)
  BY DEF Kept
<1> QED
  BY <1>1, <1>2, <1>3, <1>4

(* What the rows of a run are when it is approved. *)
LEMMA ChargesAre ==
    ASSUME BooksInv, NEW r \in PayRuns, NEW rate \in [Employees -> Rates]
    PROVE  /\ Charges(r, rate) \in SUBSET LabourRow /\ IsFiniteSet(Charges(r, rate))
           /\ \A c \in Charges(r, rate) :
                 /\ c.run = r /\ job[c.job].status # "CANCELLED" /\ c.clearedTo # "EXPENSE"
                 /\ job[c.job].status = "COMPLETE" =>
                        ~ (c.account = "WIP" /\ c.clearedTo = "none")
                 /\ \A d \in Charges(r, rate) :
                       c.job = d.job /\ c.employee = d.employee => c = d
<1> DEFINE Of(e, j) == {n \in Absorbable(r) : timesheet[n].employee = e /\ timesheet[n].job = j}
           HoursOf(e, j) == Cardinality(Of(e, j))
           D == payRun[r].lines \X Jobs
           f == [d \in D |-> Charge(r, d[1], d[2], HoursOf(d[1], d[2]), rate[d[1]])]
<1>1. payRun[r].lines \in SUBSET Employees
  BY DEF BooksInv, ChargeInv, HoursTypeOK, PayRun
<1>2. \A e, j : Of(e, j) \subseteq Entries /\ HoursOf(e, j) \in Nat
  <2>1. \A e, j : Of(e, j) \subseteq Entries
    BY DEF Absorbable, Unpaid, Recorded
  <2> QED
    BY <2>1, CountIsNat
<1>3. ASSUME NEW c \in Charges(r, rate)
      PROVE  \E e \in payRun[r].lines, j \in Jobs :
                /\ c = Charge(r, e, j, HoursOf(e, j), rate[e])
                /\ HoursOf(e, j) * rate[e] > 0
  BY DEF Charges
<1> HIDE DEF HoursOf
<1>4. ASSUME NEW e \in payRun[r].lines, NEW j \in Jobs
      PROVE  LET c == Charge(r, e, j, HoursOf(e, j), rate[e]) IN
             /\ c \in LabourRow /\ c.run = r /\ c.job = j /\ c.employee = e
             /\ c.clearedTo # "EXPENSE"
             /\ job[j].status = "COMPLETE" => ~ (c.account = "WIP" /\ c.clearedTo = "none")
  <2>1. HoursOf(e, j) \in Nat /\ rate[e] \in Nat /\ e \in Employees
    BY <1>1, <1>2, JobCostingAssumption
  <2>2. HoursOf(e, j) * rate[e] \in Nat
    BY <2>1
  <2> QED
    BY <2>1, <2>2 DEF Charge, AccountFor, LabourRow
<1>5. ASSUME NEW e \in payRun[r].lines, NEW j \in Jobs, HoursOf(e, j) * rate[e] > 0
      PROVE  job[j].status # "CANCELLED"
  <2>1. HoursOf(e, j) \in Nat /\ rate[e] \in Nat
    BY <1>1, <1>2, JobCostingAssumption
  <2>2. HoursOf(e, j) # 0
    <3>1. SUFFICES ASSUME HoursOf(e, j) = 0 PROVE FALSE
      OBVIOUS
    <3>2. HoursOf(e, j) * rate[e] = 0
      BY <2>1, <3>1
    <3> QED
      BY <1>5, <3>2
  <2>3. Of(e, j) # {}
    BY <2>2, FS_EmptySet DEF HoursOf
  <2> QED
    BY <2>3 DEF Absorbable
<1>6. IsFiniteSet(Charges(r, rate))
  <2>1. IsFiniteSet(payRun[r].lines)
    BY <1>1, JobCostingAssumption, FS_Subset
  <2>2. IsFiniteSet(D)
    BY <2>1, JobCostingAssumption, FS_Product
  <2> DEFINE image == {f[d] : d \in D}
  <2>3. f \in Surjection(D, image)
    BY DEF Surjection
  <2>4. IsFiniteSet(image)
    <3> HIDE DEF f, image, D
    <3> QED
      BY <2>2, <2>3, FS_Surjection
  <2>5. Charges(r, rate) \subseteq image
    <3> SUFFICES ASSUME NEW c \in Charges(r, rate) PROVE c \in image
      OBVIOUS
    <3>1. PICK e \in payRun[r].lines, j \in Jobs : c = Charge(r, e, j, HoursOf(e, j), rate[e])
      BY <1>3
    <3>2. <<e, j>> \in D /\ f[<<e, j>>] = c
      BY <3>1
    <3> QED
      BY <3>2
  <2> QED
    BY <2>4, <2>5, FS_Subset
<1>7. ASSUME NEW c \in Charges(r, rate)
      PROVE  /\ c \in LabourRow /\ c.run = r /\ job[c.job].status # "CANCELLED"
             /\ c.clearedTo # "EXPENSE"
             /\ job[c.job].status = "COMPLETE" => ~ (c.account = "WIP" /\ c.clearedTo = "none")
             /\ c = Charge(r, c.employee, c.job, HoursOf(c.employee, c.job), rate[c.employee])
  <2>1. PICK e \in payRun[r].lines, j \in Jobs :
          c = Charge(r, e, j, HoursOf(e, j), rate[e]) /\ HoursOf(e, j) * rate[e] > 0
    BY <1>3
  <2>2. c.job = j /\ c.employee = e
    BY <1>4, <2>1
  <2> QED
    BY <1>4, <1>5, <2>1, <2>2
<1>8. ASSUME NEW c \in Charges(r, rate), NEW d \in Charges(r, rate),
             c.job = d.job, c.employee = d.employee
      PROVE  c = d
  BY <1>7, <1>8
<1> QED
  BY <1>6, <1>7, <1>8

(* Rows come and go; each account of a job moves with those of its rows. *)
LEMMA BooksOfRows ==
    ASSUME BooksInv, NEW more \in SUBSET LabourRow, NEW less \in SUBSET labour,
           IsFiniteSet(more), more \cap labour = {}, more = {} \/ less = {},
           labour' = (labour \cup more) \ less, UNCHANGED job,
           \A c \in more : IsOver(c.job) => ~ (c.account = "WIP" /\ c.clearedTo = "none"),
           \A v, w \in labour' :
              v.job = w.job /\ v.employee = w.employee /\ v.run = w.run => v = w,
           wip' = [j \in Jobs |-> wip[j] + Amount(InWip(RowsOn(more, j)))
                                         - Amount(InWip(RowsOn(less, j)))],
           cogs' = [j \in Jobs |-> cogs[j] + Amount(InCogs(RowsOn(more, j)))
                                           - Amount(InCogs(RowsOn(less, j)))],
           absorbed' = [j \in Jobs |-> absorbed[j] + Amount(Kept(RowsOn(more, j)))
                                                   - Amount(Kept(RowsOn(less, j)))]
    PROVE  LabourInv' /\ AccountsInv'
<1>1. /\ labour \in SUBSET LabourRow /\ IsFiniteSet(labour) /\ IsFiniteSet(less)
      /\ less \in SUBSET LabourRow
  BY FS_Subset DEF BooksInv, LabourInv, ChargeInv, HoursTypeOK
<1>2. LabourInv'
  <2>1. IsFiniteSet(labour')
    BY <1>1, FS_Union, FS_Subset
  <2> QED
    BY <2>1 DEF BooksInv, LabourInv, IsOver
<1>3. ASSUME NEW j \in Jobs
      PROVE  LET W(S) == Amount(InWip(RowsOn(S, j)))
                 G(S) == Amount(InCogs(RowsOn(S, j)))
                 K(S) == Amount(Kept(RowsOn(S, j)))
             IN /\ W(labour') = W(labour) + W(more) - W(less)
                /\ G(labour') = G(labour) + G(more) - G(less)
                /\ K(labour') = K(labour) + K(more) - K(less)
                /\ W(labour) \in Nat /\ W(more) \in Nat /\ W(less) \in Nat
                /\ G(labour) \in Nat /\ G(more) \in Nat /\ G(less) \in Nat
                /\ K(labour) \in Nat /\ K(more) \in Nat /\ K(less) \in Nat
  <2> DEFINE W(S) == Amount(InWip(RowsOn(S, j)))
             G(S) == Amount(InCogs(RowsOn(S, j)))
             K(S) == Amount(Kept(RowsOn(S, j)))
  <2>1. \A S, T \in SUBSET LabourRow :
            IsFiniteSet(S) /\ IsFiniteSet(T) /\ S \cap T = {} =>
                /\ W(S \cup T) = W(S) + W(T) /\ W(S) \in Nat /\ W(T) \in Nat
                /\ G(S \cup T) = G(S) + G(T) /\ G(S) \in Nat /\ G(T) \in Nat
                /\ K(S \cup T) = K(S) + K(T) /\ K(S) \in Nat /\ K(T) \in Nat
    <3> SUFFICES ASSUME NEW S \in SUBSET LabourRow, NEW T \in SUBSET LabourRow,
                        IsFiniteSet(S), IsFiniteSet(T), S \cap T = {}
                 PROVE  /\ W(S \cup T) = W(S) + W(T) /\ W(S) \in Nat /\ W(T) \in Nat
                        /\ G(S \cup T) = G(S) + G(T) /\ G(S) \in Nat /\ G(T) \in Nat
                        /\ K(S \cup T) = K(S) + K(T) /\ K(S) \in Nat /\ K(T) \in Nat
      OBVIOUS
    <3>1. /\ RowsOn(S, j) \in SUBSET LabourRow /\ IsFiniteSet(RowsOn(S, j))
          /\ RowsOn(T, j) \in SUBSET LabourRow /\ IsFiniteSet(RowsOn(T, j))
      BY RowsOfJob
    <3>2. /\ RowsOn(S, j) \cap RowsOn(T, j) = {}
          /\ RowsOn(S \cup T, j) = RowsOn(S, j) \cup RowsOn(T, j)
      BY DEF RowsOn
    <3> DEFINE R == RowsOn(S, j)
               C == RowsOn(T, j)
    <3>3. /\ R \in SUBSET LabourRow /\ IsFiniteSet(R) /\ C \in SUBSET LabourRow /\ IsFiniteSet(C)
          /\ R \cap C = {} /\ RowsOn(S \cup T, j) = R \cup C
      BY <3>1, <3>2
    <3> HIDE DEF R, C, W, G, K
    <3>4. /\ Amount(InWip(R \cup C)) = Amount(InWip(R)) + Amount(InWip(C))
          /\ Amount(InCogs(R \cup C)) = Amount(InCogs(R)) + Amount(InCogs(C))
          /\ Amount(Kept(R \cup C)) = Amount(Kept(R)) + Amount(Kept(C))
          /\ Amount(InWip(R)) \in Nat /\ Amount(InWip(C)) \in Nat
          /\ Amount(InCogs(R)) \in Nat /\ Amount(InCogs(C)) \in Nat
          /\ Amount(Kept(R)) \in Nat /\ Amount(Kept(C)) \in Nat
      BY <3>3, SumsOfJoin
    <3>5. /\ W(S \cup T) = Amount(InWip(R \cup C))
          /\ G(S \cup T) = Amount(InCogs(R \cup C))
          /\ K(S \cup T) = Amount(Kept(R \cup C))
      BY <3>3 DEF W, G, K
    <3>6. /\ W(S) = Amount(InWip(R)) /\ G(S) = Amount(InCogs(R)) /\ K(S) = Amount(Kept(R))
          /\ W(T) = Amount(InWip(C)) /\ G(T) = Amount(InCogs(C)) /\ K(T) = Amount(Kept(C))
      BY DEF W, G, K, R, C
    <3> QED
      BY <3>4, <3>5, <3>6
  <2>2. W({}) = 0 /\ G({}) = 0 /\ K({}) = 0
    <3>1. InWip(RowsOn({}, j)) = {} /\ InCogs(RowsOn({}, j)) = {} /\ Kept(RowsOn({}, j)) = {}
      BY DEF InWip, InCogs, Kept, RowsOn
    <3> QED
      BY <3>1, AmountOfNone
  <2> HIDE DEF W, G, K
  <2>3. CASE less = {}
    <3>1. labour' = labour \cup more
      BY <2>3
    <3>2. /\ W(labour \cup more) = W(labour) + W(more) /\ W(labour) \in Nat /\ W(more) \in Nat
          /\ G(labour \cup more) = G(labour) + G(more) /\ G(labour) \in Nat /\ G(more) \in Nat
          /\ K(labour \cup more) = K(labour) + K(more) /\ K(labour) \in Nat /\ K(more) \in Nat
      BY <1>1, <2>1
    <3>3. \A a, b \in Nat : a + b = a + b - 0
      OBVIOUS
    <3> QED
      BY <2>2, <2>3, <3>1, <3>2, <3>3 DEF W, G, K
  <2>4. CASE more = {}
    <3> DEFINE rest == labour \ less
    <3>1. /\ labour' = rest /\ rest \in SUBSET LabourRow /\ IsFiniteSet(rest)
          /\ rest \cap less = {} /\ rest \cup less = labour
      BY <1>1, <2>4, FS_Subset
    <3> HIDE DEF rest
    <3>2. /\ W(rest \cup less) = W(rest) + W(less) /\ W(rest) \in Nat /\ W(less) \in Nat
          /\ G(rest \cup less) = G(rest) + G(less) /\ G(rest) \in Nat /\ G(less) \in Nat
          /\ K(rest \cup less) = K(rest) + K(less) /\ K(rest) \in Nat /\ K(less) \in Nat
      BY <1>1, <2>1, <3>1
    <3>3. /\ W(labour) = W(rest \cup less) /\ G(labour) = G(rest \cup less)
          /\ K(labour) = K(rest \cup less)
          /\ W(labour') = W(rest) /\ G(labour') = G(rest) /\ K(labour') = K(rest)
          /\ W(more) = 0 /\ G(more) = 0 /\ K(more) = 0
      BY <2>2, <2>4, <3>1
    <3>4. \A a, b, c, d, e : /\ a \in Nat /\ b \in Nat /\ c = a + b /\ d = 0 /\ e = a
                             => e = c + d - b /\ c \in Nat /\ d \in Nat
      OBVIOUS
    <3>5. W(labour') = W(labour) + W(more) - W(less) /\ W(labour) \in Nat /\ W(more) \in Nat
      BY <3>2, <3>3, <3>4
    <3>6. G(labour') = G(labour) + G(more) - G(less) /\ G(labour) \in Nat /\ G(more) \in Nat
      BY <3>2, <3>3, <3>4
    <3>7. K(labour') = K(labour) + K(more) - K(less) /\ K(labour) \in Nat /\ K(more) \in Nat
      BY <3>2, <3>3, <3>4
    <3> QED
      BY <3>2, <3>5, <3>6, <3>7 DEF W, G, K
  <2> QED
    BY <2>3, <2>4
<1>4. /\ wip \in [Jobs -> Int] /\ cogs \in [Jobs -> Int] /\ absorbed \in [Jobs -> Int]
      /\ \A j \in Jobs : TellsJob(j) /\ job[j].value \in Nat
  BY DEF BooksInv, AccountsInv, ChargeInv, HoursTypeOK, Job
<1>5. ASSUME NEW j \in Jobs
      PROVE  wip'[j] \in Int /\ cogs'[j] \in Int /\ absorbed'[j] \in Int /\ TellsJob(j)'
  <2> DEFINE w == Amount(InWip(RowsOn(labour, j)))
             wm == Amount(InWip(RowsOn(more, j)))
             wl == Amount(InWip(RowsOn(less, j)))
             g == Amount(InCogs(RowsOn(labour, j)))
             gm == Amount(InCogs(RowsOn(more, j)))
             gl == Amount(InCogs(RowsOn(less, j)))
             k == Amount(Kept(RowsOn(labour, j)))
             km == Amount(Kept(RowsOn(more, j)))
             kl == Amount(Kept(RowsOn(less, j)))
  <2>1. /\ w \in Nat /\ wm \in Nat /\ wl \in Nat /\ g \in Nat /\ gm \in Nat /\ gl \in Nat
        /\ k \in Nat /\ km \in Nat /\ kl \in Nat
        /\ Amount(InWip(RowsOn(labour', j))) = w + wm - wl
        /\ Amount(InCogs(RowsOn(labour', j))) = g + gm - gl
        /\ Amount(Kept(RowsOn(labour', j))) = k + km - kl
    BY <1>3
  <2>2. wip'[j] = wip[j] + wm - wl /\ cogs'[j] = cogs[j] + gm - gl /\ absorbed'[j] = absorbed[j] + km - kl
    OBVIOUS
  <2>3. IsOver(j) => wm = 0 /\ wl = 0
    <3>1. IsOver(j) => InWip(RowsOn(more, j)) = {} /\ InWip(RowsOn(less, j)) = {}
      BY DEF BooksInv, LabourInv, InWip, RowsOn
    <3> QED
      BY <3>1, AmountOfNone
  <2>4. /\ wip[j] = (IF IsOver(j) THEN 0 ELSE job[j].value + w)
        /\ cogs[j] = (IF job[j].status = "COMPLETE" THEN job[j].value ELSE 0) + g
        /\ absorbed[j] = k
    BY <1>4 DEF TellsJob, Kept
  <2> HIDE DEF w, wm, wl, g, gm, gl, k, km, kl
  <2>5. wip'[j] \in Int /\ wip'[j] = (IF IsOver(j) THEN 0 ELSE job[j].value + (w + wm - wl))
    <3>1. CASE IsOver(j)
      BY <2>2, <2>3, <2>4, <3>1
    <3>2. CASE ~ IsOver(j)
      BY <1>4, <2>1, <2>2, <2>4, <3>2
    <3> QED
      BY <3>1, <3>2
  <2>6. /\ cogs'[j] \in Int
        /\ cogs'[j] = (IF job[j].status = "COMPLETE" THEN job[j].value ELSE 0) + (g + gm - gl)
    <3> DEFINE kept == IF job[j].status = "COMPLETE" THEN job[j].value ELSE 0
    <3>1. kept \in Int /\ cogs[j] = kept + g
      BY <1>4, <2>4
    <3> HIDE DEF kept
    <3>2. cogs'[j] \in Int /\ cogs'[j] = kept + (g + gm - gl)
      BY <2>1, <2>2, <3>1
    <3> QED
      BY <3>2 DEF kept
  <2>7. absorbed'[j] \in Int /\ absorbed'[j] = k + km - kl
    BY <2>1, <2>2, <2>4
  <2> QED
    BY <2>1, <2>5, <2>6, <2>7 DEF TellsJob, IsOver, Kept
<1>6. wip' \in [Jobs -> Int] /\ cogs' \in [Jobs -> Int] /\ absorbed' \in [Jobs -> Int]
  <2>1. /\ wip' = [j \in Jobs |-> wip'[j]] /\ cogs' = [j \in Jobs |-> cogs'[j]]
        /\ absorbed' = [j \in Jobs |-> absorbed'[j]]
    OBVIOUS
  <2> QED
    BY <1>5, <2>1
<1> QED
  BY <1>2, <1>5, <1>6 DEF BooksInv, AccountsInv

LEMMA BooksOfApproval ==
    ASSUME BooksInv, NEW r \in PayRuns, NEW rate \in [Employees -> Rates], ApprovePayRun(r, rate)
    PROVE  LabourInv' /\ AccountsInv'
<1> DEFINE charges == Charges(r, rate)
<1>1. /\ payRun[r].status = "DRAFT" /\ labour' = labour \cup charges /\ UNCHANGED job
      /\ wip' = [j \in Jobs |-> wip[j] + Amount(InWip(RowsOn(charges, j)))]
      /\ cogs' = [j \in Jobs |-> cogs[j] + Amount(InCogs(RowsOn(charges, j)))]
      /\ absorbed' = [j \in Jobs |-> absorbed[j] + Amount(RowsOn(charges, j))]
  BY DEF ApprovePayRun
<1>2. /\ charges \in SUBSET LabourRow /\ IsFiniteSet(charges)
      /\ \A c \in charges :
            /\ c.run = r /\ job[c.job].status # "CANCELLED" /\ c.clearedTo # "EXPENSE"
            /\ job[c.job].status = "COMPLETE" => ~ (c.account = "WIP" /\ c.clearedTo = "none")
            /\ \A d \in charges : c.job = d.job /\ c.employee = d.employee => c = d
  BY ChargesAre
<1> HIDE DEF charges
<1>3. \A w \in labour : w.run # r
  BY <1>1 DEF BooksInv, ChargeInv, HoursChargedOnce, RowsCountStamps, PostedRunStatuses
<1>4. charges \cap labour = {}
  BY <1>2, <1>3
<1>5. \A v, w \in labour' :
          v.job = w.job /\ v.employee = w.employee /\ v.run = w.run => v = w
  BY <1>1, <1>2, <1>3 DEF BooksInv, LabourInv
<1>6. \A c \in charges : IsOver(c.job) => ~ (c.account = "WIP" /\ c.clearedTo = "none")
  BY <1>2 DEF IsOver
<1>7. ASSUME NEW j \in Jobs
      PROVE  /\ Kept(RowsOn(charges, j)) = RowsOn(charges, j)
             /\ wip[j] \in Int /\ cogs[j] \in Int /\ absorbed[j] \in Int
             /\ Amount(InWip(RowsOn(charges, j))) \in Int /\ Amount(InWip(RowsOn({}, j))) = 0
             /\ Amount(InCogs(RowsOn(charges, j))) \in Int /\ Amount(InCogs(RowsOn({}, j))) = 0
             /\ Amount(RowsOn(charges, j)) \in Int /\ Amount(Kept(RowsOn({}, j))) = 0
  <2>1. Kept(RowsOn(charges, j)) = RowsOn(charges, j)
    BY <1>2 DEF Kept, RowsOn
  <2>2. /\ InWip(RowsOn({}, j)) = {} /\ InCogs(RowsOn({}, j)) = {} /\ Kept(RowsOn({}, j)) = {}
    BY DEF InWip, InCogs, Kept, RowsOn
  <2>3. /\ RowsOn(charges, j) \in SUBSET LabourRow /\ IsFiniteSet(RowsOn(charges, j))
        /\ InWip(RowsOn(charges, j)) \in SUBSET RowsOn(charges, j)
        /\ InCogs(RowsOn(charges, j)) \in SUBSET RowsOn(charges, j)
        /\ IsFiniteSet(InWip(RowsOn(charges, j))) /\ IsFiniteSet(InCogs(RowsOn(charges, j)))
    BY <1>2, RowsOfJob
  <2>4. /\ Amount(InWip(RowsOn(charges, j))) \in Nat /\ Amount(InCogs(RowsOn(charges, j))) \in Nat
        /\ Amount(RowsOn(charges, j)) \in Nat
    BY <2>3, AmountType
  <2>5. wip[j] \in Int /\ cogs[j] \in Int /\ absorbed[j] \in Int
    BY DEF BooksInv, AccountsInv
  <2> QED
    BY <2>1, <2>2, <2>4, <2>5, AmountOfNone
<1>8. \A a, b, c \in Int : c = 0 => a + b = a + b - c
  OBVIOUS
<1>9. /\ wip' = [j \in Jobs |-> wip[j] + Amount(InWip(RowsOn(charges, j)))
                                       - Amount(InWip(RowsOn({}, j)))]
      /\ cogs' = [j \in Jobs |-> cogs[j] + Amount(InCogs(RowsOn(charges, j)))
                                         - Amount(InCogs(RowsOn({}, j)))]
      /\ absorbed' = [j \in Jobs |-> absorbed[j] + Amount(Kept(RowsOn(charges, j)))
                                                 - Amount(Kept(RowsOn({}, j)))]
  BY <1>1, <1>7, <1>8
<1>10. labour' = (labour \cup charges) \ {}
  BY <1>1
<1>11. \A less \in SUBSET labour : less = {} => LabourInv' /\ AccountsInv'
  BY <1>1, <1>2, <1>4, <1>5, <1>6, <1>9, <1>10, BooksOfRows
<1>12. {} \in SUBSET labour
  OBVIOUS
<1> QED
  BY <1>11, <1>12

LEMMA BooksOfVoid ==
    ASSUME BooksInv, NEW r \in PayRuns, VoidPayRun(r)
    PROVE  LabourInv' /\ AccountsInv'
<1> DEFINE rows == {w \in labour : w.run = r}
<1>1. /\ labour' = labour \ rows /\ UNCHANGED job
      /\ wip' = [j \in Jobs |-> wip[j] - Amount(InWip(RowsOn(rows, j)))]
      /\ cogs' = [j \in Jobs |-> cogs[j] - Amount(InCogs(RowsOn(rows, j)))]
      /\ absorbed' = [j \in Jobs |-> absorbed[j] - Amount(Kept(RowsOn(rows, j)))]
  BY DEF VoidPayRun, Kept
<1>2. rows \in SUBSET labour
  OBVIOUS
<1> HIDE DEF rows
<1>3. \A j \in Jobs : /\ Amount(InWip(RowsOn({}, j))) = 0 /\ Amount(InCogs(RowsOn({}, j))) = 0
                      /\ Amount(Kept(RowsOn({}, j))) = 0
  <2>1. \A j : /\ InWip(RowsOn({}, j)) = {} /\ InCogs(RowsOn({}, j)) = {} /\ Kept(RowsOn({}, j)) = {}
    BY DEF InWip, InCogs, Kept, RowsOn
  <2> QED
    BY <2>1, AmountOfNone
<1>4. \A j \in Jobs : wip[j] \in Int /\ cogs[j] \in Int /\ absorbed[j] \in Int
  BY DEF BooksInv, AccountsInv
<1>5. \A a, b, c : a \in Int /\ b = 0 /\ c \in Int => a - c = a + b - c
  OBVIOUS
<1>6. \A j \in Jobs : /\ Amount(InWip(RowsOn(rows, j))) \in Int
                      /\ Amount(InCogs(RowsOn(rows, j))) \in Int
                      /\ Amount(Kept(RowsOn(rows, j))) \in Int
  <2>1. rows \in SUBSET LabourRow /\ IsFiniteSet(rows)
    BY <1>2, FS_Subset DEF BooksInv, LabourInv, ChargeInv, HoursTypeOK
  <2>2. /\ IsFiniteSet({}) /\ {} \in SUBSET LabourRow
    BY FS_EmptySet
  <2>3. ASSUME NEW j \in Jobs
        PROVE  /\ Amount(InWip(RowsOn(rows, j))) \in Nat
               /\ Amount(InCogs(RowsOn(rows, j))) \in Nat
               /\ Amount(Kept(RowsOn(rows, j))) \in Nat
    <3> DEFINE R == RowsOn(rows, j)
               C == {}
    <3>1. R \in SUBSET LabourRow /\ IsFiniteSet(R) /\ R \cap C = {}
      BY <2>1, RowsOfJob
    <3>2. C \in SUBSET LabourRow /\ IsFiniteSet(C)
      BY <2>2
    <3> HIDE DEF R, C
    <3>3. /\ Amount(InWip(R)) \in Nat /\ Amount(InCogs(R)) \in Nat /\ Amount(Kept(R)) \in Nat
      BY <3>1, <3>2, SumsOfJoin
    <3> QED
      BY <3>3 DEF R
  <2> QED
    BY <2>3
<1>10. \A j \in Jobs :
          /\ wip[j] - Amount(InWip(RowsOn(rows, j)))
               = wip[j] + Amount(InWip(RowsOn({}, j))) - Amount(InWip(RowsOn(rows, j)))
          /\ cogs[j] - Amount(InCogs(RowsOn(rows, j)))
               = cogs[j] + Amount(InCogs(RowsOn({}, j))) - Amount(InCogs(RowsOn(rows, j)))
          /\ absorbed[j] - Amount(Kept(RowsOn(rows, j)))
               = absorbed[j] + Amount(Kept(RowsOn({}, j))) - Amount(Kept(RowsOn(rows, j)))
  BY <1>3, <1>4, <1>5, <1>6
<1>7. /\ wip' = [j \in Jobs |-> wip[j] + Amount(InWip(RowsOn({}, j)))
                                       - Amount(InWip(RowsOn(rows, j)))]
      /\ cogs' = [j \in Jobs |-> cogs[j] + Amount(InCogs(RowsOn({}, j)))
                                         - Amount(InCogs(RowsOn(rows, j)))]
      /\ absorbed' = [j \in Jobs |-> absorbed[j] + Amount(Kept(RowsOn({}, j)))
                                                 - Amount(Kept(RowsOn(rows, j)))]
  BY <1>1, <1>10
<1>8. /\ labour' = (labour \cup {}) \ rows /\ IsFiniteSet({})
      /\ \A v, w \in labour' :
            v.job = w.job /\ v.employee = w.employee /\ v.run = w.run => v = w
  BY <1>1, FS_EmptySet DEF BooksInv, LabourInv
<1>9. \A more \in SUBSET LabourRow : more = {} => LabourInv' /\ AccountsInv'
  BY <1>1, <1>2, <1>7, <1>8, BooksOfRows
<1>11. {} \in SUBSET LabourRow
  OBVIOUS
<1> QED
  BY <1>9, <1>11

LEMMA BooksOfPayrollStep ==
    ASSUME BooksInv, PayrollNext
    PROVE  LabourInv' /\ AccountsInv'
<1>0. PICK r \in PayRuns :
        \/ \E lines \in SUBSET Employees :
              RefreshPayRun(r, lines) \/ \E m \in Months : CreatePayRun(r, m, lines)
        \/ \E rate \in [Employees -> Rates] : ApprovePayRun(r, rate)
        \/ RemovePayRun(r) \/ VoidPayRun(r)
        \/ \E status \in {"PARTIALLY_PAID", "PAID"} : PayPayRun(r, status)
  BY DEF PayrollNext
<1>1. CASE \/ \E lines \in SUBSET Employees :
                 RefreshPayRun(r, lines) \/ \E m \in Months : CreatePayRun(r, m, lines)
           \/ RemovePayRun(r)
           \/ \E status \in {"PARTIALLY_PAID", "PAID"} : PayPayRun(r, status)
  <2>1. UNCHANGED <<job, labour, accountVars>>
    BY <1>1 DEF RefreshPayRun, CreatePayRun, RemovePayRun, PayPayRun
  <2> QED
    BY <2>1, BooksOfJobs
<1> QED
  BY <1>0, <1>1, BooksOfApproval, BooksOfVoid

LEMMA StepBooks == BooksInv /\ [CostingNext]_costingVars => LabourInv' /\ AccountsInv'
<1> SUFFICES ASSUME BooksInv, [CostingNext]_costingVars PROVE LabourInv' /\ AccountsInv'
  OBVIOUS
<1>1. CASE NextMonth \/ UNCHANGED costingVars
  <2>1. UNCHANGED <<job, labour, accountVars>>
    BY <1>1 DEF NextMonth, costingVars
  <2> QED
    BY <2>1, BooksOfJobs
<1> QED
  BY <1>1, BooksOfJobStep, BooksOfFloorStep, BooksOfTimesheetStep, BooksOfPayrollStep DEF CostingNext

--------------------------------------------------------------------------------
(* The stored cost *)

LEMMA SplitType ==
    ASSUME NEW jobs \in [Jobs -> Job], NEW sheet, NEW rows \in SUBSET LabourRow, IsFiniteSet(rows),
           NEW j \in Jobs
    PROVE  Split(j, jobs, sheet, rows) \in Cost
<1> DEFINE own == {n \in Entries : sheet[n].at = "recorded" /\ sheet[n].job = j}
           open == {n \in own : sheet[n].run = "none"}
           a == Amount(RowsOn(rows, j))
           c == Cardinality(own)
           p == Cardinality(open)
           h == jobs[j].hours
           beyond == h - c
           u == IF jobs[j].op # "SKIPPED" /\ beyond > 0 THEN Standard * beyond ELSE 0
<1>1. a \in Nat
  <2>1. RowsOn(rows, j) \in SUBSET LabourRow /\ IsFiniteSet(RowsOn(rows, j))
    BY RowsOfJob
  <2> QED
    BY <2>1, AmountType
<1>2. c \in Nat /\ p \in Nat
  <2>1. own \subseteq Entries /\ open \subseteq Entries
    OBVIOUS
  <2> HIDE DEF own, open
  <2> QED
    BY <2>1, CountIsNat
<1>3. h \in Nat /\ Estimate \in Nat /\ Standard \in Nat
  BY JobCostingAssumption DEF Job
<1>4. Split(j, jobs, sheet, rows) = [actual |-> a, provisional |-> Estimate * p, unlinked |-> u]
  BY DEF Split
<1> HIDE DEF a, c, p, h
<1>5. Estimate * p \in Nat
  BY <1>2, <1>3
<1>6. u \in Nat
  <2>1. beyond \in Int /\ (beyond > 0 => beyond \in Nat)
    BY <1>2, <1>3
  <2> HIDE DEF beyond
  <2>2. \A x, y \in Nat : x * y \in Nat
    OBVIOUS
  <2> QED
    BY <1>3, <2>1, <2>2
<1> QED
  BY <1>1, <1>4, <1>5, <1>6 DEF Cost

OnJob(n, j) == timesheet[n].at = "recorded" /\ timesheet[n].job = j

(* The step leaves what the labour of the job is counted from. *)
Undisturbed(j) ==
    /\ job'[j].hours = job[j].hours /\ job'[j].op = job[j].op
    /\ RowsOn(labour', j) = RowsOn(labour, j)
    /\ \A n \in Entries : timesheet'[n] = timesheet[n] \/ (~ OnJob(n, j) /\ ~ OnJob(n, j)')

LEMMA SplitSame ==
    ASSUME NEW j \in Jobs, Undisturbed(j)
    PROVE  Split(j, job', timesheet', labour') = Split(j, job, timesheet, labour)
<1> DEFINE own == {n \in Entries : timesheet[n].at = "recorded" /\ timesheet[n].job = j}
           own1 == {n \in Entries : timesheet'[n].at = "recorded" /\ timesheet'[n].job = j}
           open == {n \in own : timesheet[n].run = "none"}
           open1 == {n \in own1 : timesheet'[n].run = "none"}
<1>1. own1 = own /\ open1 = open
  BY DEF Undisturbed, OnJob
<1>2. /\ Split(j, job, timesheet, labour) =
            [actual |-> Amount(RowsOn(labour, j)), provisional |-> Estimate * Cardinality(open),
             unlinked |-> IF job[j].op # "SKIPPED" /\ job[j].hours - Cardinality(own) > 0
                          THEN Standard * (job[j].hours - Cardinality(own)) ELSE 0]
      /\ Split(j, job', timesheet', labour') =
            [actual |-> Amount(RowsOn(labour', j)), provisional |-> Estimate * Cardinality(open1),
             unlinked |-> IF job'[j].op # "SKIPPED" /\ job'[j].hours - Cardinality(own1) > 0
                          THEN Standard * (job'[j].hours - Cardinality(own1)) ELSE 0]
  BY DEF Split
<1> HIDE DEF own, own1, open, open1
<1> QED
  BY <1>1, <1>2 DEF Undisturbed

(* A step rewrites the cost of jobs it completes or disturbs. *)
LEMMA CostOfStep ==
    ASSUME CostingInv, HoursTypeOK', LabourInv', NEW js, Recompute(js),
           \A j \in Jobs \ js : job'[j].status = "COMPLETE" =>
                                    job[j].status = "COMPLETE" /\ Undisturbed(j)
    PROVE  CostInv'
<1>1. /\ job' \in [Jobs -> Job] /\ labour' \in SUBSET LabourRow /\ IsFiniteSet(labour')
  BY DEF HoursTypeOK, LabourInv
<1>2. ASSUME NEW j \in Jobs
      PROVE  /\ jobCost'[j] \in Cost
             /\ job'[j].status = "COMPLETE" =>
                    jobCost'[j] = Split(j, job', timesheet', labour')
  <2>1. /\ jobCost'[j] = IF j \in js /\ job'[j].status = "COMPLETE"
                         THEN Split(j, job', timesheet', labour') ELSE jobCost[j]
        /\ jobCost[j] \in Cost
        /\ job[j].status = "COMPLETE" => jobCost[j] = Split(j, job, timesheet, labour)
    BY DEF Recompute, CostingInv, CostInv, CostTellsLabour
  <2>2. Split(j, job', timesheet', labour') \in Cost
    BY <1>1, SplitType
  <2>3. CASE j \in js
    BY <2>1, <2>2, <2>3
  <2>4. CASE j \notin js /\ job'[j].status = "COMPLETE"
    <3>1. job[j].status = "COMPLETE" /\ Undisturbed(j)
      BY <2>4
    <3> QED
      BY <2>1, <2>4, <3>1, SplitSame
  <2> QED
    BY <2>1, <2>3, <2>4
<1>3. jobCost' = [j \in Jobs |-> jobCost'[j]]
  BY DEF Recompute
<1> QED
  BY <1>2, <1>3 DEF CostInv, CostTellsLabour

LEMMA CostOfOthers ==
    ASSUME CostingInv, HoursTypeOK', LabourInv', UNCHANGED jobCost,
           \A j \in Jobs : job'[j].status = "COMPLETE" =>
                               job[j].status = "COMPLETE" /\ Undisturbed(j)
    PROVE  CostInv'
<1>1. Recompute({})
  <2>1. jobCost = [j \in Jobs |-> jobCost[j]]
    BY DEF CostingInv, CostInv
  <2> QED
    BY <2>1 DEF Recompute
<1> QED
  BY <1>1, CostOfStep

LEMMA CostOfJobStep ==
    ASSUME CostingInv, HoursTypeOK', LabourInv', JobNext
    PROVE  CostInv'
<1>0. PICK j \in Jobs :
        \/ ReleaseJob(j) \/ CompleteJob(j) \/ CancelJob(j)
        \/ \E status \in {"RELEASED", "IN_PROGRESS"} : MoveColumn(j, status)
  BY DEF JobNext
<1>j. BooksInv /\ job \in [Jobs -> Job] /\ job[j] \in Job
  BY DEF CostingInv, BooksInv, ChargeInv, HoursTypeOK
<1>1. ASSUME NEW status \in {"RELEASED", "IN_PROGRESS"},
             (ReleaseJob(j) /\ status = "RELEASED") \/ MoveColumn(j, status)
      PROVE  CostInv'
  <2>1. /\ job' = [job EXCEPT ![j].status = status] /\ UNCHANGED <<timesheet, labour, jobCost>>
    BY <1>1 DEF ReleaseJob, MoveColumn
  <2>2. \A k \in Jobs : job'[k].status = "COMPLETE" =>
                            job[k].status = "COMPLETE" /\ Undisturbed(k)
    BY <1>j, <2>1 DEF Job, Undisturbed
  <2> QED
    BY <2>1, <2>2, CostOfOthers
<1>2. ASSUME NEW to \in {"COGS", "EXPENSE"},
             labour' = (labour \ InWip(RowsOn(labour, j))) \cup Cleared(InWip(RowsOn(labour, j)), to),
             UNCHANGED timesheet, \A k \in Jobs \ {j} : job'[k] = job[k]
      PROVE  \A k \in Jobs \ {j} : Undisturbed(k) /\ job'[k].status = job[k].status
  <2>1. \A k \in Jobs \ {j} : RowsOn(labour', k) = RowsOn(labour, k)
    BY <1>2, <1>j, RowsOfClearing
  <2> QED
    BY <1>2, <2>1 DEF Undisturbed
<1>3. CASE CompleteJob(j)
  <2>1. /\ labour' = (labour \ InWip(RowsOn(labour, j))) \cup Cleared(InWip(RowsOn(labour, j)), "COGS")
        /\ UNCHANGED timesheet /\ \A k \in Jobs \ {j} : job'[k] = job[k]
        /\ Recompute({j})
    BY <1>3, <1>j DEF CompleteJob, Cleared
  <2>2. \A k \in Jobs \ {j} : Undisturbed(k) /\ job'[k].status = job[k].status
    BY <1>2, <2>1
  <2> QED
    BY <2>1, <2>2, CostOfStep
<1>4. CASE CancelJob(j)
  <2>1. /\ labour' = (labour \ InWip(RowsOn(labour, j))) \cup Cleared(InWip(RowsOn(labour, j)), "EXPENSE")
        /\ UNCHANGED <<timesheet, jobCost>> /\ \A k \in Jobs \ {j} : job'[k] = job[k]
        /\ job'[j].status = "CANCELLED"
    BY <1>4, <1>j DEF CancelJob, Cleared, Job
  <2>2. \A k \in Jobs \ {j} : Undisturbed(k) /\ job'[k].status = job[k].status
    BY <1>2, <2>1
  <2>3. \A k \in Jobs : job'[k].status = "COMPLETE" =>
                            job[k].status = "COMPLETE" /\ Undisturbed(k)
    BY <2>1, <2>2
  <2> QED
    BY <2>1, <2>3, CostOfOthers
<1> QED
  BY <1>0, <1>1, <1>3, <1>4

LEMMA CostOfFloorStep ==
    ASSUME CostingInv, HoursTypeOK', LabourInv', FloorNext
    PROVE  CostInv'
<1>0. PICK j \in Jobs :
        \/ job[j].issued < MaxIssued /\ \E cost \in UnitCosts : IssueToJob(j, cost)
        \/ ReturnFromJob(j)
        \/ \E finish \in BOOLEAN : \E h \in {0, 1} :
              job[j].hours + h <= MaxHours /\ StopOperation(j, finish, h)
        \/ \E e \in Employees : \/ StartOperation(j, e)
                                \/ job[j].hours < MaxHours /\ LogTime(j, e)
  BY DEF FloorNext
<1>j. job \in [Jobs -> Job] /\ job[j] \in Job /\ timesheet \in [Entries -> Entry \cup {NoEntry}]
  BY DEF CostingInv, BooksInv, ChargeInv, HoursTypeOK
<1>1. ASSUME NEW e, NEW m, RecordClock(j, e, m)
      PROVE  \A k \in Jobs \ {j} : \A n \in Entries :
                 timesheet'[n] = timesheet[n] \/ (~ OnJob(n, k) /\ ~ OnJob(n, k)')
  <2>1. CASE UNCHANGED timesheet
    BY <2>1
  <2>2. ASSUME NEW n \in Entries \ Recorded, timesheet' = [timesheet EXCEPT ![n] = Hour(e, m, j)]
        PROVE  \A k \in Jobs \ {j} : \A x \in Entries :
                   timesheet'[x] = timesheet[x] \/ (~ OnJob(x, k) /\ ~ OnJob(x, k)')
    <3>1. timesheet[n].at # "recorded" /\ timesheet'[n].job = j
      BY <1>j, <2>2 DEF Recorded, Hour
    <3> QED
      BY <1>j, <2>2, <3>1 DEF OnJob
  <2> QED
    BY <1>1, <2>1, <2>2 DEF RecordClock
<1>2. /\ OnTheFloor(j) /\ UNCHANGED <<jobCost, labour>>
      /\ \A k \in Jobs \ {j} : job'[k] = job[k]
      /\ job'[j].status \in {job[j].status, "IN_PROGRESS"}
      /\ UNCHANGED timesheet \/ \E e, m : RecordClock(j, e, m)
  <2>1. ASSUME NEW cost, IssueToJob(j, cost) \/ ReturnFromJob(j)
        PROVE  /\ OnTheFloor(j) /\ UNCHANGED <<jobCost, labour, timesheet>>
               /\ \A k \in Jobs \ {j} : job'[k] = job[k]
               /\ job'[j].status \in {job[j].status, "IN_PROGRESS"}
    BY <1>j, <2>1 DEF IssueToJob, ReturnFromJob, Job
  <2>2. ASSUME NEW finish, NEW h, StopOperation(j, finish, h)
        PROVE  /\ OnTheFloor(j) /\ UNCHANGED <<jobCost, labour>>
               /\ \A k \in Jobs \ {j} : job'[k] = job[k]
               /\ job'[j].status \in {job[j].status, "IN_PROGRESS"}
               /\ UNCHANGED timesheet \/ \E e, m : RecordClock(j, e, m)
    <3>1. UNCHANGED timesheet \/ \E e, m : RecordClock(j, e, m)
      BY <2>2, Zenon DEF StopOperation
    <3> QED
      BY <1>j, <2>2, <3>1 DEF StopOperation, Job
  <2>3. ASSUME NEW e, StartOperation(j, e)
        PROVE  /\ OnTheFloor(j) /\ UNCHANGED <<jobCost, labour, timesheet>>
               /\ \A k \in Jobs \ {j} : job'[k] = job[k]
               /\ job'[j].status \in {job[j].status, "IN_PROGRESS"}
    BY <1>j, <2>3 DEF StartOperation, Job
  <2>4. ASSUME NEW e, LogTime(j, e)
        PROVE  /\ OnTheFloor(j) /\ UNCHANGED <<jobCost, labour>>
               /\ \A k \in Jobs \ {j} : job'[k] = job[k]
               /\ job'[j].status \in {job[j].status, "IN_PROGRESS"}
               /\ \E f, m : RecordClock(j, f, m)
    <3>1. \E f, m : RecordClock(j, f, m)
      BY <2>4, Zenon DEF LogTime
    <3> QED
      BY <1>j, <2>4, <3>1 DEF LogTime, Job
  <2> QED
    BY <1>0, <2>1, <2>2, <2>3, <2>4
<1>3. \A k \in Jobs : job'[k].status = "COMPLETE" =>
                          job[k].status = "COMPLETE" /\ Undisturbed(k)
  <2> SUFFICES ASSUME NEW k \in Jobs, job'[k].status = "COMPLETE"
               PROVE  job[k].status = "COMPLETE" /\ Undisturbed(k)
    OBVIOUS
  <2>1. k # j
    BY <1>2 DEF OnTheFloor
  <2>2. \A n \in Entries : timesheet'[n] = timesheet[n] \/ (~ OnJob(n, k) /\ ~ OnJob(n, k)')
    BY <1>1, <1>2, <2>1
  <2> QED
    BY <1>2, <2>1, <2>2 DEF Undisturbed
<1> QED
  BY <1>2, <1>3, CostOfOthers

LEMMA CostOfTimesheetStep ==
    ASSUME CostingInv, HoursTypeOK', LabourInv', TimesheetNext
    PROVE  CostInv'
<1>0. PICK n \in Entries :
        \/ \E e \in Employees, m \in Months, j \in Jobs \cup {"indirect"} :
              CreateEntry(n, e, m, j) \/ UpdateEntry(n, e, m, j)
        \/ RemoveEntry(n)
  BY DEF TimesheetNext
<1>t. timesheet \in [Entries -> Entry \cup {NoEntry}] /\ job \in [Jobs -> Job]
  BY DEF CostingInv, BooksInv, ChargeInv, HoursTypeOK
<1>1. ASSUME NEW from, NEW to, NEW js, MoveHours(from, to), Recompute(js), UNCHANGED labour,
             js \cup {"indirect"} = {from, to} \cup {"indirect"},
             NEW hour, timesheet' = [timesheet EXCEPT ![n] = hour],
             hour.at = "recorded" => hour.job = to,
             timesheet[n].at = "recorded" => timesheet[n].job = from
      PROVE  CostInv'
  <2>1. ASSUME NEW k \in Jobs \ js
        PROVE  job'[k] = job[k] /\ Undisturbed(k)
    <3>1. k \notin {from, to}
      BY <1>1, JobCostingAssumption
    <3>2. job'[k] = job[k]
      BY <1>1, <3>1 DEF MoveHours
    <3>3. ~ OnJob(n, k) /\ ~ OnJob(n, k)'
      BY <1>1, <1>t, <3>1 DEF OnJob
    <3>4. \A x \in Entries : x # n => timesheet'[x] = timesheet[x]
      BY <1>1, <1>t
    <3> QED
      BY <1>1, <3>2, <3>3, <3>4 DEF Undisturbed
  <2> QED
    BY <1>1, <2>1, CostOfStep
<1>2. ASSUME NEW e, NEW m, NEW j, CreateEntry(n, e, m, j)
      PROVE  CostInv'
  <2>1. /\ MoveHours("indirect", j) /\ Recompute({j}) /\ UNCHANGED labour
        /\ timesheet' = [timesheet EXCEPT ![n] = Hour(e, m, j)]
        /\ n \notin Recorded
    BY <1>2 DEF CreateEntry
  <2>2. timesheet[n].at # "recorded" /\ Hour(e, m, j).job = j
    BY <2>1 DEF Recorded, Hour
  <2>3. {j} \cup {"indirect"} = {"indirect", j} \cup {"indirect"}
    OBVIOUS
  <2> QED
    BY <1>1, <2>1, <2>2, <2>3
<1>3. ASSUME NEW e, NEW m, NEW j, UpdateEntry(n, e, m, j)
      PROVE  CostInv'
  <2> DEFINE hour == [timesheet[n] EXCEPT !.employee = e, !.month = m, !.job = j]
  <2>1. n \in Recorded /\ timesheet[n] \in Entry
    BY <1>3, <1>t DEF UpdateEntry, Recorded, NoEntry
  <2>2. timesheet' = [timesheet EXCEPT ![n] = hour] /\ hour.job = j
    BY <1>3, <1>t, <2>1 DEF UpdateEntry, Entry
  <2>3. /\ MoveHours(timesheet[n].job, j) /\ Recompute({timesheet[n].job, j}) /\ UNCHANGED labour
    BY <1>3 DEF UpdateEntry
  <2> HIDE DEF hour
  <2> QED
    BY <1>1, <2>2, <2>3
<1>4. CASE RemoveEntry(n)
  <2>1. /\ MoveHours(timesheet[n].job, "indirect") /\ Recompute({timesheet[n].job})
        /\ UNCHANGED labour /\ timesheet' = [timesheet EXCEPT ![n] = NoEntry]
    BY <1>4 DEF RemoveEntry
  <2>2. NoEntry.at # "recorded"
    BY DEF NoEntry
  <2>3. {timesheet[n].job} \cup {"indirect"} = {timesheet[n].job, "indirect"} \cup {"indirect"}
    OBVIOUS
  <2> QED
    BY <1>1, <2>1, <2>2, <2>3
<1> QED
  BY <1>0, <1>2, <1>3, <1>4

LEMMA CostOfApproval ==
    ASSUME CostingInv, HoursTypeOK', LabourInv',
           NEW r \in PayRuns, NEW rate \in [Employees -> Rates], ApprovePayRun(r, rate)
    PROVE  CostInv'
<1> DEFINE js == {timesheet[n].job : n \in Absorbable(r)}
<1>1. /\ Recompute(js) /\ UNCHANGED job /\ labour' = labour \cup Charges(r, rate)
      /\ timesheet' = [n \in Entries |-> IF n \in Absorbable(r)
                                         THEN [timesheet[n] EXCEPT !.run = r] ELSE timesheet[n]]
  BY DEF ApprovePayRun
<1>2. \A n \in Absorbable(r) : n \in Entries /\ timesheet[n] \in Entry
  BY DEF Absorbable, Unpaid, Recorded, NoEntry, CostingInv, BooksInv, ChargeInv, HoursTypeOK
<1>3. payRun[r].lines \in SUBSET Employees
  BY DEF CostingInv, BooksInv, ChargeInv, HoursTypeOK, PayRun
<1>4. ASSUME NEW k \in Jobs \ js
      PROVE  Undisturbed(k)
  <2>1. \A c \in Charges(r, rate) : c.job # k
    <3> SUFFICES ASSUME NEW c \in Charges(r, rate), c.job = k PROVE FALSE
      OBVIOUS
    <3> DEFINE Of(e) == {n \in Absorbable(r) : timesheet[n].employee = e /\ timesheet[n].job = k}
    <3>0. PICK e \in payRun[r].lines, j \in Jobs :
              LET h == Cardinality({n \in Absorbable(r) : timesheet[n].employee = e /\ timesheet[n].job = j})
              IN c = Charge(r, e, j, h, rate[e]) /\ h * rate[e] > 0
      BY DEF Charges
    <3>j. j = k
      BY <3>0 DEF Charge
    <3>1. Cardinality(Of(e)) * rate[e] > 0
      BY <3>0, <3>j
    <3>2. Of(e) = {}
      BY <1>4
    <3>3. Cardinality(Of(e)) = 0
      BY <3>2, FS_EmptySet
    <3>4. rate[e] \in Nat
      BY <1>3, JobCostingAssumption
    <3> HIDE DEF Of
    <3>5. Cardinality(Of(e)) * rate[e] = 0
      BY <3>3, <3>4
    <3> QED
      BY <3>1, <3>5
  <2>2. RowsOn(labour', k) = RowsOn(labour, k)
    BY <1>1, <2>1 DEF RowsOn
  <2>3. \A n \in Entries : timesheet'[n] = timesheet[n] \/ (~ OnJob(n, k) /\ ~ OnJob(n, k)')
    <3> SUFFICES ASSUME NEW n \in Entries, n \in Absorbable(r)
                 PROVE  ~ OnJob(n, k) /\ ~ OnJob(n, k)'
      BY <1>1
    <3>1. timesheet[n].job # k
      BY <1>4
    <3>2. timesheet'[n].job = timesheet[n].job
      BY <1>1, <1>2 DEF Entry
    <3> QED
      BY <3>1, <3>2 DEF OnJob
  <2> QED
    BY <1>1, <2>2, <2>3 DEF Undisturbed
<1> HIDE DEF js
<1> QED
  BY <1>1, <1>4, CostOfStep

LEMMA CostOfVoid ==
    ASSUME CostingInv, HoursTypeOK', LabourInv', NEW r \in PayRuns, VoidPayRun(r)
    PROVE  CostInv'
<1> DEFINE rows == {w \in labour : w.run = r}
           stamped == {n \in Recorded : timesheet[n].run = r}
           js == {w.job : w \in rows} \cup {timesheet[n].job : n \in stamped}
<1>1. /\ Recompute(js) /\ UNCHANGED job /\ labour' = labour \ rows
      /\ timesheet' = [n \in Entries |-> IF n \in stamped
                                         THEN [timesheet[n] EXCEPT !.run = "none"] ELSE timesheet[n]]
  BY DEF VoidPayRun
<1>2. \A n \in stamped : n \in Entries /\ timesheet[n] \in Entry
  BY DEF Recorded, NoEntry, CostingInv, BooksInv, ChargeInv, HoursTypeOK
<1>3. ASSUME NEW k \in Jobs \ js
      PROVE  Undisturbed(k)
  <2>1. RowsOn(labour', k) = RowsOn(labour, k)
    BY <1>1, <1>3 DEF RowsOn
  <2>2. \A n \in Entries : timesheet'[n] = timesheet[n] \/ (~ OnJob(n, k) /\ ~ OnJob(n, k)')
    <3> SUFFICES ASSUME NEW n \in Entries, n \in stamped
                 PROVE  ~ OnJob(n, k) /\ ~ OnJob(n, k)'
      BY <1>1
    <3>1. timesheet[n].job # k
      BY <1>3
    <3>2. timesheet'[n].job = timesheet[n].job
      BY <1>1, <1>2 DEF Entry
    <3> QED
      BY <3>1, <3>2 DEF OnJob
  <2> QED
    BY <1>1, <2>1, <2>2 DEF Undisturbed
<1> HIDE DEF js
<1> QED
  BY <1>1, <1>3, CostOfStep

LEMMA CostOfPayrollStep ==
    ASSUME CostingInv, HoursTypeOK', LabourInv', PayrollNext
    PROVE  CostInv'
<1>0. PICK r \in PayRuns :
        \/ \E lines \in SUBSET Employees :
              RefreshPayRun(r, lines) \/ \E m \in Months : CreatePayRun(r, m, lines)
        \/ \E rate \in [Employees -> Rates] : ApprovePayRun(r, rate)
        \/ RemovePayRun(r) \/ VoidPayRun(r)
        \/ \E status \in {"PARTIALLY_PAID", "PAID"} : PayPayRun(r, status)
  BY DEF PayrollNext
<1>1. CASE \/ \E lines \in SUBSET Employees :
                 RefreshPayRun(r, lines) \/ \E m \in Months : CreatePayRun(r, m, lines)
           \/ RemovePayRun(r)
           \/ \E status \in {"PARTIALLY_PAID", "PAID"} : PayPayRun(r, status)
  <2>1. UNCHANGED <<job, labour, timesheet, jobCost>>
    BY <1>1 DEF RefreshPayRun, CreatePayRun, RemovePayRun, PayPayRun
  <2>2. \A k \in Jobs : job'[k].status = "COMPLETE" =>
                            job[k].status = "COMPLETE" /\ Undisturbed(k)
    BY <2>1 DEF Undisturbed
  <2> QED
    BY <2>1, <2>2, CostOfOthers
<1> QED
  BY <1>0, <1>1, CostOfApproval, CostOfVoid

LEMMA InitCosting == CostingInit => CostingInv
BY InitCharge, InitBooks DEF CostingInv, BooksInv

LEMMA StepCosting == CostingInv /\ [CostingNext]_costingVars => CostingInv'
<1> SUFFICES ASSUME CostingInv, [CostingNext]_costingVars PROVE CostingInv'
  OBVIOUS
<1>1. ChargeInv'
  BY StepCharge DEF CostingInv, BooksInv
<1>2. LabourInv' /\ AccountsInv'
  BY StepBooks DEF CostingInv
<1>3. HoursTypeOK'
  BY <1>1 DEF ChargeInv
<1>4. CostInv'
  <2>1. CASE NextMonth \/ UNCHANGED costingVars
    <3>1. UNCHANGED <<job, labour, timesheet, jobCost>>
      BY <2>1 DEF NextMonth, costingVars
    <3>2. \A k \in Jobs : job'[k].status = "COMPLETE" =>
                              job[k].status = "COMPLETE" /\ Undisturbed(k)
      BY <3>1 DEF Undisturbed
    <3> QED
      BY <1>2, <1>3, <3>1, <3>2, CostOfOthers
  <2> QED
    BY <1>2, <1>3, <2>1, CostOfJobStep, CostOfFloorStep, CostOfTimesheetStep, CostOfPayrollStep
    DEF CostingNext
<1> QED
  BY <1>1, <1>2, <1>4 DEF CostingInv, BooksInv

(* Jobs, entries, runs, rows of labour, stored costs and accounts keep their  *)
(* types; no cost and no count of hours goes below zero.                      *)
THEOREM CostingTypeCorrect == CostingSpec => []CostingTypeOK
<1>1. CostingInv => CostingTypeOK
  BY JobCostingAssumption DEF CostingInv, BooksInv, ChargeInv, HoursTypeOK, AccountsInv, CostInv,
     Cost, CostingTypeOK, Months
<1> QED
  BY InitCosting, StepCosting, <1>1, PTL DEF CostingSpec

(* However material, hours, payroll runs, completions, cancellations and      *)
(* voids interleave, work in progress, cost of sales and labour absorbed are  *)
(* what the rows of each job come to, and the cost stored with a completed    *)
(* job is the cost of its hours as they stand.                                *)
THEOREM JobBooksHold == CostingSpec => []JobBooksAgree
<1>1. CostingInv => JobBooksAgree
  BY TellsEachJob DEF CostingInv, BooksInv, CostInv, JobBooksAgree
<1> QED
  BY InitCosting, StepCosting, <1>1, PTL DEF CostingSpec

--------------------------------------------------------------------------------
(* Purchasing, the order, the money and the jobs side by side. *)

(* The start of the whole is the start of every part. *)
LEMMA PartsBegin ==
    PartsInit => PurchaseInit /\ Init /\ SalesInit /\ ReceivablesInit /\ CostingInit
BY DEF PartsInit

(* A step of the whole is a step of one part, or of none, and the others do   *)
(* not notice it.                                                             *)
LEMMA PartMoves ==
    ASSUME [PartsNext]_<<part, tradeVars>>
    PROVE  /\ [PurchaseNext]_purchaseVars /\ [Next]_vars /\ [SalesNext]_salesVars
           /\ [ReceivablesNext]_receivablesVars /\ [CostingNext]_costingVars
<1>1. CASE UNCHANGED <<part, tradeVars>>
  BY <1>1 DEF tradeVars
<1>2. CASE PartsNext
  <2>1. CASE /\ \/ \E o \in Orders : OrderStep(o)
                \/ \E s \in Senders : SendStep(s)
                \/ PositionStep
             /\ UNCHANGED <<vars, salesVars, receivablesVars, costingVars>>
    BY <2>1 DEF PurchaseNext
  <2>2. CASE /\ Next
             /\ UNCHANGED <<purchaseVars, salesVars, receivablesVars, costingVars>>
    BY <2>2
  <2>3. CASE /\ OrderNext \/ BillingNext \/ DeliveryNext \/ ProductionNext
             /\ UNCHANGED <<purchaseVars, vars, receivablesVars, costingVars>>
    BY <2>3 DEF SalesNext
  <2>4. CASE /\ ReceivablesNext
             /\ UNCHANGED <<purchaseVars, vars, salesVars, costingVars>>
    BY <2>4
  <2>5. CASE /\ CostingNext
             /\ UNCHANGED <<purchaseVars, vars, salesVars, receivablesVars>>
    BY <2>5
  <2> QED
    BY <1>2, <2>1, <2>2, <2>3, <2>4, <2>5 DEF PartsNext
<1> QED
  BY <1>1, <1>2

(* What the parts run through when one moves at a time is what each module    *)
(* allows: nothing that holds of a purchase, a bill, a sales order, an        *)
(* invoice or a job by itself is lost where they are side by side.            *)
THEOREM PartsAreTheModules ==
    PartsSpec => PurchaseSpec /\ Spec /\ SalesSpec /\ ReceivablesSpec /\ CostingSpec
<1>1. [PartsNext]_<<part, tradeVars>> =>
          /\ [PurchaseNext]_purchaseVars /\ [Next]_vars /\ [SalesNext]_salesVars
          /\ [ReceivablesNext]_receivablesVars /\ [CostingNext]_costingVars
  BY PartMoves
<1> QED
  BY <1>1, PartsBegin, PTL
  DEF PartsSpec, PurchaseSpec, Spec, SalesSpec, ReceivablesSpec, CostingSpec

(* Side by side, every row of purchasing, selling, invoicing and job costing, *)
(* and every copy a request holds of one, keeps its type.                     *)
THEOREM TradeTypesHold == PartsSpec => []TradeTypeOK
<1>1. PurchaseTypeOK /\ TypeOK /\ SalesTypeOK /\ ReceivablesTypeOK /\ CostingTypeOK => TradeTypeOK
  BY DEF TradeTypeOK
<1> QED
  BY <1>1, PartsAreTheModules, PurchaseTypeCorrect, BillsTypeCorrect, SalesTypeCorrect,
     ReceivablesTypeCorrect, CostingTypeCorrect, PTL
================================================================================
