------------------------------- MODULE JobCosting -------------------------------
(***************************************************************************)
(* What a job on the shop floor costs: the material issued to it, the      *)
(* hours its timesheets record and the payroll runs that charge them, with *)
(* what each posts to work in progress, cost of sales and labour absorbed. *)
(*                                                                         *)
(* Every operation is one transaction.  Those that touch labour begin with *)
(* the lock of the tenant's job costing; starting the clock and issuing    *)
(* material hold the lock of the job alone, and touch its row only.  So an *)
(* operation is an action.  A job has one operation, an entry is one hour, *)
(* and a month is the grain of time.  Accounts are kept per job: the part  *)
(* of the account whose entries name the job.                              *)
(***************************************************************************)
EXTENDS Integers, FiniteSets, Functions

CONSTANTS
    Jobs,        \* work orders
    Employees,   \* people with timesheets and a salary
    Entries,     \* rows of the timesheets
    PayRuns,     \* payroll runs
    LastMonth,   \* bound: the last month
    MaxHours,    \* bound: hours on an operation
    MaxIssued,   \* bound: units of material on a job
    UnitCosts,   \* what a unit of material may cost when it is issued
    Rates,       \* what an hour may cost in a month
    Estimate,    \* what an hour is taken to cost before its month is paid, by the
                 \* salary packages, which do not change
    Standard     \* the standard rate of the operation

ASSUME JobCostingAssumption ==
    /\ LastMonth \in Nat \ {0} /\ MaxHours \in Nat /\ MaxIssued \in Nat
    /\ UnitCosts \subseteq Nat /\ Rates \subseteq Nat
    /\ Estimate \in Nat /\ Standard \in Nat
    /\ IsFiniteSet(Jobs) /\ IsFiniteSet(Employees) /\ IsFiniteSet(Entries)
    /\ "none" \notin PayRuns /\ "indirect" \notin Jobs

VARIABLES
    month,      \* the present month
    job,        \* the row of a work order, its operation and its material
    jobCost,    \* the labour cost stored with a completed job, in its parts
    timesheet,  \* the entries of the timesheets
    payRun,     \* the payroll runs
    labour,     \* rows of work_order_labour
    wip,        \* balance of work in progress, per job
    cogs,       \* balance of cost of sales, per job
    absorbed    \* labour credited to expense, per job

accountVars == <<wip, cogs, absorbed>>
costingVars == <<month, job, jobCost, timesheet, payRun, labour, accountVars>>

--------------------------------------------------------------------------------

Months == 1..LastMonth

Job == [status : {"PLANNED", "RELEASED", "IN_PROGRESS", "COMPLETE", "CANCELLED"},
        op : {"PENDING", "RUNNING", "PAUSED", "DONE", "SKIPPED"},
        hours : Nat, operator : Employees \cup {"none"}, since : Nat,
        issued : Nat, value : Nat, completed : Nat]
NewJob == [status |-> "PLANNED", op |-> "PENDING", hours |-> 0, operator |-> "none", since |-> 0,
           issued |-> 0, value |-> 0, completed |-> 0]

(* An hour on a job, or on none ("indirect"), and the run that absorbed it. *)
NoEntry == [at |-> "none"]
Hour(e, m, j) == [at |-> "recorded", employee |-> e, month |-> m, job |-> j, run |-> "none"]
Entry == [at : {"recorded"}, employee : Employees, month : Months,
          job : Jobs \cup {"indirect"}, run : PayRuns \cup {"none"}]
Recorded == {n \in Entries : timesheet[n].at = "recorded"}
PostedRunStatuses == {"APPROVED", "PARTIALLY_PAID", "PAID"}

NoPayRun == [status |-> "none", month |-> 0, lines |-> {}]
PayRun == [status : {"none", "DRAFT", "VOIDED"} \cup PostedRunStatuses, month : Nat,
           lines : SUBSET Employees]

LabourRow == [job : Jobs, employee : Employees, run : PayRuns, hours : Nat, amount : Nat,
              account : {"WIP", "COGS"}, clearedTo : {"none", "COGS", "EXPENSE"}]

CostingInit ==
    /\ month = 1
    /\ job = [j \in Jobs |-> NewJob]
    /\ jobCost = [j \in Jobs |-> [actual |-> 0, provisional |-> 0, unlinked |-> 0]]
    /\ timesheet = [n \in Entries |-> NoEntry]
    /\ payRun = [r \in PayRuns |-> NoPayRun]
    /\ labour = {}
    /\ wip = [j \in Jobs |-> 0] /\ cogs = [j \in Jobs |-> 0] /\ absorbed = [j \in Jobs |-> 0]

--------------------------------------------------------------------------------
(* Amounts and the cost of a job. *)

Amount(rows) == SumFunction([w \in rows |-> w.amount])
RowsOn(rows, j) == {w \in rows : w.job = j}
InWip(rows) == {w \in rows : w.account = "WIP" /\ w.clearedTo = "none"}
InCogs(rows) == {w \in rows : w.account = "COGS" \/ w.clearedTo = "COGS"}

(* Labour of a job: what runs charged, the hours they have not, at an        *)
(* estimate, and the hours of the operation that no timesheet accounts for.  *)
Split(j, jobs, sheet, rows) ==
    LET own == {n \in Entries : sheet[n].at = "recorded" /\ sheet[n].job = j}
        beyond == jobs[j].hours - Cardinality(own)
    IN [actual |-> Amount(RowsOn(rows, j)),
        provisional |-> Estimate * Cardinality({n \in own : sheet[n].run = "none"}),
        unlinked |-> IF jobs[j].op # "SKIPPED" /\ beyond > 0 THEN Standard * beyond ELSE 0]

(* Variant: a job no run has charged is passed over. *)
RecomputeCharged(js) ==
    jobCost' = [j \in Jobs |-> IF j \in js /\ job'[j].status = "COMPLETE" /\ RowsOn(labour', j) # {}
                               THEN Split(j, job', timesheet', labour') ELSE jobCost[j]]

(* Completed jobs of the set have their cost rewritten, the others keep it. *)
Recompute(js) ==
    jobCost' = [j \in Jobs |-> IF j \in js /\ job'[j].status = "COMPLETE"
                               THEN Split(j, job', timesheet', labour') ELSE jobCost[j]]

PostedRunOf(e, m) ==
    \E r \in PayRuns : payRun[r].status \in PostedRunStatuses /\ payRun[r].month = m /\ e \in payRun[r].lines

--------------------------------------------------------------------------------
(* The life of a job. *)

WorkOrderTransitions ==
    [PLANNED |-> {"RELEASED", "CANCELLED"},
     RELEASED |-> {"IN_PROGRESS", "COMPLETE", "CANCELLED"},
     IN_PROGRESS |-> {"COMPLETE", "CANCELLED"},
     COMPLETE |-> {}, CANCELLED |-> {}]
CanMoveTo(j, status) == status \in WorkOrderTransitions[job[j].status]
OnTheFloor(j) == job[j].status \in {"RELEASED", "IN_PROGRESS"}

ReleaseJob(j) ==
    /\ CanMoveTo(j, "RELEASED")
    /\ job' = [job EXCEPT ![j].status = "RELEASED"]
    /\ UNCHANGED <<month, jobCost, timesheet, payRun, labour, accountVars>>

(* The board also takes a planned job straight into progress. *)
MoveColumn(j, status) ==
    /\ CanMoveTo(j, status) \/ (job[j].status = "PLANNED" /\ status = "IN_PROGRESS")
    /\ job' = [job EXCEPT ![j].status = status]
    /\ UNCHANGED <<month, jobCost, timesheet, payRun, labour, accountVars>>

(* Material and the labour absorbed so far leave work in progress. *)
CompleteJob(j) ==
    LET moving == InWip(RowsOn(labour, j))
        moved == job[j].value + Amount(moving)
    IN
    /\ CanMoveTo(j, "COMPLETE") /\ job[j].op # "RUNNING"
    /\ job' = [job EXCEPT ![j].status = "COMPLETE", ![j].completed = month,
                          ![j].op = CASE @ = "PENDING" -> "SKIPPED" [] @ = "PAUSED" -> "DONE"
                                      [] OTHER -> @]
    /\ labour' = (labour \ moving) \cup {[w EXCEPT !.clearedTo = "COGS"] : w \in moving}
    /\ wip' = [wip EXCEPT ![j] = @ - moved] /\ cogs' = [cogs EXCEPT ![j] = @ + moved]
    /\ UNCHANGED <<month, timesheet, payRun, absorbed>>
    /\ Recompute({j})

(* Nothing may be left on the job; its labour goes back to expense. *)
CancelJob(j) ==
    LET returning == InWip(RowsOn(labour, j)) IN
    /\ CanMoveTo(j, "CANCELLED") /\ job[j].issued = 0
    /\ job' = [job EXCEPT ![j].status = "CANCELLED", ![j].op = IF @ = "RUNNING" THEN "PAUSED" ELSE @,
                          ![j].since = 0]
    /\ labour' = (labour \ returning) \cup {[w EXCEPT !.clearedTo = "EXPENSE"] : w \in returning}
    /\ wip' = [wip EXCEPT ![j] = @ - Amount(returning)]
    /\ absorbed' = [absorbed EXCEPT ![j] = @ - Amount(returning)]
    /\ UNCHANGED <<month, jobCost, timesheet, payRun, cogs>>

--------------------------------------------------------------------------------
(* The floor. *)

(* Material goes out at what a unit costs now... *)
IssueToJob(j, cost) ==
    /\ OnTheFloor(j)
    /\ job' = [job EXCEPT ![j].issued = @ + 1, ![j].value = @ + cost, ![j].status = "IN_PROGRESS"]
    /\ wip' = [wip EXCEPT ![j] = @ + cost]
    /\ UNCHANGED <<month, jobCost, timesheet, payRun, labour, cogs, absorbed>>

(* ... and comes back at the average the job was charged, rounded, the last *)
(* unit with whatever is left.                                              *)
ReturnFromJob(j) ==
    LET units == job[j].issued
        share == IF units = 1 THEN job[j].value ELSE (2 * job[j].value + units) \div (2 * units)
    IN
    /\ OnTheFloor(j) /\ units > 0
    /\ job' = [job EXCEPT ![j].issued = @ - 1, ![j].value = @ - share]
    /\ wip' = [wip EXCEPT ![j] = @ - share]
    /\ UNCHANGED <<month, jobCost, timesheet, payRun, labour, cogs, absorbed>>

StartOperation(j, e) ==
    /\ OnTheFloor(j) /\ job[j].op \in {"PENDING", "PAUSED"}
    /\ job' = [job EXCEPT ![j].op = "RUNNING", ![j].since = month, ![j].operator = e,
                          ![j].status = "IN_PROGRESS"]
    /\ UNCHANGED <<month, jobCost, timesheet, payRun, labour, accountVars>>

(* The entry of clocked time: none once the month is posted, and none when   *)
(* it cannot be written.  The floor goes on in either case.                  *)
RecordClock(j, e, m) ==
    \/ UNCHANGED timesheet
    \/ /\ ~ PostedRunOf(e, m)
       /\ \E n \in Entries \ Recorded : timesheet' = [timesheet EXCEPT ![n] = Hour(e, m, j)]

(* Less than half an hour counts for nothing. *)
StopOperation(j, finish, hours) ==
    LET running == job[j].op = "RUNNING" IN
    /\ OnTheFloor(j) /\ job[j].op \notin {"DONE", "SKIPPED"}
    /\ running \/ (finish /\ hours = 0)
    /\ job' = [job EXCEPT ![j].hours = @ + hours, ![j].since = 0,
                          ![j].op = IF finish THEN "DONE" ELSE "PAUSED"]
    /\ IF hours > 0 THEN RecordClock(j, job[j].operator, job[j].since) ELSE UNCHANGED timesheet
    /\ UNCHANGED <<month, jobCost, payRun, labour, accountVars>>

LogTime(j, e) ==
    /\ OnTheFloor(j) /\ job[j].op # "SKIPPED"
    /\ job' = [job EXCEPT ![j].hours = @ + 1, ![j].status = "IN_PROGRESS",
                          ![j].operator = IF @ = "none" THEN e ELSE @,
                          ![j].op = IF @ = "PENDING" THEN "PAUSED" ELSE @]
    /\ RecordClock(j, e, month)
    /\ UNCHANGED <<month, jobCost, payRun, labour, accountVars>>

--------------------------------------------------------------------------------
(* Timesheets: one write takes hours from a job, adds them to another, or    *)
(* both, and moves the operations' time along.                               *)

MayTakeFrom(n) ==
    /\ ~ PostedRunOf(timesheet[n].employee, timesheet[n].month)
    /\ timesheet[n].job \in Jobs => job[timesheet[n].job].status # "CANCELLED"
MayWrite(e, m, j) ==
    /\ ~ PostedRunOf(e, m)
    /\ j \in Jobs => job[j].status \notin {"PLANNED", "CANCELLED"} /\ job[j].op # "SKIPPED"

MoveHours(from, to) ==
    job' = [j \in Jobs |->
              CASE from = to \/ j \notin {from, to} -> job[j]
                [] j = from /\ from # to ->
                     [job[j] EXCEPT !.hours = IF @ > 0 THEN @ - 1 ELSE 0]
                [] j = to /\ from # to ->
                     [job[j] EXCEPT !.hours = @ + 1,
                                    !.op = IF @ = "PENDING" THEN "PAUSED" ELSE @,
                                    !.status = IF @ = "RELEASED" THEN "IN_PROGRESS" ELSE @]]

CreateEntry(n, e, m, j) ==
    /\ n \notin Recorded /\ MayWrite(e, m, j)
    /\ timesheet' = [timesheet EXCEPT ![n] = Hour(e, m, j)]
    /\ MoveHours("indirect", j)
    /\ UNCHANGED <<month, payRun, labour, accountVars>>
    /\ Recompute({j})

(* Variant: the month the entry leaves is not looked at. *)
UpdateEntryUnlocked(n, e, m, j) ==
    /\ n \in Recorded /\ MayWrite(e, m, j)
    /\ <<e, m, j>> # <<timesheet[n].employee, timesheet[n].month, timesheet[n].job>>
    /\ timesheet' = [timesheet EXCEPT ![n].employee = e, ![n].month = m, ![n].job = j]
    /\ MoveHours(timesheet[n].job, j)
    /\ UNCHANGED <<month, payRun, labour, accountVars>>
    /\ Recompute({timesheet[n].job, j})

UpdateEntry(n, e, m, j) ==
    /\ n \in Recorded /\ MayTakeFrom(n) /\ MayWrite(e, m, j)
    /\ <<e, m, j>> # <<timesheet[n].employee, timesheet[n].month, timesheet[n].job>>
    /\ timesheet' = [timesheet EXCEPT ![n].employee = e, ![n].month = m, ![n].job = j]
    /\ MoveHours(timesheet[n].job, j)
    /\ UNCHANGED <<month, payRun, labour, accountVars>>
    /\ Recompute({timesheet[n].job, j})

RemoveEntry(n) ==
    /\ n \in Recorded /\ MayTakeFrom(n)
    /\ timesheet' = [timesheet EXCEPT ![n] = NoEntry]
    /\ MoveHours(timesheet[n].job, "indirect")
    /\ UNCHANGED <<month, payRun, labour, accountVars>>
    /\ Recompute({timesheet[n].job})

--------------------------------------------------------------------------------
(* Payroll. *)

(* One run of a month that is not voided; the employees it pays have a line. *)
CreatePayRun(r, m, lines) ==
    /\ payRun[r].status = "none"
    /\ \A s \in PayRuns : payRun[s].month = m => payRun[s].status = "VOIDED"
    /\ payRun' = [payRun EXCEPT ![r] = [status |-> "DRAFT", month |-> m, lines |-> lines]]
    /\ UNCHANGED <<month, job, jobCost, timesheet, labour, accountVars>>

RefreshPayRun(r, lines) ==
    /\ payRun[r].status = "DRAFT"
    /\ payRun' = [payRun EXCEPT ![r].lines = lines]
    /\ UNCHANGED <<month, job, jobCost, timesheet, labour, accountVars>>

RemovePayRun(r) ==
    /\ payRun[r].status = "DRAFT"
    /\ payRun' = [payRun EXCEPT ![r] = NoPayRun]
    /\ UNCHANGED <<month, job, jobCost, timesheet, labour, accountVars>>

LaterPosted(r) ==
    \E s \in PayRuns : payRun[s].status \in PostedRunStatuses /\ payRun[s].month > payRun[r].month

(* The hours a run finds: of its employees, in its month, that no run has. *)
Unpaid(r) ==
    {n \in Recorded : /\ timesheet[n].employee \in payRun[r].lines
                      /\ timesheet[n].month = payRun[r].month
                      /\ timesheet[n].run = "none"}
(* ... and those it absorbs: hours on a cancelled job are left. *)
Absorbable(r) ==
    {n \in Unpaid(r) : timesheet[n].job \in Jobs => job[timesheet[n].job].status # "CANCELLED"}

(* A job completed by the end of the month is cost of sales in the month; a   *)
(* later one is charged to work in progress and moved on at once.             *)
AccountFor(j, m) == IF job[j].status = "COMPLETE" /\ job[j].completed <= m THEN "COGS" ELSE "WIP"
Charge(r, e, j, hours, rate) ==
    LET account == AccountFor(j, payRun[r].month) IN
    [job |-> j, employee |-> e, run |-> r, hours |-> hours, amount |-> hours * rate,
     account |-> account,
     clearedTo |-> IF job[j].status = "COMPLETE" /\ account = "WIP" THEN "COGS" ELSE "none"]
Charges(r, rate) ==
    LET HoursOf(e, j) ==
            Cardinality({n \in Absorbable(r) : timesheet[n].employee = e /\ timesheet[n].job = j})
    IN {Charge(r, c[1], c[2], HoursOf(c[1], c[2]), rate[c[1]]) :
          c \in {d \in payRun[r].lines \X Jobs : HoursOf(d[1], d[2]) * rate[d[1]] > 0}}

ApprovePayRun(r, rate) ==
    LET charges == Charges(r, rate) IN
    /\ payRun[r].status = "DRAFT" /\ ~ LaterPosted(r) /\ payRun[r].lines # {}
    /\ payRun' = [payRun EXCEPT ![r].status = "APPROVED"]
    /\ labour' = labour \cup charges
    /\ timesheet' = [n \in Entries |-> IF n \in Absorbable(r) THEN [timesheet[n] EXCEPT !.run = r]
                                                             ELSE timesheet[n]]
    /\ wip' = [j \in Jobs |-> wip[j] + Amount(InWip(RowsOn(charges, j)))]
    /\ cogs' = [j \in Jobs |-> cogs[j] + Amount(InCogs(RowsOn(charges, j)))]
    /\ absorbed' = [j \in Jobs |-> absorbed[j] + Amount(RowsOn(charges, j))]
    /\ UNCHANGED <<month, job>>
    /\ Recompute({timesheet[n].job : n \in Absorbable(r)})

(* Takes each amount back from where it sits now. *)
VoidPayRun(r) ==
    LET rows == {w \in labour : w.run = r}
        stamped == {n \in Recorded : timesheet[n].run = r}
    IN
    /\ payRun[r].status = "APPROVED" /\ ~ LaterPosted(r)
    /\ payRun' = [payRun EXCEPT ![r].status = "VOIDED"]
    /\ labour' = labour \ rows
    /\ timesheet' = [n \in Entries |-> IF n \in stamped THEN [timesheet[n] EXCEPT !.run = "none"]
                                                        ELSE timesheet[n]]
    /\ wip' = [j \in Jobs |-> wip[j] - Amount(InWip(RowsOn(rows, j)))]
    /\ cogs' = [j \in Jobs |-> cogs[j] - Amount(InCogs(RowsOn(rows, j)))]
    /\ absorbed' = [j \in Jobs |->
                      absorbed[j] - Amount({w \in RowsOn(rows, j) : w.clearedTo # "EXPENSE"})]
    /\ UNCHANGED <<month, job>>
    /\ Recompute({w.job : w \in rows} \cup {timesheet[n].job : n \in stamped})

(* The bank payees, the cash payees, or the rest of them. *)
PayPayRun(r, status) ==
    /\ payRun[r].status \in {"APPROVED", "PARTIALLY_PAID"} /\ status # payRun[r].status
    /\ payRun' = [payRun EXCEPT ![r].status = status]
    /\ UNCHANGED <<month, job, jobCost, timesheet, labour, accountVars>>

NextMonth ==
    /\ month < LastMonth
    /\ month' = month + 1
    /\ UNCHANGED <<job, jobCost, timesheet, payRun, labour, accountVars>>

--------------------------------------------------------------------------------

JobNext ==
    \E j \in Jobs :
       \/ ReleaseJob(j) \/ CompleteJob(j) \/ CancelJob(j)
       \/ \E status \in {"RELEASED", "IN_PROGRESS"} : MoveColumn(j, status)
FloorNext ==
    \E j \in Jobs :
       \/ job[j].issued < MaxIssued /\ \E cost \in UnitCosts : IssueToJob(j, cost)
       \/ ReturnFromJob(j)
       \/ \E finish \in BOOLEAN : \E h \in {0, 1} :
             job[j].hours + h <= MaxHours /\ StopOperation(j, finish, h)
       \/ \E e \in Employees : \/ StartOperation(j, e)
                               \/ job[j].hours < MaxHours /\ LogTime(j, e)
TimesheetNext ==
    \E n \in Entries :
       \/ \E e \in Employees, m \in Months, j \in Jobs \cup {"indirect"} :
             /\ j \in Jobs => job[j].hours < MaxHours
             /\ CreateEntry(n, e, m, j) \/ UpdateEntry(n, e, m, j)
       \/ RemoveEntry(n)
PayrollNext ==
    \E r \in PayRuns :
       \/ \E lines \in SUBSET Employees :
             RefreshPayRun(r, lines) \/ \E m \in Months : CreatePayRun(r, m, lines)
       \/ \E rate \in [Employees -> Rates] : ApprovePayRun(r, rate)
       \/ RemovePayRun(r) \/ VoidPayRun(r)
       \/ \E status \in {"PARTIALLY_PAID", "PAID"} : PayPayRun(r, status)
CostingNext == NextMonth \/ JobNext \/ FloorNext \/ TimesheetNext \/ PayrollNext
CostingSpec == CostingInit /\ [][CostingNext]_costingVars

--------------------------------------------------------------------------------

CostingTypeOK ==
    /\ month \in Nat
    /\ job \in [Jobs -> Job]
    /\ jobCost \in [Jobs -> [actual : Nat, provisional : Nat, unlinked : Nat]]
    /\ timesheet \in [Entries -> Entry \cup {NoEntry}]
    /\ payRun \in [PayRuns -> PayRun]
    /\ labour \subseteq LabourRow
    /\ wip \in [Jobs -> Int] /\ cogs \in [Jobs -> Int] /\ absorbed \in [Jobs -> Int]

(* Work in progress holds the material and the uncleared labour of open jobs  *)
(* and nothing of jobs that are over, cost of sales what completed jobs took  *)
(* with them, and labour absorbed what no cancelled job or void gave back.    *)
AccountsTellJobs ==
    \A j \in Jobs :
        LET rows == RowsOn(labour, j)
            over == job[j].status \in {"COMPLETE", "CANCELLED"}
        IN /\ wip[j] = (IF over THEN 0 ELSE job[j].value + Amount(InWip(rows)))
           /\ cogs[j] = (IF job[j].status = "COMPLETE" THEN job[j].value ELSE 0)
                          + Amount(InCogs(rows))
           /\ absorbed[j] = Amount({w \in rows : w.clearedTo # "EXPENSE"})

(* The cost stored with a completed job is that of its hours as they stand,   *)
(* whichever runs were posted or voided and entries moved since.              *)
CostTellsLabour ==
    \A j \in Jobs : job[j].status = "COMPLETE" => jobCost[j] = Split(j, job, timesheet, labour)

(* The accounts and the stored cost agree with the job whatever was issued,   *)
(* recorded, paid, completed, cancelled and voided, in whichever order.       *)
JobBooksAgree == AccountsTellJobs /\ CostTellsLabour

(* The hours of an employee on a job that a run has charged. *)
Stamped(r, e, j) ==
    {n \in Recorded : timesheet[n].run = r /\ timesheet[n].employee = e /\ timesheet[n].job = j}

StampsArePosted ==
    \A n \in Recorded : timesheet[n].run # "none" =>
        LET r == payRun[timesheet[n].run]
        IN  /\ r.status \in PostedRunStatuses
            /\ r.month = timesheet[n].month
            /\ timesheet[n].employee \in r.lines
RowsCountStamps ==
    \A w \in labour : /\ payRun[w.run].status \in PostedRunStatuses
                      /\ w.hours = Cardinality(Stamped(w.run, w.employee, w.job))

(* An hour is charged by one run: the run stamped on an entry is posted, of   *)
(* the entry's month and pays its employee, and a row of labour counts the    *)
(* entries stamped for it, so no timesheet write reaches hours that were      *)
(* charged and no second run finds them.                                      *)
HoursChargedOnce == StampsArePosted /\ RowsCountStamps
================================================================================
