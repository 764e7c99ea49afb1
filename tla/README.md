# Verification of the Relay CRM back end

TLA+ models of the parts of this repository whose correctness depends on the
order in which processes, retries and people act, with TLC runs on small
instances and TLAPS proofs for instances of every size. Source paths below are
relative to `src/apps/api/src/` unless they begin with `src/`.

- Check one run: `tlc -workers 2 -config MCTrade.cfg MCTrade`
- Check the proofs of a module: `tlapm EventOutboxProofs.tla`

`PROJECT.json` lists the components with their sources, the runs, the source
lines of every definition (`map`), a plausible mistake for every property
(`mutants`), the disagreements found (`findings`) and the hazards of the code
with the lines where they bite and the properties that cover them. In the
modules, an operator commented "Variant" is such a mistake in the operator
after it; no specification uses it.

## The system

A multi-tenant CRM and back office. The API (NestJS, Postgres through TypeORM)
serves the web application, runs the event dispatcher and nightly jobs; a
worker process runs Temporal workflows and activities. Two API processes
coexist during a rolling deploy. Everything durable is in Postgres, apart from
Temporal's own histories and schedules, and the payment provider's state.

### Inventory of components

| Component | State | Operations | Interacts with | What is hard | What makes it correct |
|---|---|---|---|---|---|
| **Event outbox and bus** (`common/events`) | `crm_event_outbox` rows: status, attempts, available_at | publish (in or after a transaction), claim, deliver, mark, prune, requeue | every producer; subscribers | two dispatchers, leases, timeouts that do not stop a handler, crashes between steps | nothing before its commit, nothing lost, nothing retried for ever, one owner at a time |
| **Event-triggered runs** (`modules/automations`: service, event bridge, run-record activities) | `automation_executions` rows; Temporal workflows | find or record, start, save; record step, record end | called by the outbox; the worker writes the same rows | at-least-once and overlapping deliveries, ambiguous starts, an entity saved after the row changed | one run per automation and event, rows and runs agree, rows close |
| **Scheduled and webhook runs** (`automations/workflows/scheduled-tick.*`, `automations/webhooks`, `automations/schedules`) | executions with an idempotency key; Temporal schedules | tick, webhook call; write, delete, reconcile a schedule | Temporal; the service that starts runs | retried and timed-out attempts, keys at the edge of their window, schedule and row written one after the other | one run per key and window, one scheduled run at a time, the schedule follows the row |
| **Automation approvals** (`automations/approvals`, `workflows/dynamic-dag.workflow.ts`) | `automation_approvals` rows; the maps of a running workflow | request, decide (claim, signal, release, close), time out, finish | API, Temporal, worker | decisions racing each other and the timeout, signals that fail late, activities that run twice | one decision per request, the inbox tells what the run did |
| **Channel idempotency guard** (`modules/channels/services/channel-idempotency.service.ts`) | claim rows with a lease | runOnce: claim, take over, work, complete, release | activities of a run | attempts that time out and run on, die, or lose their claim | the work of a key once, the same answer to all |
| **Billing** (`modules/billing`) | one subscription row per tenant, cached verdicts, the provider's subscriptions | checkout, webhooks, cancel, seat sync, guard | payment provider | repeated and reordered webhooks, a cache against a commit, an hourly sync against both | failures count once, the row follows the provider, verdicts are recent |
| **Purchasing and inventory** (`modules/purchasing`, `modules/inventory`) | orders and lines, stock positions, movements | submit, approve, send, receive, close short, cancel; issue, adjust, set levels | payables, production, mail | concurrent movements, an on-order figure shared by orders, a send that is undone, an unlocked save | on hand is the sum of movements, on order what is outstanding, no mail after one known to have gone |
| **Payables** (`modules/payables`) | supplier bills, payments, journal | create with three-way match, approve, dispute, reopen, cancel, pay, reverse | receipts, ledger | moves that hold no lock beside moves that do, one table for moves of people and of payments | a status tells whether the bill has posted; books and bills agree |
| **Orders, deliveries, invoices** (`modules/orders`, `modules/quotes`) | order, billing stages, delivery notes, invoices | provision, bill a stage, ship, bill a delivery, void, start production, cancel | production, ledger | rounding over several invoices, planning in transactions of its own | the accepted total is billed exactly, shipped is what notes carried |
| **Receivables and credit notes** (`modules/quotes/invoices.service.ts`, `modules/credits`) | invoices, payments, credit notes, journal | issue, pay, void, draft, issue, refund | ledger | drafts against one state issued against another | journal and invoices agree, only money received is refunded |
| **Overheads** (`modules/overheads`) | recurring expenses, their occurrences | nightly run, claims, auto-approval, pause, resume, edit | payables | several replicas, crashes between bill and record, stale saves | a period is billed once, in order, and in the end |
| **Production, job costing, payroll** (`modules/production`, `modules/job-costing`, `modules/payroll`) | jobs, operations, timesheet entries, payroll runs, absorbed labour | release, clock, issue, complete, cancel; log, move, remove hours; approve, void, pay a run | ledger | a run voided after jobs moved on, hours moved while a run is approved | the cost of jobs and the journal agree, an hour is charged once |
| Finance, audit, auth, invitations, channels, AI, assistant, catalog, contacts, custom objects, documents, mail, notifications, organizations, rbac, views, storage, tax, users, web | rows of their own | mostly CRUD, rendering and calls out | | little ordering | |

## Modules

| Module | Models |
|---|---|
| `EventDelivery` | the contract of the outbox, without dispatchers, leases or clocks |
| `EventOutbox`, `MCEventOutbox`, `EventOutboxProofs` | `event-outbox.service.ts` and `crm-event-bus.service.ts`; instances and the refinement mapping to `EventDelivery`; theorems |
| `AutomationRuns`, `MCAutomationRuns` | `handleDomainEvent`, `triggerForEvent` and the run-record activities for one event |
| `KeyedTriggers` | ticks and webhook requests up to the start of their run |
| `ScheduleSync` | the Temporal schedule of one automation beside its row |
| `Approvals`, `MCApprovals` | one approval step of one run |
| `IdempotencyGuard` | `runOnce` under an activity with retries |
| `ActivityProofs` | theorems of `IdempotencyGuard` and `Approvals` |
| `AutomationProofs` | theorems of `AutomationRuns`, `KeyedTriggers` and `ScheduleSync` |
| `MCAutomation` | composes the five models above |
| `SumTheorems` | lemmas on sums over finite sets |
| `EntitySave` | what TypeORM's `save` writes of an entity that was loaded earlier |
| `PurchaseContract` | what purchase orders are to suppliers, without claims, requests or stock |
| `PurchaseStock`, `MCPurchaseStock` | purchase orders, sending them, receipts, and one stock position; the refinement mapping to `PurchaseContract` |
| `SupplierBills`, `MCSupplierBills` | supplier bills, payments, journal |
| `PurchaseProofs` | theorems of `PurchaseStock` and `SupplierBills` |
| `OrderContract` | what a sales order promises, without stages, notes, work orders or locks |
| `SalesOrders`, `MCSalesOrders` | one sales order with its billing, deliveries and planning; the refinement mapping to `OrderContract` |
| `Receivables` | sales invoices, payments and credit notes with their postings |
| `SalesProofs` | theorems of `SalesOrders` and `Receivables` |
| `JobCosting`, `JobCostingProofs` | jobs with clock and material, timesheets and payroll runs; its theorems, and that of the composed model |
| `MCTrade` | composes the five modules above |
| `RecurringBilling` | one recurring expense and the bills generated from it |
| `MCSettling` | the outbox and the recurring billing, with what they must finish |
| `Subscription`, `MCSubscription`, `MCBilling` | one organization's subscription; its instances |
| `BillingProofs` | theorems of `RecurringBilling` and `Subscription` |

### EventOutbox

Rows are numbered in the order of `created_at`. `status` and `attempts` are the
columns; `wait` is `available_at` counted in ticks from now, so that the lease
of a claim and the backoff of a retry are the same variable, as they are in the
table. `UNCOMMITTED` is a row inserted by an open transaction. Per dispatcher,
`batch` holds the claimed rows not yet marked, `claim` the attempts value the
claim returned (`markFailed` decides by it, not by the row), `phase` and
`elapsed` the handler in hand. A handler the timeout gave up on stays in
`orphans` and may still complete.

| Action | Code |
|---|---|
| `Begin`, `Enqueue`, `Commit`, `Rollback` | `publish(event, { manager })` in the producer's transaction |
| `PublishAfterCommit`, `PublishFallback`, `DeliverInProcess` | `publish(event)` and its in-process fallback |
| `Claim` | `CLAIM_SQL` in `dispatchOnce`; one statement, hence one step |
| `HandlerSucceeds`, `HandlerFails`, `HandlerTimesOut`, `OrphanEnds` | `deliver`, `withTimeout`, `runSubscribers` |
| `MarkDelivered`, `MarkFailed`, `MarkLost` | `DELIVERED_SQL`, `markFailed`, and either of them failing |
| `Prune`, `Crash`, `Stop`, `Exit`, `Start`, `Requeue` | pruning, the process lifecycle, the documented requeue by hand (`src/docs/DEPLOYMENT.md`) |
| `Tick` | time; it waits for a handler at its limit and for a mark being written, both of which take less than a tick |

Handlers run their subscribers together and fail as one (`runSubscribers`), so
one outcome per delivery stands for all. The two kinds of messages are not told
apart: they are claimed and delivered alike. A claim that finds nothing leaves
the state as it is.

### AutomationRuns

One event with its outbox row (`outbox`, `claims`) reduced to what the handler
sees of it: it is claimed up to `MaxClaims` times, a delivery that timed out is
an `orphan` that runs on while the next one begins, and the outcome of a
delivery is marked by id. Each delivery walks the matching automations in any
order. `FindExecution`, `InsertExecution`, `StartRun` or `StartFails`, and
`SaveStarted` or `SaveFailed` are the awaits of `triggerForEvent`, and other
processes act between any two of them. `copy` is the entity a delivery holds in
memory. TypeORM's `save` writes every column in which it differs from the row,
so the row becomes the entity; this holds of a row inserted by this delivery
too, as the insert fills the entity's undefined columns (`finishedAt`) with
what the database gave them.
`RecordStep`, `RecordFinished` and `EndUnrecorded` are the run as its
activities see it.

### Approvals

One approval step. `visit` counts how often the run reaches it, `row[k]` is the
request of visit `k`, `exec` the execution's status. `pending`, `approvers` and
`rejecters` are the workflow's `pendingApprovals`, `approvedNodes` and
`rejectedNodes` for this node. A person's request walks through `Load`,
`AskRun`, `ClaimRow`, the signal, and `ResumeRunIfNothingPending`, `Unclaim` or
the closing of the row; each is one statement or call of `decide`. An activity
may run again because its answer was lost (`again`), fail for good
(`RecordFails`, `EndUnrecorded`), and a cancellation may find the run anywhere
(`EndRun`).

### KeyedTriggers

One automation, started by its schedule or by webhook requests. `call` is what
a request or an activity attempt is doing; `slot`, `tick` and `tries` are the
workflow of the last tick, which Temporal does not start beside an open one
(`overlap: SKIP`). An attempt that `AttemptTimesOut` gives up on runs on
without being `awaited`. An execution keeps its key and whether its workflow id
replaced the placeholder (`named`); `asked` is the key it was recorded under.

| Action | Code |
|---|---|
| `Fire`, `BeginAttempt`, `AttemptTimesOut` | the schedule, `scheduledTickWorkflow` and the options of its activity |
| `ReceiveWebhook` | `AutomationWebhookService.receive` |
| `CheckPrevious`, `Describe` | `previousRunActive`: the latest scheduled row, then its workflow |
| `FindKeyed`, `ReleaseKey`, `InsertKeyed`, `ReadRaced` | `findOrRecordKeyed`, one statement each |
| `StartKeyed`, `StartKeyedFails`, `SaveNamed`, `SaveUnstarted` | `triggerExecution`; a save puts back the key the row was loaded with |
| `Breaks`, `EndKeyed`, `NextDay` | a failed query or call or a death, the end of a run, time |

### ScheduleSync

The row of one automation (whether it wants a schedule, and which) and the
schedule Temporal has. `updateWorkflow` is `LoadForUpdate`, `SyncSchedule` or
`SyncFails`, `CompareAutomation`, `SaveAutomation` or `SaveFails`;
`deleteWorkflow` is `LoadForDelete`, `DeleteSchedule` (`Fails`),
`RemoveAutomation`; `reconcileWith` is `FindActive`, `UpsertActive`,
`ListSchedules`, `Recheck`, `DeleteOrphan`, with `RepairFails` for any call of
it. `drifted` says that requests met, or something failed between the schedule
and the save, and that no undisturbed reconciliation has ended since.

### IdempotencyGuard

An activity is retried while its attempts fail; an attempt that outlives its
timeout runs on. `Start`, `Insert`, `Read`, `TakeOver`, `Work`, `Complete`,
`Release` are the statements of `runOnce` and `claim`; `StatementFails` and
`Die` end an attempt anywhere; `Report`, `Expires` and `Tick` are Temporal's
side. An attempt goes through its keys in order, as `sendEmail` does with one
recipient after another. Ghosts: `effects` counts the work done per key,
`lost` the effects whose result could not be recorded, `overran` says that an
attempt was alive past its lease.

### EntitySave

`Dirty(copy, row)` are the columns in which a loaded entity differs from the
row as `save` reads it again, `Saved(copy, row, dirty)` what the row becomes.
Read and write are two statements, so a save is two actions (`Compare...`,
`Save...`) wherever the code holds no lock.

### PurchaseStock

Orders with their lines, one stock position shared by them. Every transition of
an order holds its lock and is one action: `Submit`, `Reopen`, `ApproveOrder`,
`CloseShort`, `CancelOrder`, `ReceiveGoods`. Sending holds none: `LookBeforeSend`,
`MarkSent` or `LoseClaim`, `MailGoesOut` or `MailFails` and `RevertSent`, with
`SenderDies` between any two. A mail that fails for the sender may have gone
out all the same (`doubted` counts those). Stock moves by `CheckAvailable` and `IssueStock`
(the check is not repeated under the lock), `AdjustStock`, and receipts.
`setReorderLevels` is `LoadPosition`, `ComparePosition`, `SavePosition`: a save
of the whole entity, which may write an old quantity (`trampled`).

`PurchaseContract` has orders that are sent in one step, which mails them.
`MCPurchaseStock` maps an order that is SENT without a mail known to have gone
out to APPROVED (`StatusSeen`), so that claiming, failing, undoing and dying are
stutters. What the code cannot promise are steps of the contract: a mail that is
under way goes out for an order cancelled or received meanwhile (`SendLate`),
and one goes out of which the sender is told that it failed (`SendInDoubt`),
after which the order may be mailed again.

### SupplierBills

`Create` matches a document against what was received and billed elsewhere;
`Approve`, `RecordPayment` and `ReversePayment` hold the row's lock. Dispute,
reopen and cancel do not: `Load` checks the move, `Compare` and `Save` write it
(`raced` marks a bill such a save ran over). `Receive` stands for the receipts
of `PurchaseStock`.

### SalesOrders

One order from the accepted quote. `ProvisionOrder`; `AskForStage` and
`RaiseStageInvoice`, two transactions; `CreateNote`, `Dispatch`, `CancelNote`;
`StartInvoicing` reads what was billed before the lock, `InvoiceDelivery`
raises the invoice, `InvoicingFails` is the unique index on the note;
`VoidOrderInvoice`; `MarkFulfilled`, `Close`, `Cancel`. `StartProduction`
claims the status, then `PlanWork`, `ReadOrder`, `CreateWorkOrder` or
`SkipLine` line by line, and `FinishPlanning` or `PlanningFails` with
`PutBack`; `PlannerCrashes` anywhere; `CancelWorkOrder`. Amounts are integers
and `Share` rounds as `allocateStageAmounts` does.

`OrderContract` is the order as the customer and other modules see it: the
quote, the status, the amount billed, the units gone. `MCSalesOrders` maps the
model to it: `billed` is what the live invoices come to, whoever raised them,
and `carried` what dispatched notes say, not what the lines say has shipped. A
draft note, a stage asked for or a work order is a stutter.

### Receivables

`IssueInvoice`, `ReceivePayment`, `VoidInvoice`, and a credit note from
`DraftCreditNote` to `CancelCreditNote`, `IssueCreditNote`, `RefundCreditNote`.
All lock the invoice. `receivable` and `bank` are what the journal says, per
invoice. Every payment has an account, as every one recorded today does.

### JobCosting

A job has one operation with a clock, material and a stored cost once it is
completed; an entry is hours of a person, a month and a job; a payroll run is
of a month. `ReleaseJob`, `MoveColumn`, `CompleteJob`, `CancelJob`;
`IssueToJob`, `ReturnFromJob`, `StartOperation`, `StopOperation`, `LogTime`;
`CreateEntry`, `UpdateEntry`, `RemoveEntry`; `CreatePayRun`, `RefreshPayRun`,
`RemovePayRun`, `ApprovePayRun` (labour is absorbed into the jobs),
`VoidPayRun` (and taken back from where it is by then), `PayPayRun`;
`NextMonth`.

### RecurringBilling

A night's run of one replica walks the due periods: `StartRun`, `NextPeriod`,
`Claim`, `ReclaimFailed`, `Look` (is an earlier period unbilled), `CreateBill`
or `CreateFails` and `RecordFailure`, `RecordBill`, `AdvanceSchedule`,
`AutoApprove`; `RunStops` is a crash or a failing statement anywhere. People
`ReleaseClaim` a stuck period, `CancelBill`, and `Pause`, `Resume`,
`CancelSchedule` or `Update` the schedule through `CompareSchedule` and
`SaveSchedule`. `Update` changes another column, or, while the schedule has no
occurrence, the start date, and billing starts over (`StartingAt`). That count
is not locked, and `reshaped` says that such a change was saved beside a run, a
bill or another change. Periods are numbered from the earliest; those before
the start date are not the schedule's, and a run begins with the first period
on or after the next billing date (`OnOrAfter`).

### Subscription

`CheckoutReads`, `CheckoutOpens` and `CheckoutStored` are the request, its call
of the provider and what it stores. At the provider a session is paid
(`CheckoutPaid`), or declined (`CheckoutDeclined`), which leaves an incomplete
subscription that may still be paid or expire (`CheckoutExpires`); a live one is
renewed or not (`RenewalPaid`, `RenewalFails`), paused, left unpaid or taken up
again (`StandingChanges`), and ends (`SubscriptionEnds`). The statuses are those
the code makes of the provider's. All of these send events that are delivered
in any order and repeatedly. Events of a subscription name the organization,
those of a payment only a subscription and a customer (`Matched`).
`BeginApply`, `CommitApply`, `RollbackApply` are the webhook's transaction with
its event row and its locked subscription. `UseCached`, `ReadRow`,
`StoreVerdict` are the guard. `SyncLoad`, `SyncCount`, `SyncProvider`,
`SyncStore`, `SyncFails` are the hourly sync; `CancelReads`, `Cancel`,
`CancelStored`, `CancelDies` a cancellation.

## Runs

| Run | Instance | Checks | Result |
|---|---|---|---|
| `outbox` | 2 events, one of them transactional, 2 dispatchers, batch 2, timeout 1 < lease 3, 2 attempts, 2 faults, 1 requeue | `HandledWasCommitted`, `ClaimsAreExclusive`, `DeliveryContract` | hold; 876,494 states |
| `settling` | outbox: timeout 2, lease 3, batch 2, so that the lease is shorter than a slow batch as with the defaults, 1 fault; expense: 2 runs, 1 clerk, 2 periods, 1 fault, 2 edits, 1 release per period; fair | `ClaimBillsOnce`, `BillsInOrder`, `OwedIsSettled` | hold; 1,003,176 states |
| `automation` | runs: 2 automations, 2 overlapping deliveries, 2 failing starts, 1 fault; approvals: 2 people, 2 visits, 1 break or late signal; guard: 1 key, 3 attempts, timeout 1, lease 2; triggers: 2 callers, 3 slots or 4 requests of a key, 2 tries, 2 troubles; schedule: 2 editors, 1 reconciliation at a time of 2, 3 changes, 1 slip | `OneRunPerEvent`, `DeliveredMeansStarted`, `RowsAndRunsAgree`, `DeadEventClosesItsRows`, `OneDecisionReachesRegularly`, `RowTellsOutcome`, `ClosedStaysClosed`, `WorkedOnce`, `SameAnswer`, `SuccessMeansDone`, `KeyRunsOnce`, `TicksTakeTurns`, `ScheduleTellsRow` | hold; 1,370,855 states |
| `schedule_orphan` | 1 editor, 1 reconciliation, no fault | `ActiveIsScheduled` | violated |
| `runs_close` | 1 automation, 1 delivery, no fault | `RunClosesItsRow` | violated |
| `approvals_two_decisions` | 2 people, 1 visit, 1 signal given up on too early | `OneDecisionReaches` | violated |
| `approvals_join` | 2 people, 2 visits, no fault | `EachVisitIsDecided` | violated |
| `trade` | 2 purchase orders with 3 lines, 2 senders, an issue and a stale save; 2 bills, 2 payments, 1 editor; an order of 2 items, 3 billing schedules, 2 notes, 2 planners, 3 invoices; 2 invoices and 2 credit notes; 2 jobs, 2 entries, 2 payroll runs, 2 months | `TradeTypeOK`, `PositionFollowsLedger`, `OnOrderTellsOpenOrders`, `StatusTellsPosting`, `BilledWithinReceived`, `PaidTellsPayments`, `PayablesAgree`, `BilledExactly`, `CancelledHasNothing`, `ShippedTellsNotes`, `ProductionIsPlanned`, `LedgerTellsInvoice`, `RefundsWereReceived`, `JobBooksAgree`, `HoursChargedOnce`, `SupplierContractKept`, `OrderKeepsContract` | hold; 481,844 states |
| `bills_approved_twice` | 2 bills, 2 payments, nobody disputes or cancels | `PostsOnce` | violated |
| `billing` | webhooks: 2 processes, 5 events and those that follow from the last, in any order; guard: a caching process beside an applying one; order: 6 such events in order, 2 checkouts; seats: 1 process, 2 users, fair | `FailuresCounted`, `VerdictIsRecent`, `AgreesInOrder`, `SeatsComeToFollow` | hold; 584,310 states |
| `billing_unpaid_checkout` | 1 process, 2 checkouts, events in order | `PaidMayWrite` | violated |
| `billing_billed_seats` | 1 process, events in order, fair | `SeatsSettle` | violated |

### Bounds

**Parts.** `MCAutomation`, `MCTrade`, `MCSettling` and `MCBilling` compose
modules by a variable (`part`, `loop`, `side`) that is chosen in the initial
state: a behaviour moves one part, and TLC explores the sum of the parts'
states rather than their product. This loses nothing where the parts share no
state, or where what one part sees of another is in the part itself:

- the runs of an event see of a step only that its activity ends;
- sending a purchase order moves it between APPROVED and SENT, which expect the
  same goods, and never touches the stock position, so `sending` and `stock`
  each have the orders and receipts, and not each other. A SENT order alone can
  be closed short before any receipt, which `sending` has with the figure on
  order, though not beside issues and stale saves (the theorems have it all);
- supplier bills read of a purchase the quantity received of a line, which only
  grows;
- production moves a sales order between OPEN and IN_PRODUCTION, which neither
  billing nor deliveries tell apart;
- a sales order sees of an invoice that it is live or voided, and of a job that
  it was planned or cancelled.

Parts share model values, so that what is interchangeable in one is so in all
(`SYMMETRY`, where only safety is checked).

**Numbers.** Two of every racing actor give each pair of steps in each order;
a third of the same kind finds the row as the second does. Two orders and three
lines are needed for an on-order figure that several lines and orders share.
The totals 5 and 7 over three stages make each rounding differ. Two months are
a month that is posted and one that is not. `MaxPapers`, `MaxBusy` and
`MaxMishaps` bound what happens in one behaviour together: a fourth paper, or
a fifth record, repeats what two of each kind have shown. Two slots and two
tries let a tick meet the run of the last and its own earlier attempt; the
third shows that it looks at the latest. One key is run through
by three attempts; several keys in a row are in the theorems only.

Two events are enough for a batch with a row that waits behind another, and for
a transactional event beside a best-effort one; two dispatchers for every race
between claims, marks and leases; two attempts for a retry and a dead letter.
The defaults have batch x timeout (50 x 2 min) far above the lease (5 min);
`settling` keeps that ratio, `outbox` the opposite one. `OverdueCap` 0
makes all due rows equally overdue, so a claim may pick any of them: it only
adds behaviours. `BatchSize` equals the number of events, so TLC does not see a
claim that leaves due rows behind; the proofs do not bound it. `MaxFaults`
bounds crashes, stops and lost marks, `MaxRequeues` the requeues by hand.

For the runs of an event, two deliveries and two automations give every overlap
of two deliveries in one automation while the other lies behind or ahead.
`MaxClaims` equals `MaxAttempts`: the outbox does not claim a dead row. For the
approvals, two visits are what a join of two branches gives; one fault or one
ambiguous signal can fall at any point.

Deadlock is checked in `outbox` only. Everywhere else the system really can
stop: all attempts are used, the run has ended, the order is closed and paid.

### Fairness

- `FairSpec` of `EventOutbox`, and the same in `MCSettling`: `WF(Tick)`, time
  passes, and `WF(Advance(d))` for each dispatcher: a live process polls every
  second (`schedule` re-arms itself in a `finally`), a handler ends or is timed
  out, a mark is written or fails, a process that was stopped exits and one
  that is down is started by the deployment. Nothing is assumed of producers.
  Handlers are not assumed to succeed, nor orphans to end.
- `RecurringFairness`: the nightly cron starts a run on each replica, a run
  that has started goes on (or stops by a fault), and a stuck claim, which the
  code reports to people (`notifyStuck`), is released by somebody. Nothing is
  assumed of clerks.
- `Subscription`, side "seats": `SF` of applying an event that was sent and of
  its commit (the provider repeats an event until it is acknowledged), `WF` of
  `SyncLoad` (the cron runs every hour) and `SF` of the steps after it (a query
  or a call to the provider does not fail every time). Nothing is assumed of
  people or of payments.

### What the violated properties show

- `RunClosesItsRow`: `triggerForEvent` saves the entity it read before the
  start. A run that finishes before that save has its row put back to RUNNING
  and its steps erased, with no failure involved.
- `OneDecisionReaches`: a signal that fails for the API may arrive all the
  same; the claim is released and a second person's decision arrives too.
- `EachVisitIsDecided`: decisions are kept per node; when two branches lead to
  one approval step, the first decision also answers the second request.
- `ActiveIsScheduled`: switching an automation on writes the schedule first and
  the row second. A reconciliation of another process that lists schedules in
  between re-checks the row, which is not active yet, and deletes the schedule
  as an orphan: the automation is active and never ticks until the next boot.
- `PostsOnce`: the table of moves lets a partly paid bill become APPROVED,
  which is meant for the reversal of a payment; so it can be approved again and
  posts its liability twice.
- `SeatsSettle`: a seat sync that loads the row in the trial (or past due) and
  stores its count after webhooks have made the row active tells the provider
  nothing; from then on row and users agree and no sync tells it either.
- `PaidMayWrite`: the row takes the status of whichever subscription an event
  is about. A second checkout that is tried and never paid sets the row of a
  live subscription to INCOMPLETE, and to CANCELED when it expires: an
  organization that pays is refused every write.

Seen while modelling, in the models, and checked by no run of its own:

- A comment of `OutboxSettings` (`event-outbox.service.ts:49`) says the handler
  timeout, being shorter than the lease, makes sure a hung handler is abandoned
  before its row is re-claimed. One lease covers a whole batch whose rows are
  handled in sequence (50 of up to 2 minutes against 5), so this holds for the
  first rows only: `ClaimsAreExclusive` needs `SizedLease`, and `settling` is run
  with the ratio of the defaults.
- A failed mail undoes the claim of a purchase order. A mail that was accepted
  before the call failed has gone out all the same, and the order may be sent,
  and mailed, again, against the comment in `purchasing.service.ts:505-519`
  (`MailFails`, `doubted`; `SendInDoubt` of the contract).
- The start date of a recurring expense may be changed while it has no bill
  (`finance.service.ts:1197`). The count is not locked and the save comes later:
  a run bills the first period in between, and the schedule starts over with a
  bill behind it (`reshaped`).
- `src/docs/FLAGS.md:57-63` says that the bridge does not dedupe redelivered
  events and swallows its errors. The code does both by now;
  `OneRunPerEvent` and `DeliveredMeansStarted` state it.
- A scheduled start whose reply or save was lost leaves a placeholder id, which
  `previousRunActive` takes for a run that never started: the next tick starts
  a second one. `TicksTakeTurns` counts these (`doubts`).
- A reconciliation that read the active automations before a change writes the
  old schedule after it, or that of an automation paused since.
- A live attempt of the idempotency guard can be taken over once its lease is
  over (`channel-idempotency.service.ts:111`), against the comment on line 7;
  `WorkedOnce` and `SameAnswer` except it (`overran`).
- A second plan bought beside a live one shares its row, and the plan is stored
  when a checkout opens rather than when it is paid (`billing.service.ts:153`,
  `174`). `AgreesInOrder` excepts checkouts tried beside a subscription that is
  not over (`overlapped`), paid or not; `PaidMayWrite` shows what the unpaid do.
- A delivery whose invoice was voided cannot be invoiced again: the unique
  index on the note covers voided invoices. `InvoicingFails` has it.

### What the properties except

A property that holds states the cases it leaves out; they are known and real.

- `StatusTellsPosting`, `BilledWithinReceived`, `PayablesAgree`: bills a save
  without a lock ran over; `PayablesAgree` also bills approved twice;
  `BilledWithinReceived` also invoices that list one order line twice, whose
  lines are each matched as if alone.
- `OnOrderTellsOpenOrders`: lines that received more than was ordered, which
  eat into what other orders have on order; `PositionFollowsLedger` and it: a
  stale save of the reorder levels. Racing issues may make stock negative,
  which the code tolerates.
- `BilledExactly` says nothing of an order whose invoice was voided and not
  raised again, closed or not. `CancelledHasNothing` does not mention work
  orders: planning may go on for an order cancelled meanwhile.
  `ProductionIsPlanned` excepts requests that crashed.
- `AgreesInOrder` holds of events that were recorded in the order they happened
  (`reordered` remembers when they were not; reordered webhooks may leave a
  cancelled subscription active or past due) and of checkouts tried one after
  another (`overlapped`). While the last subscription's first payment is still
  due the row may read INCOMPLETE or PAST_DUE, by the order in which the
  provider tells of the decline. `RowCountsUsers` excepts a row left INCOMPLETE,
  which the sync passes over.
- `BillsInOrder`, and the part of `OwedIsSettled` that is about periods:
  schedules whose start date was changed beside a run, a bill or another change
  (`reshaped`): the count that refuses it is not locked.
- `DeadEventClosesItsRows`: behaviours without crashes and failed queries;
  after one of those in the last delivery a row can read RUNNING without a run.
- `OneDecisionReachesRegularly`, `RowTellsOutcome`: steps visited once and no
  signal given up on too early, the cases two violated runs show.
- `TicksTakeTurns`: one more run for each start the row does not tell of, two
  for each attempt that was given up on. `ScheduleTellsRow`: from the moment
  requests met or a step failed to the next undisturbed reconciliation.

## Proofs

A theorem is about any sets of actors, keys, documents, periods or jobs and any
values of the other constants under the named assumptions of its module; the
bounds of the runs (`Max...`) are constants like any other. Every proof has the
same plan: an invariant is strengthened to one that is inductive, a lemma per
conjunct and action shows that it is kept, and the last step is temporal logic.
The type invariant is a conjunct of it, and is proved rather than checked again
by a run.

**SumTheorems**

What the books of the trading modules say is a sum over all documents, lines or
rows of labour, and a change of one of them has to change the sum by as much.
`SumTheorems` proves that of `SumFunction`: that the sum is an integer or a
natural number, does not depend on the order (`SumOnRemove`), takes one element
out, and grows with its terms. Induction over a finite set is `SubsetInduction`,
whose induction hypothesis is a set of subsets rather than an operator, so that
the provers can instantiate it. The proofs below use these lemmas only.

**EventOutboxProofs**

- `TypeCorrect`: the only arithmetic is in `Backoff` (lemma `BackoffType`) and
  in `elapsed`, which `Tick` keeps within the timeout.
- `HandledCommitted`: `HandledWasCommitted` is not inductive by itself.
  `CommitInv` adds that a stored row, a claimed row, an orphan and an event to
  be delivered in-process all belong to a committed change.
- `DeliveredHandled`: `DeliveredInv` adds that a dispatcher in phase "ok" has
  handled its row in hand. This needs no condition on the lease.
- `ClaimsExclusive`, assuming `SizedLease == BatchSize * HandlerTimeout < Lease`:
  `LeaseInv` contains `LeaseCoversBatch`, that a claimed row is PENDING and
  hidden for longer than the dispatcher can need for what is left of the batch
  (`wait > |batch| * timeout - elapsed`). A claim only takes rows that are due,
  hence in nobody's hands. `HeldRowsHidden` derives the positive wait,
  `LeaseUndisturbed`, `LeaseNextRow`, `LeaseClaim` and `LeaseTick` keep it.
  The default settings do not satisfy `SizedLease`.
- `ContractKept`, under the same assumption: every step of the outbox is a step
  of `EventDelivery` or a stutter under the mapping of `MCEventOutbox`
  (`ContractStep`). It needs the invariants above: a mark moves a row only from
  PENDING, because nobody else can have touched it, and DELIVERED only what was
  handled.

**AutomationProofs**

- `RunsTypeCorrect`: with `HandInv`, which says that past the insert a delivery
  triggers an automation whose row exists and is in memory.
- `RunsOncePerEvent`, `RunsHaveRows`, `DeliveredStarted` all follow from
  `RunInv`: `CountInv` ties the number of starts to whether there is a run,
  `ProgressInv` says that what a delivery without an error has dealt with was
  started. A stale save may undo what a run recorded (see `RunClosesItsRow`) but
  names a workflow only after the start, which is why `RowsAndRunsAgree` holds.
- `DeadEventsClose`: `StartingInv` says that, as long as only starts failed, a
  row that reads RUNNING without a run is in the hand of a delivery that is
  about to start it or to record that it could not; an event whose deliveries
  are over has no such hand left.
- `ScheduleFollows` (and `SyncTypeCorrect`): `ScheduleTellsRow` speaks only of
  the moments when nobody is at work, so `SyncInv` has to say what a request or
  a repair under way may still do. `ChangeInv`: a request alone since row and
  schedule agreed last, and whose calls succeeded, makes them agree again when
  it saves. `RepairInv`: what a reconciliation found of the row is what the
  row still says, as long as nobody disturbed it, and it deletes only what the
  row does not want. `drifted` remembers that a change raced or failed, and only
  an undisturbed reconciliation clears it.
- `OneRunPerKey` (and `TriggersTypeCorrect`): `KeyRunsOnce` is about the key a
  row was recorded under. `KeyInv` adds that a row carries that key until its
  window is over (so an insert under a key nobody carries is a whole window
  later than the last), and that a caller with a row in hand has one of its own
  key: a save can put back no other. That is why the update in the code which
  releases a key names both row and key.
- `TurnsAreTaken`: `TicksTakeTurns` bounds the runs that go on by the doubts, so
  `MarginInv` has to weigh what may still become a run or hide one. `Load`
  counts the runs that go on and the attempts given up on, twice while one may
  still record a row and once while it may still start its run or forget its
  name. Only the start an awaited attempt makes lessens the `Margin` that the
  doubts leave. `MarginInv` says that it is one short at most, and not short
  while the last row, which is all a tick looks at, does not name a run that
  goes on; `AttemptInv` carries what the attempt has seen to the moment of its
  start, past rows that others insert, name or un-name meanwhile.

**ActivityProofs**

- `WorkIsDoneOnce`, `AnswersAgree`, `SuccessIsReal`, and `RecordsStay`, that a
  recorded result is never forgotten. `IdInv` says that an attempt which
  claimed a row, or means to, knows its id; `GuardInv` that, while no attempt
  was alive past its lease, the owner of a claim is the one attempt at work
  under it, and that a key has at most the effects its row and the lost ones
  account for; `DoneInv` that an attempt past a key has its answer, and that
  what was heard fits where it stands.
- `OneIsHeard`, `RowsTell`, `ClosedForGood` and `ApprovalsTypeCorrect` follow
  from `SafeInv`. `PlaceInv` says where the run and each request of a person
  can be. The rest is asked of regular behaviours only (one visit, no signal
  given up on too early): `HeardInv`, that what the run heard is what it holds;
  `ClaimInv`, that while a claim has not been signalled nothing was heard, and
  the row is the claimant's unless nobody listens any more; `OutcomeInv` and
  `StageInv`, that a closed row and the stage of the run agree.

**PurchaseProofs**

- `MailedAgain` and `NeverStranded` from `SendInv`: `HoldInv` says that a sender
  who has claimed an order, or whose mail failed, is the only one who has, that
  the order is past approval and that every mail of it so far was in doubt. So
  an undone claim gives back an order no mail of which is known to have gone
  out, and if goods have arrived meanwhile it finds the order no longer SENT and
  gives back nothing. That there is one mail only is false of the code;
  `MailedAgainOnlyInDoubt` is what it does ensure.
- `ContractWithSuppliers`: every step of the orders is a step of
  `PurchaseContract` or a stutter (`ContractOfOrders`, `ContractOfSending`).
  `HoldInv` is what makes the mapping work: a claim in hand is on an order of
  which no mail is known to have gone out, so to claim it or to give it back
  shows nothing. `ToleranceInv` adds that no line has more than the tolerance
  lets it receive, since a receipt checks only the lines it moves. The run
  checks the contract alone; `MailedAgain` and `NeverStranded` follow from it too.
- `LedgerFollowed` (what is on hand is what the movements come to) needs only
  the shape of the position: every action that moves it adds the same amount to
  both, and a stale save which does not sets `trampled`.
- `OnOrderCorrect` (and `PurchaseTypeCorrect`): a line's arrival, an approval, a
  cancellation or a closing moves what the orders expect and what is on order
  by the same amount. `SumsOfOrders` takes the lines of one order out of the
  sum, and `SendInv` is needed where a failed mail undoes a sending.
- `PostingCorrect`: `StatusTellsPosting` beside `EditInv`, that what a request
  has loaded was not posted and that it changes only the status, and
  `PaymentInv`, that only a bill that has posted was ever paid (unless a save
  ran over it).
- `PaymentsAddUp` from `PaidInv`: no request has loaded more paid than a bill's
  total (`MoneyInv`), and a payment belongs to a bill there is. Recording one
  adds it to the payments of its bill, to what the bill says and to the cash
  account; reversing takes it out of all three.
- `PayablesAddUp` from `PayablesInv`, which adds `SettledInv`: a bill no save ran
  over was paid only after it posted, and is PAID only with nothing outstanding,
  so it leaves the open bills exactly when it stops owing.
- `BilledIsReceived` from `BilledInv`: approval takes the bill's lines out of
  drafts and adds them to what is billed, having compared the two under lock.

**SalesProofs**

- `CancelledIsEmpty` and `ProductionPlanned` from `OrderInv`: `BillingInv` says
  that a delivery being invoiced is out, which keeps the order from being
  cancelled under it; `PlannerInv` that a request which has made a work order
  can show one, so that one which gives up its claim leaves IN_PRODUCTION only
  behind work that is planned.
- `ShippedCorrect` from `ShippingInv` (an order fulfilled by hand has no note
  that could still ship), assuming that the order has lines: one without would
  be fulfilled the moment it is asked.
- `BilledCorrect` (and `SalesTypeCorrect`). Of the terms, `ValidSchedule` is
  what the provisioning checks, and the stages of a total add up to it whatever
  the rounding. `StageInv`: the live invoices and the stages that name one are
  the same pairs, so that a stage is billed once through voids and reissues.
  `DeliveryInv`: deliveries are billed by their load until the last, which gets
  what is left; `ReadInv` says that the sum read before the lock is still true
  under it, or there is another delivery to be the last. `NumbersInv`: invoice
  numbers are given out in order. The theorem assumes `LastStageCovers`, that
  the last stage comes to at least half a cent for each stage before it. The
  code does not check that (`src/packages/shared/src/orders/billing.ts:124`): 2
  cents in four stages of 25% each round up to 1 cent for three of them and
  leave the last one at -1. Totals of a few cents aside, every schedule has it.
- `ContractWithCustomer`: every step of the order is a step of `OrderContract`
  or a stutter (`ContractOfOrder`, `ContractOfBilling`, `ContractOfDelivery`,
  `ContractOfProduction`). `SalesInv` collects the invariants above, since the
  guards of the contract are not those of the code: the code closes an order by
  the invoices its stages name, the contract by the amount; the code cancels one
  without live invoices and dispatched notes, the contract one with nothing
  billed or out; the code fulfils an order when the lines say all has shipped,
  the contract when the notes do. `BilledStaysInRange` keeps both the old and
  the new sum within the quote. The assumptions are those of `BilledCorrect` and
  `ShippedCorrect`: `LastStageCovers`, and that the order has lines.
- `LedgerCorrect` and `RefundsCorrect` from `LedgerInv`: the types, `Bounds`
  (nothing is paid, credited or refunded beyond what there is), `Told` (what
  the journal says of an invoice) and `NoteInv` (what it says of a note).

**BillingProofs**

- `BilledOnce`, `BilledInOrder`, `OccurrencesCorrect` and `ScheduleCorrect` from
  `SafeInv`: `OwnInv` says that a claim has one owner and stands as claimed
  while it has; `WalkInv` where a run stands between its bill and its record
  (`PeriodInv`, `RunInv`), that a stale load of a clerk only puts the date back
  (`ClerkInv`), and that no period before the next one due was passed over,
  but for those before the start date and those a resumption passed over. A
  change of the start date is split by whether anybody else was at work:
  `ReshapeKeeps` has one that was alone with a schedule without a bill, which
  begins anew; after any other, `reshaped` says so, and `ChangeKeeps` has what
  stays true even then: who owns what, and that a claim bills once.
- `FailuresAreCounted`, from `ApplyInv`: while a webhook's transaction is open
  nothing else writes the row, its event is not recorded yet, and its copy
  counts one failure more, none, or as many as the row (`Failures`). What a
  webhook makes of a row is in `AppliedType`; checkouts, cancellations and the
  seat sync write other columns (`RowRewritten`).
- `VerdictStaysRecent`, from `GuardInv`: a verdict in hand was true in this
  tick, and a cached one in the tick it was stored in, which is this or the last
  while it is good. A cache cleared before the commit, and filled again from the
  old row, costs no more than that.
- `AgreesOnceApplied`: `OrderInv` says that as long as no event overtook an
  earlier one those recorded are the first k (`FirstApplied`), that the row
  tells the state after the k-th (`Tells`), and that a transaction at the next
  one is about to. `SentInv` is about what the provider sends: one subscription
  at a time is live or incomplete, the one the last event is about, and it is
  live once a `checkout.completed` has said whose it is (`Bought`). A decline is
  told by two events in either order, of which the row knows the customer or
  not, so nothing is said of the row while the last event is of an incomplete
  one. The proof needs that no checkout is tried beside an unfinished
  subscription (`overlapped`): without it `PaidMayWrite` is violated.
- `SubscriptionTypeCorrect` (`ColumnsInv`; `ProviderSteps` and `SyncSteps` are
  its lemmas for the provider and the sync).

**JobCostingProofs**

- `HoursAreChargedOnce`: `HoursChargedOnce` with the types and `ClockInv` is
  inductive: an approved payroll run's charge stands for the hours of exactly
  the entries that carry its mark, wherever those were moved.
- `JobBooksHold` (and `CostingTypeCorrect`) from `CostingInv`, which adds
  `LabourInv` (nothing of a job that is over waits in work in progress, and a
  run charges a person's hours on a job once), `AccountsInv` (the accounts of a
  job are the sums over its rows of labour, by where they were cleared to) and
  `CostInv`. Approving or voiding a payroll run moves many rows at once;
  `SumTheorems` splits the sum by run and by job. `"indirect"` is no job.

- `PartsAreTheModules` is about `MCTrade`: a behaviour of the composed model is
  one of each of the five modules, a step being one of a single part which the
  others do not notice. Their theorems therefore hold of it; `TradeTypesHold`
  draws that conclusion for the types.

**Left to TLC.** Liveness (`OwedIsSettled`, `SeatsComeToFollow`) is beyond the
prover. The properties of the runs that are expected to be violated are
false of the code.

## Not modelled

The components marked `not_modelled` in `PROJECT.json`, with the reasons there:
records of one table, I/O, rendering, arithmetic and the user interfaces, which
make most of the repository's lines and have little ordering in them. Within
the modelled ones:

- automations: matching against an event, the steps of a run other than the
  approval step, the approvals an AI agent step asks for, manual starts and
  webhooks without a key, signatures and rate limits, the wait for Temporal at
  boot; the set of automations does not change while an event is delivered; a
  run that Temporal terminates without running its code, and an approval
  activity's attempt that timed out and acts after its retry, are left out;
- purchasing and inventory: average cost and values, policy checks that only
  refuse, several materials or locations, direct orders to customers;
- money: exchange rates, tax and discounts are merged into one amount, a
  document's currency is its only one, and prepaid releases are left out. A
  payment recorded before payments had an account is skipped when its invoice is
  voided (`invoices.service.ts:298`), so that cash keeps what it brought in; the
  models have no such payment;
- recurring bills: the end date of a schedule; a change of the interval, which
  moves the periods and starts billing over only when the request carries a
  start date as well; start dates that fall between two periods;
- payroll: pay, leave, pensions, advances and settlements; of a run only what
  it charges to jobs. The rate of an hour is a constant;
- billing: the warnings before a trial ends, several plans' limits;
- payloads, tenants and permissions everywhere: each model is of one tenant,
  and a request that is refused for its rights is one that was not made.

## Plan

What would come next, the most valuable first:

1. Token rotation of the authentication service, the AI budget counter, and
   capturing supplier bills from documents.
