------------------------------ MODULE EventOutbox ------------------------------
(***************************************************************************)
(* The transactional outbox of the API (common/events): producers write    *)
(* event rows into crm_event_outbox, dispatchers claim batches of due rows *)
(* under a lease, run the handler of each row in turn and mark the result. *)
(*                                                                         *)
(* Time is discrete.  wait[e] is how many ticks remain until available_at  *)
(* of row e, which is the lease of a claim and the backoff of a retry; it  *)
(* is zero or negative once the row is due.  Database writes take less     *)
(* than a tick.                                                            *)
(***************************************************************************)
EXTENDS Integers, FiniteSets

CONSTANTS
    Events,          \* row ids, numbered in the order of created_at
    TxEvents,        \* the events published with { manager }, in the transaction
    Dispatchers,     \* API processes: a rolling deploy runs two of them for a while
    BatchSize,       \* EVENT_OUTBOX_BATCH_SIZE
    MaxAttempts,     \* EVENT_OUTBOX_MAX_ATTEMPTS
    Lease,           \* leaseMs, in ticks
    HandlerTimeout,  \* handlerTimeoutMs, in ticks
    BaseBackoff,     \* baseBackoffMs, in ticks
    MaxBackoff,      \* maxBackoffMs, in ticks
    OverdueCap,      \* bound: how long overdue a row can be told to be
    MaxFaults,       \* bound: crashes, deploys and failed writes of a behaviour
    MaxRequeues      \* bound: how often a person requeues the dead rows

ASSUME OutboxAssumption ==
    /\ Events \subseteq Nat /\ IsFiniteSet(Events)
    /\ TxEvents \subseteq Events
    /\ BatchSize \in Nat \ {0}
    /\ MaxAttempts \in Nat \ {0}
    /\ HandlerTimeout \in Nat \ {0}
    /\ Lease \in Nat /\ HandlerTimeout < Lease
    /\ BaseBackoff \in Nat \ {0} /\ MaxBackoff \in Nat
    /\ OverdueCap \in Nat /\ MaxFaults \in Nat /\ MaxRequeues \in Nat

VARIABLES
    change,    \* the producer's transaction: none, open, committed, rolledback
    status,    \* the row: ABSENT, UNCOMMITTED, PENDING, DELIVERED, DEAD, PRUNED
    attempts,  \* the row's attempts column
    wait,      \* ticks until the row's available_at
    inproc,    \* events whose outbox write failed, to be delivered in-process
    mode,      \* a dispatcher process: running, stopping, down
    batch,     \* its claimed rows not yet marked, the one in hand included
    claim,     \* the attempts value its claim of a row returned
    phase,     \* idle, or what it does with the row in hand: handling, ok, failed
    elapsed,   \* ticks its current handler has been running
    orphans,   \* handlers abandoned by the timeout and still running
    handled,   \* ghost: events some handler run completed for
    faults,    \* faults left
    requeues   \* manual requeues left

rowVars == <<change, status, attempts, wait, inproc>>
procVars == <<mode, batch, claim, phase, elapsed>>
envVars == <<orphans, handled, faults, requeues>>
vars == <<rowVars, procVars, envVars>>

RowStatus == {"ABSENT", "UNCOMMITTED", "PENDING", "DELIVERED", "DEAD", "PRUNED"}
Stored(e) == status[e] \in {"PENDING", "DELIVERED", "DEAD"}

Init ==
    /\ change = [e \in Events |-> "none"]
    /\ status = [e \in Events |-> "ABSENT"]
    /\ attempts = [e \in Events |-> 0]
    /\ wait = [e \in Events |-> 0]
    /\ inproc = {}
    /\ mode = [d \in Dispatchers |-> "running"]
    /\ batch = [d \in Dispatchers |-> {}]
    /\ claim = [d \in Dispatchers |-> [e \in Events |-> 0]]
    /\ phase = [d \in Dispatchers |-> "idle"]
    /\ elapsed = [d \in Dispatchers |-> 0]
    /\ orphans = {} /\ handled = {}
    /\ faults = MaxFaults /\ requeues = MaxRequeues

--------------------------------------------------------------------------------
(* Producers *)

Begin(e) ==
    /\ change[e] = "none"
    /\ change' = [change EXCEPT ![e] = "open"]
    /\ UNCHANGED <<status, attempts, wait, inproc, procVars, envVars>>

(* Variant: the row is written on a connection of its own. *)
EnqueueOutsideTx(e) ==
    /\ e \in TxEvents /\ change[e] = "open" /\ status[e] = "ABSENT"
    /\ status' = [status EXCEPT ![e] = "PENDING"]
    /\ UNCHANGED <<change, attempts, wait, inproc, procVars, envVars>>

(* publish(event, { manager }): the insert joins the caller's transaction  *)
(* and stays invisible until it commits; if the insert fails the           *)
(* transaction is aborted (Rollback).                                      *)
Enqueue(e) ==
    /\ e \in TxEvents /\ change[e] = "open" /\ status[e] = "ABSENT"
    /\ status' = [status EXCEPT ![e] = "UNCOMMITTED"]
    /\ UNCHANGED <<change, attempts, wait, inproc, procVars, envVars>>

Commit(e) ==
    /\ change[e] = "open"
    /\ e \in TxEvents => status[e] # "ABSENT"
    /\ change' = [change EXCEPT ![e] = "committed"]
    /\ status' = [status EXCEPT ![e] = IF @ = "UNCOMMITTED" THEN "PENDING" ELSE @]
    /\ UNCHANGED <<attempts, wait, inproc, procVars, envVars>>

Rollback(e) ==
    /\ change[e] = "open"
    /\ change' = [change EXCEPT ![e] = "rolledback"]
    /\ status' = [status EXCEPT ![e] = IF @ = "UNCOMMITTED" THEN "ABSENT" ELSE @]
    /\ UNCHANGED <<attempts, wait, inproc, procVars, envVars>>

(* publish(event) without a manager: the caller has committed and writes   *)
(* the row in a statement of its own.  Nothing makes it take this step: a  *)
(* crash between the commit and the publish loses the event.               *)
PublishAfterCommit(e) ==
    /\ e \notin TxEvents /\ change[e] = "committed"
    /\ status[e] = "ABSENT" /\ e \notin inproc \cup handled
    /\ status' = [status EXCEPT ![e] = "PENDING"]
    /\ UNCHANGED <<change, attempts, wait, inproc, procVars, envVars>>

(* The same when the write fails: delivered in-process, once, best effort. *)
PublishFallback(e) ==
    /\ faults > 0
    /\ e \notin TxEvents /\ change[e] = "committed"
    /\ status[e] = "ABSENT" /\ e \notin inproc \cup handled
    /\ inproc' = inproc \cup {e}
    /\ faults' = faults - 1
    /\ UNCHANGED <<change, status, attempts, wait, procVars, orphans, handled, requeues>>

DeliverInProcess(e) ==
    /\ e \in inproc
    /\ inproc' = inproc \ {e}
    /\ handled' \in {handled, handled \cup {e}}
    /\ UNCHANGED <<change, status, attempts, wait, procVars, orphans, faults, requeues>>

--------------------------------------------------------------------------------
(* Dispatchers: claim a batch *)

Claimable == {e \in Events : status[e] = "PENDING" /\ wait[e] <= 0}

(* ORDER BY available_at LIMIT: as many as fit, the longest overdue first. *)
IsDueBatch(S) ==
    /\ S \subseteq Claimable
    /\ Cardinality(S) <= BatchSize
    /\ S # Claimable => Cardinality(S) = BatchSize
    /\ \A e \in S, f \in Claimable \ S : wait[e] <= wait[f]

(* Variant: the claim does not push available_at out. *)
ClaimWithoutLease(d, S) ==
    /\ mode[d] = "running" /\ phase[d] = "idle"
    /\ IsDueBatch(S)
    /\ attempts' = [e \in Events |-> IF e \in S THEN attempts[e] + 1 ELSE attempts[e]]
    /\ batch' = [batch EXCEPT ![d] = S]
    /\ claim' = [claim EXCEPT ![d] = [e \in Events |-> IF e \in S THEN attempts[e] + 1 ELSE 0]]
    /\ phase' = [phase EXCEPT ![d] = IF S = {} THEN "idle" ELSE "handling"]
    /\ UNCHANGED <<change, status, wait, inproc, mode, elapsed, envVars>>

(* CLAIM_SQL: one statement counts the attempt and hides the rows for the  *)
(* lease; the handler of the first row starts.  An idle dispatcher that    *)
(* finds nothing due changes nothing.                                      *)
Claim(d, S) ==
    /\ mode[d] = "running" /\ phase[d] = "idle"
    /\ IsDueBatch(S)
    /\ attempts' = [e \in Events |-> IF e \in S THEN attempts[e] + 1 ELSE attempts[e]]
    /\ wait' = [e \in Events |-> IF e \in S THEN Lease ELSE wait[e]]
    /\ batch' = [batch EXCEPT ![d] = S]
    /\ claim' = [claim EXCEPT ![d] = [e \in Events |-> IF e \in S THEN attempts[e] + 1 ELSE 0]]
    /\ phase' = [phase EXCEPT ![d] = IF S = {} THEN "idle" ELSE "handling"]
    /\ UNCHANGED <<change, status, inproc, mode, elapsed, envVars>>

--------------------------------------------------------------------------------
(* Dispatchers: deliver the rows of the batch one by one *)

(* The batch comes back in created_at order and is walked in that order. *)
InHand(d, e) == e \in batch[d] /\ \A f \in batch[d] : e <= f

HandlerSucceeds(d, e) ==
    /\ phase[d] = "handling" /\ InHand(d, e)
    /\ phase' = [phase EXCEPT ![d] = "ok"]
    /\ handled' = handled \cup {e}
    /\ UNCHANGED <<rowVars, mode, batch, claim, elapsed, orphans, faults, requeues>>

(* Variant: a throwing handler is caught and forgotten. *)
HandlerErrorSwallowed(d, e) ==
    /\ phase[d] = "handling" /\ InHand(d, e)
    /\ phase' = [phase EXCEPT ![d] = "ok"]
    /\ UNCHANGED <<rowVars, mode, batch, claim, elapsed, envVars>>

(* Any subscriber that throws fails the whole event. *)
HandlerFails(d, e) ==
    /\ phase[d] = "handling" /\ InHand(d, e)
    /\ phase' = [phase EXCEPT ![d] = "failed"]
    /\ UNCHANGED <<rowVars, mode, batch, claim, elapsed, envVars>>

(* withTimeout: the race rejects, the handler itself is not stopped. *)
HandlerTimesOut(d, e) ==
    /\ phase[d] = "handling" /\ InHand(d, e)
    /\ elapsed[d] = HandlerTimeout
    /\ phase' = [phase EXCEPT ![d] = "failed"]
    /\ orphans' = orphans \cup {<<d, e>>}
    /\ UNCHANGED <<rowVars, mode, batch, claim, elapsed, handled, faults, requeues>>

OrphanEnds(d, e) ==
    /\ <<d, e>> \in orphans
    /\ orphans' = orphans \ {<<d, e>>}
    /\ handled' \in {handled, handled \cup {e}}
    /\ UNCHANGED <<rowVars, procVars, faults, requeues>>

(* Done with the row in hand: the next handler starts, or the batch ends. *)
NextRow(d, e) ==
    /\ batch' = [batch EXCEPT ![d] = @ \ {e}]
    /\ phase' = [phase EXCEPT ![d] = IF batch[d] = {e} THEN "idle" ELSE "handling"]
    /\ elapsed' = [elapsed EXCEPT ![d] = 0]
    /\ claim' = [claim EXCEPT ![d][e] = 0]
    /\ UNCHANGED mode

(* DELIVERED_SQL matches the id alone, whatever the row has become. *)
MarkDelivered(d, e) ==
    /\ phase[d] = "ok" /\ InHand(d, e)
    /\ status' = [status EXCEPT ![e] = IF Stored(e) THEN "DELIVERED" ELSE @]
    /\ wait' = [wait EXCEPT ![e] = 0]
    /\ NextRow(d, e)
    /\ UNCHANGED <<change, attempts, inproc, envVars>>

Backoff(n) == LET delay == BaseBackoff * 2 ^ (n - 1)
              IN  IF delay \in 0 .. MaxBackoff THEN delay ELSE MaxBackoff

(* Variant: a failed delivery gives its attempt back. *)
MarkFailedUncounted(d, e) ==
    /\ phase[d] = "failed" /\ InHand(d, e)
    /\ attempts' = [attempts EXCEPT ![e] = IF Stored(e) THEN claim[d][e] - 1 ELSE @]
    /\ wait' = [wait EXCEPT ![e] = IF Stored(e) THEN Backoff(claim[d][e]) ELSE 0]
    /\ NextRow(d, e)
    /\ UNCHANGED <<change, status, inproc, envVars>>

(* FAILED_SQL: the decision is taken from the attempt this claim counted,  *)
(* and the row is matched by its id alone.                                 *)
MarkFailed(d, e) ==
    LET dead == claim[d][e] >= MaxAttempts IN
    /\ phase[d] = "failed" /\ InHand(d, e)
    /\ status' = [status EXCEPT ![e] =
                    IF ~Stored(e) THEN @ ELSE IF dead THEN "DEAD" ELSE "PENDING"]
    /\ wait' = [wait EXCEPT ![e] =
                    IF ~Stored(e) \/ dead THEN 0 ELSE Backoff(claim[d][e])]
    /\ NextRow(d, e)
    /\ UNCHANGED <<change, attempts, inproc, envVars>>

(* Either mark may fail; it is logged and the lease will expire. *)
MarkLost(d, e) ==
    /\ faults > 0
    /\ phase[d] \in {"ok", "failed"} /\ InHand(d, e)
    /\ NextRow(d, e)
    /\ faults' = faults - 1
    /\ UNCHANGED <<rowVars, orphans, handled, requeues>>

--------------------------------------------------------------------------------
(* Pruning, processes, people and time *)

(* At the end of a drain, hourly: delivered rows past their retention go.  *)
(* Which of them are old enough is left open.                              *)
Prune(d) ==
    /\ mode[d] # "down" /\ phase[d] = "idle"
    /\ \E S \in SUBSET {e \in Events : status[e] = "DELIVERED"} :
          status' = [e \in Events |-> IF e \in S THEN "PRUNED" ELSE status[e]]
    /\ UNCHANGED <<change, attempts, wait, inproc, procVars, envVars>>

(* The process dies: its batch, its handlers and the abandoned ones with it. *)
Crash(d) ==
    /\ faults > 0 /\ mode[d] # "down"
    /\ faults' = faults - 1
    /\ mode' = [mode EXCEPT ![d] = "down"]
    /\ batch' = [batch EXCEPT ![d] = {}]
    /\ claim' = [claim EXCEPT ![d] = [e \in Events |-> 0]]
    /\ phase' = [phase EXCEPT ![d] = "idle"]
    /\ elapsed' = [elapsed EXCEPT ![d] = 0]
    /\ orphans' = {o \in orphans : o[1] # d}
    /\ UNCHANGED <<rowVars, handled, requeues>>

(* onModuleDestroy: no new batch is claimed, the current one is finished. *)
Stop(d) ==
    /\ faults > 0 /\ mode[d] = "running"
    /\ mode' = [mode EXCEPT ![d] = "stopping"]
    /\ faults' = faults - 1
    /\ UNCHANGED <<rowVars, batch, claim, phase, elapsed, orphans, handled, requeues>>

Exit(d) ==
    /\ mode[d] = "stopping" /\ phase[d] = "idle"
    /\ mode' = [mode EXCEPT ![d] = "down"]
    /\ orphans' = {o \in orphans : o[1] # d}
    /\ UNCHANGED <<rowVars, batch, claim, phase, elapsed, handled, faults, requeues>>

Start(d) ==
    /\ mode[d] = "down"
    /\ mode' = [mode EXCEPT ![d] = "running"]
    /\ UNCHANGED <<rowVars, batch, claim, phase, elapsed, envVars>>

(* The documented way to retry dead rows, by hand, all of them at once. *)
Requeue ==
    /\ requeues > 0
    /\ requeues' = requeues - 1
    /\ status' = [e \in Events |-> IF status[e] = "DEAD" THEN "PENDING" ELSE status[e]]
    /\ attempts' = [e \in Events |-> IF status[e] = "DEAD" THEN 0 ELSE attempts[e]]
    /\ wait' = [e \in Events |-> IF status[e] = "DEAD" THEN 0 ELSE wait[e]]
    /\ UNCHANGED <<change, inproc, procVars, orphans, handled, faults>>

(* A tick passes unless a handler has used up its time or a mark is being  *)
(* written: both happen within the tick.                                   *)
Tick ==
    /\ \A d \in Dispatchers : \/ phase[d] = "idle"
                              \/ phase[d] = "handling" /\ elapsed[d] < HandlerTimeout
    /\ elapsed' = [d \in Dispatchers |-> IF phase[d] = "handling" THEN elapsed[d] + 1 ELSE elapsed[d]]
    /\ wait' = [e \in Events |-> IF status[e] = "PENDING" /\ wait[e] > -OverdueCap
                                 THEN wait[e] - 1 ELSE wait[e]]
    /\ UNCHANGED <<change, status, attempts, inproc, mode, batch, claim, phase, envVars>>

--------------------------------------------------------------------------------
Producer(e) == \/ Begin(e) \/ Enqueue(e) \/ Commit(e) \/ Rollback(e)
               \/ PublishAfterCommit(e) \/ PublishFallback(e) \/ DeliverInProcess(e)

Deliver(d, e) == \/ HandlerSucceeds(d, e) \/ HandlerFails(d, e) \/ HandlerTimesOut(d, e)
                 \/ MarkDelivered(d, e) \/ MarkFailed(d, e) \/ MarkLost(d, e)

Process(d) == Prune(d) \/ Crash(d) \/ Stop(d) \/ Exit(d) \/ Start(d)

Next ==
    \/ \E e \in Events : Producer(e)
    \/ \E d \in Dispatchers : \/ \E S \in SUBSET Events : Claim(d, S)
                              \/ \E e \in Events : Deliver(d, e) \/ OrphanEnds(d, e)
                              \/ Process(d)
    \/ Requeue
    \/ Tick

(* The event loop of each process turns: what a live one has to do next it *)
(* does, be it poll, run a handler or mark a row; a dead or stopped one is *)
(* started again; and time passes.  The steps of Advance(d) exclude one    *)
(* another.  Nothing is assumed of producers: they may crash between their *)
(* commit and their publish.                                               *)
Advance(d) == \/ \E S \in SUBSET Events : Claim(d, S)
              \/ \E e \in Events : Deliver(d, e)
              \/ Exit(d) \/ Start(d)

Fairness == WF_vars(Tick) /\ \A d \in Dispatchers : WF_vars(Advance(d))

Spec == Init /\ [][Next]_vars
FairSpec == Spec /\ Fairness

--------------------------------------------------------------------------------
(* Type correctness of every variable. *)
TypeOK ==
    /\ change \in [Events -> {"none", "open", "committed", "rolledback"}]
    /\ status \in [Events -> RowStatus]
    /\ attempts \in [Events -> Nat]
    /\ wait \in [Events -> Int]
    /\ inproc \subseteq Events
    /\ mode \in [Dispatchers -> {"running", "stopping", "down"}]
    /\ batch \in [Dispatchers -> SUBSET Events]
    /\ claim \in [Dispatchers -> [Events -> Nat]]
    /\ phase \in [Dispatchers -> {"idle", "handling", "ok", "failed"}]
    /\ elapsed \in [Dispatchers -> 0 .. HandlerTimeout]
    /\ orphans \subseteq Dispatchers \X Events
    /\ handled \subseteq Events
    /\ faults \in Nat /\ requeues \in Nat

(* A row is only ever marked delivered, and so only ever pruned, after     *)
(* some run of its handler completed: an event is never dropped silently.  *)
DeliveredWasHandled ==
    \A e \in Events : status[e] \in {"DELIVERED", "PRUNED"} => e \in handled

(* No subscriber ever hears of a change that has not committed: not while  *)
(* its transaction is open and not after it rolled back.                   *)
HandledWasCommitted ==
    \A e \in Events : e \in handled => change[e] = "committed"

(* No row is in the hands of two dispatchers at once, so the handler of an *)
(* event is never awaited twice at the same time.                          *)
ClaimsAreExclusive ==
    \A c, d \in Dispatchers : c # d => batch[c] \cap batch[d] = {}

(* Why it holds: a claimed row stays hidden for longer than its dispatcher *)
(* can still need for the rows of the batch.                               *)
LeaseCoversBatch ==
    \A d \in Dispatchers : \A e \in batch[d] :
        /\ status[e] = "PENDING"
        /\ wait[e] > Cardinality(batch[d]) * HandlerTimeout - elapsed[d]
================================================================================
