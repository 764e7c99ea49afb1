----------------------------- MODULE Subscription -----------------------------
(* The subscription of one organization: webhooks of the payment provider,    *)
(* delivered at least once and in any order, checkouts, cancellation, the     *)
(* hourly sync of the seats, and the guard that refuses writes by a verdict   *)
(* each process caches for a minute.                                          *)
EXTENDS Integers, Sequences, FiniteSets

CONSTANTS
    Processes,   \* API processes, each with a cache and a cron
    Guards,      \* those whose guard is looked at
    Syncers,     \* those whose hourly cron is looked at
    Checkouts,   \* checkout sessions, and the subscriptions they become
    PlanOf,      \* the plan a session is for
    NoCheckout,
    InOrder,     \* whether the provider delivers events in the order they happened
    TrialEnds,   \* the end of the trial, in ticks; a tick is the minute of the cache
    Grace,       \* DUNNING_GRACE_DAYS, in ticks
    MaxTime,     \* bound: ticks
    MaxEvents,   \* bound: no payment or cancellation happens past so many events
    MaxUsers,    \* bound: active users
    MaxHires     \* bound: changes of the number of active users

ASSUME SubscriptionAssumption ==
    /\ Guards \subseteq Processes /\ Syncers \subseteq Processes
    /\ NoCheckout \notin Checkouts /\ InOrder \in BOOLEAN
    /\ TrialEnds \in Nat /\ Grace \in Nat /\ MaxTime \in Nat /\ MaxEvents \in Nat
    /\ MaxUsers \in Nat \ {0} /\ MaxHires \in Nat

VARIABLES
    row,        \* the subscription, as committed
    applied,    \* billing_events: the ids of the events that were recorded
    tx,         \* the webhook transaction a process has open
    cache,      \* the cached verdict of each process, and until when it is good
    reader,     \* the verdict a write request has read and not stored yet
    session,    \* the checkout sessions
    psub,       \* the provider's subscriptions
    sent,       \* the provider's events, in the order they happened
    cancelling, \* the cancellation under way: what it read, or that the provider was told
    sync,       \* the seat sync of each process
    users,      \* active users
    hires, now, \* bounded counters
    decision,   \* ghost: the verdict acted on in this tick
    recent,     \* ghost: the verdicts the committed row has meant in this tick and the last
    counted,    \* ghost: the failed payments applied since the count was last reset
    overlapped, \* ghost: whether a checkout was tried beside an unfinished subscription
    reordered   \* ghost: whether an event was recorded before one that had happened earlier

billingVars == <<row, applied, tx>>
guardVars == <<cache, reader, decision>>
providerVars == <<session, psub, sent, overlapped>>
seatVars == <<sync, users, hires>>
clockVars == <<now, recent, counted, reordered>>
vars == <<billingVars, guardVars, providerVars, cancelling, seatVars, clockVars>>

--------------------------------------------------------------------------------
(* Data *)

(* PAST_DUE is what the provider calls past_due, unpaid or paused, CANCELED   *)
(* what it calls canceled or incomplete_expired.                              *)
Statuses == {"TRIALING", "ACTIVE", "PAST_DUE", "CANCELED", "INCOMPLETE"}
NoDate == -1
NoTx == [event |-> 0]
NoEntry == [verdict |-> "none", until |-> 0]
Idle == [at |-> "idle"]
Live == {"ACTIVE", "PAST_DUE"}
Unfinished == Live \cup {"INCOMPLETE"}

(* What a row means for a write at a time. *)
Verdict(r, t) ==
    IF \/ r.status = "TRIALING" /\ t >= TrialEnds
       \/ r.status = "PAST_DUE" /\ r.since # NoDate /\ t >= r.since + Grace
       \/ r.status \in {"CANCELED", "INCOMPLETE"}
    THEN "restricted" ELSE "free"

Init ==
    /\ row = [status |-> "TRIALING", since |-> NoDate, failed |-> 0, sub |-> NoCheckout,
              customer |-> NoCheckout, plan |-> "none", cancels |-> FALSE, seats |-> 1]
    /\ applied = {}
    /\ tx = [p \in Processes |-> NoTx]
    /\ cache = [p \in Processes |-> NoEntry]
    /\ reader = [p \in Processes |-> "idle"]
    /\ session = [c \in Checkouts |-> [at |-> "new", seats |-> 0, customer |-> NoCheckout]]
    /\ psub = [c \in Checkouts |-> [status |-> "none", seats |-> 0, cancels |-> FALSE]]
    /\ sent = <<>>
    /\ sync = [p \in Syncers |-> Idle]
    /\ users = 1 /\ hires = 0 /\ now = 0 /\ cancelling = Idle
    /\ decision = "none"
    /\ recent = [this |-> {Verdict(row, 0)}, last |-> {}]
    /\ counted = {} /\ overlapped = FALSE /\ reordered = FALSE

--------------------------------------------------------------------------------
(* The provider *)

(* The customer of a session: the one it was created with, or one of its own. *)
CustomerOf(c) == IF session[c].customer = NoCheckout THEN c ELSE session[c].customer

Event(kind, c, subs) == [kind |-> kind, sub |-> c, customer |-> CustomerOf(c),
                         status |-> subs[c].status, seats |-> subs[c].seats,
                         cancels |-> subs[c].cancels]
Emit(events) == sent' = sent \o events
MayHappen == Len(sent) < MaxEvents

(* Somebody pays at an open session, or tries to.                             *)
Tries(c) ==
    /\ session[c].at \in {"open", "stored"} /\ psub[c].status \in {"none", "INCOMPLETE"}
    /\ MayHappen
    /\ overlapped' = (overlapped \/ \E d \in Checkouts \ {c} : psub[d].status \in Unfinished)
    /\ UNCHANGED <<billingVars, guardVars, session, seatVars, cancelling, clockVars>>

(* A session is paid: a subscription, and the events of its creation.         *)
CheckoutPaid(c) ==
    /\ Tries(c)
    /\ psub' = [psub EXCEPT ![c] = [status |-> "ACTIVE", seats |-> session[c].seats,
                                    cancels |-> FALSE]]
    /\ Emit(<<Event("subscription.updated", c, psub'), Event("payment.succeeded", c, psub'),
              Event("checkout.completed", c, psub')>>)

(* The first payment is declined: the subscription is there, and incomplete.  *)
CheckoutDeclined(c) ==
    /\ Tries(c)
    /\ psub' = [psub EXCEPT ![c] = [status |-> "INCOMPLETE", seats |-> session[c].seats,
                                    cancels |-> FALSE]]
    /\ \/ Emit(<<Event("subscription.updated", c, psub'), Event("payment.failed", c, psub')>>)
       \/ Emit(<<Event("payment.failed", c, psub'), Event("subscription.updated", c, psub')>>)

(* Nobody pays it within a day: it is incomplete_expired.                     *)
CheckoutExpires(c) ==
    /\ psub[c].status = "INCOMPLETE" /\ MayHappen
    /\ psub' = [psub EXCEPT ![c].status = "CANCELED"]
    /\ overlapped' = (overlapped \/ \E d \in Checkouts \ {c} : psub[d].status \in Unfinished)
    /\ Emit(<<Event("subscription.updated", c, psub')>>)
    /\ UNCHANGED <<billingVars, guardVars, session, seatVars, cancelling, clockVars>>

(* A renewal is paid, or is not. *)
RenewalPaid(c) ==
    /\ psub[c].status \in Live /\ ~psub[c].cancels /\ MayHappen
    /\ psub' = [psub EXCEPT ![c].status = "ACTIVE"]
    /\ Emit(<<Event("payment.succeeded", c, psub'), Event("subscription.updated", c, psub')>>)
    /\ UNCHANGED <<billingVars, guardVars, session, overlapped, seatVars, cancelling, clockVars>>

RenewalFails(c) ==
    /\ psub[c].status \in Live /\ ~psub[c].cancels /\ MayHappen
    /\ psub' = [psub EXCEPT ![c].status = "PAST_DUE"]
    /\ Emit(<<Event("payment.failed", c, psub'), Event("subscription.updated", c, psub')>>)
    /\ UNCHANGED <<billingVars, guardVars, session, overlapped, seatVars, cancelling, clockVars>>

(* It is paused, left unpaid, or taken up again: no payment tells of that.    *)
StandingChanges(c) ==
    /\ psub[c].status \in Live /\ MayHappen
    /\ \E status \in Live : psub' = [psub EXCEPT ![c].status = status]
    /\ Emit(<<Event("subscription.updated", c, psub')>>)
    /\ UNCHANGED <<billingVars, guardVars, session, overlapped, seatVars, cancelling, clockVars>>

(* The period of a cancelled subscription ends, or the provider gives up.     *)
SubscriptionEnds(c) ==
    /\ \/ psub[c].status = "PAST_DUE"
       \/ psub[c].status = "ACTIVE" /\ psub[c].cancels
    /\ MayHappen
    /\ psub' = [psub EXCEPT ![c].status = "CANCELED"]
    /\ Emit(<<Event("subscription.deleted", c, psub')>>)
    /\ UNCHANGED <<billingVars, guardVars, session, overlapped, seatVars, cancelling, clockVars>>

--------------------------------------------------------------------------------
(* Webhooks *)

ActiveAgain(r) == [r EXCEPT !.status = "ACTIVE", !.since = NoDate, !.failed = 0]
PastDue(r) == [r EXCEPT !.status = "PAST_DUE", !.since = IF @ = NoDate THEN now ELSE @]

(* What an event makes of the row. *)
Applied(r, e) ==
    CASE e.kind = "checkout.completed" ->
             [ActiveAgain(r) EXCEPT !.sub = e.sub, !.customer = e.customer, !.cancels = FALSE]
      [] e.kind = "subscription.updated" ->
             LET u == [r EXCEPT !.status = e.status, !.cancels = e.cancels, !.seats = e.seats]
             IN  IF e.status = "ACTIVE" THEN [u EXCEPT !.since = NoDate]
                 ELSE IF e.status = "PAST_DUE" THEN PastDue(u) ELSE u
      [] e.kind = "subscription.deleted" -> [r EXCEPT !.status = "CANCELED"]
      [] e.kind = "payment.failed" -> [PastDue(r) EXCEPT !.failed = @ + 1]
      [] e.kind = "payment.succeeded" ->
             [r EXCEPT !.status = IF @ = "PAST_DUE" THEN "ACTIVE" ELSE @,
                       !.since = NoDate, !.failed = 0]

(* Events about a subscription name the organization; those about a payment   *)
(* only a subscription and a customer, which checkout.completed makes known.  *)
Matched(r, e) ==
    e.kind \in {"payment.failed", "payment.succeeded"} =>
        r.sub = e.sub \/ r.customer = e.customer

(* An event is delivered while one that happened before it is not yet recorded. *)
Overtakes(i) == \E j \in DOMAIN sent : j < i /\ j \notin applied
Deliverable(i) == InOrder => ~Overtakes(i)

NobodyApplies == \A p \in Processes : tx[p] = NoTx

(* Variant: the row is not locked. *)
BeginApplyUnlocked(p, i) ==
    /\ tx[p] = NoTx /\ i \in DOMAIN sent \ applied /\ Deliverable(i)
    /\ \A q \in Processes : tx[q].event # i
    /\ tx' = [tx EXCEPT ![p] = [event |-> i,
              row |-> IF Matched(row, sent[i]) THEN Applied(row, sent[i]) ELSE row]]
    /\ cache' = IF Matched(row, sent[i]) THEN [cache EXCEPT ![p] = NoEntry] ELSE cache
    /\ UNCHANGED <<row, applied, reader, decision, providerVars, seatVars, cancelling, clockVars>>

(* A delivery that is news: the event is recorded, the row locked and changed *)
(* and, before the commit, the cache of this process cleared.                 *)
BeginApply(p, i) ==
    /\ NobodyApplies
    /\ i \in DOMAIN sent \ applied /\ Deliverable(i)
    /\ tx' = [tx EXCEPT ![p] = [event |-> i,
              row |-> IF Matched(row, sent[i]) THEN Applied(row, sent[i]) ELSE row]]
    /\ cache' = IF Matched(row, sent[i]) THEN [cache EXCEPT ![p] = NoEntry] ELSE cache
    /\ UNCHANGED <<row, applied, reader, decision, providerVars, seatVars, cancelling, clockVars>>

CountedAfter(i) ==
    LET kind == sent[i].kind IN
    IF Matched(row, sent[i]) /\ kind = "payment.failed" THEN counted \cup {i}
    ELSE IF Matched(row, sent[i]) /\ kind \in {"payment.succeeded", "checkout.completed"} THEN {}
    ELSE counted

CommitApply(p) ==
    /\ tx[p] # NoTx
    /\ row' = tx[p].row
    /\ applied' = applied \cup {tx[p].event}
    /\ tx' = [tx EXCEPT ![p] = NoTx]
    /\ recent' = [recent EXCEPT !.this = @ \cup {Verdict(tx[p].row, now)}]
    /\ counted' = CountedAfter(tx[p].event)
    /\ reordered' = (reordered \/ Overtakes(tx[p].event))
    /\ UNCHANGED <<guardVars, providerVars, seatVars, cancelling, now>>

(* Variant: the event is recorded in a transaction of its own. *)
RollbackApplyRecorded(p) ==
    /\ tx[p] # NoTx
    /\ tx' = [tx EXCEPT ![p] = NoTx]
    /\ applied' = applied \cup {tx[p].event}
    /\ UNCHANGED <<row, guardVars, providerVars, seatVars, cancelling, clockVars>>

(* The transaction fails, or the process dies in it: the event comes again.   *)
RollbackApply(p) ==
    /\ tx[p] # NoTx
    /\ tx' = [tx EXCEPT ![p] = NoTx]
    /\ UNCHANGED <<row, applied, guardVars, providerVars, seatVars, cancelling, clockVars>>

--------------------------------------------------------------------------------
(* Requests *)

(* A checkout reads the row, counts the users and creates the session at the  *)
(* provider; it is payable before the row remembers the plan.                 *)
CheckoutReads(c) ==
    /\ session[c].at = "new"
    /\ ~(row.status = "ACTIVE" /\ row.plan = PlanOf[c])
    /\ session' = [session EXCEPT ![c].at = "read", ![c].customer = row.customer]
    /\ UNCHANGED <<billingVars, guardVars, psub, sent, overlapped, cancelling, seatVars,
                   clockVars>>

CheckoutOpens(c) ==
    /\ session[c].at = "read"
    /\ session' = [session EXCEPT ![c].at = "open", ![c].seats = users]
    /\ UNCHANGED <<billingVars, guardVars, psub, sent, overlapped, cancelling, seatVars,
                   clockVars>>

CheckoutStored(c) ==
    /\ session[c].at = "open" /\ NobodyApplies
    /\ session' = [session EXCEPT ![c].at = "stored"]
    /\ row' = [row EXCEPT !.plan = PlanOf[c]]
    /\ UNCHANGED <<applied, tx, guardVars, psub, sent, overlapped, cancelling, seatVars,
                   clockVars>>

(* A cancellation reads the row, tells the provider and stores the flag.      *)
CancelReads ==
    /\ cancelling = Idle /\ row.status \in Live
    /\ cancelling' = [at |-> "read", sub |-> row.sub]
    /\ UNCHANGED <<billingVars, guardVars, providerVars, seatVars, clockVars>>

Cancel ==
    LET c == cancelling.sub IN
    /\ cancelling.at = "read"
    /\ \/ c = NoCheckout /\ UNCHANGED <<psub, sent>>
       \/ /\ c # NoCheckout /\ psub[c].status \in Live /\ MayHappen
          /\ psub' = [psub EXCEPT ![c].cancels = TRUE]
          /\ IF psub' = psub THEN UNCHANGED sent
             ELSE Emit(<<Event("subscription.updated", c, psub')>>)
    /\ cancelling' = [at |-> "told"]
    /\ UNCHANGED <<billingVars, guardVars, session, overlapped, seatVars, clockVars>>

CancelStored(p) ==
    /\ cancelling.at = "told" /\ NobodyApplies
    /\ cancelling' = Idle
    /\ row' = [row EXCEPT !.cancels = TRUE]
    /\ cache' = [cache EXCEPT ![p] = NoEntry]
    /\ UNCHANGED <<applied, tx, reader, decision, providerVars, seatVars, clockVars>>

(* The provider refuses, or the process dies. *)
CancelDies ==
    /\ cancelling # Idle
    /\ cancelling' = Idle
    /\ UNCHANGED <<billingVars, guardVars, providerVars, seatVars, clockVars>>

(* Variant: an entry is good until it is cleared. *)
UseCachedForever(p) ==
    /\ reader[p] = "idle" /\ cache[p] # NoEntry
    /\ decision' = cache[p].verdict
    /\ UNCHANGED <<billingVars, cache, reader, providerVars, cancelling, seatVars, clockVars>>

(* A write asks for the verdict.  An entry is good for a minute: in the tick  *)
(* after the one it was stored in it may still be good or not.                *)
UseCached(p) ==
    /\ reader[p] = "idle" /\ cache[p] # NoEntry /\ now <= cache[p].until
    /\ decision' = cache[p].verdict
    /\ UNCHANGED <<billingVars, cache, reader, providerVars, cancelling, seatVars, clockVars>>

ReadRow(p) ==
    /\ reader[p] = "idle" /\ now >= cache[p].until
    /\ reader' = [reader EXCEPT ![p] = Verdict(row, now)]
    /\ UNCHANGED <<billingVars, cache, decision, providerVars, cancelling, seatVars, clockVars>>

StoreVerdict(p) ==
    /\ reader[p] # "idle"
    /\ cache' = [cache EXCEPT ![p] = [verdict |-> reader[p], until |-> now + 1]]
    /\ decision' = reader[p]
    /\ reader' = [reader EXCEPT ![p] = "idle"]
    /\ UNCHANGED <<billingVars, providerVars, cancelling, seatVars, clockVars>>

--------------------------------------------------------------------------------
(* The hourly sync of the seats *)

(* Variant: a trial is passed over, and so is one that is past due. *)
SyncLoadActive(p) ==
    /\ sync[p] = Idle /\ row.status = "ACTIVE"
    /\ sync' = [sync EXCEPT ![p] = [at |-> "loaded", row |-> row]]
    /\ UNCHANGED <<billingVars, guardVars, providerVars, cancelling, users, hires, clockVars>>

(* The cron lists the subscriptions and reads each again: one step here.      *)
SyncLoad(p) ==
    /\ sync[p] = Idle /\ row.status \in {"ACTIVE", "TRIALING", "PAST_DUE"}
    /\ sync' = [sync EXCEPT ![p] = [at |-> "loaded", row |-> row]]
    /\ UNCHANGED <<billingVars, guardVars, providerVars, cancelling, users, hires, clockVars>>

SyncCount(p) ==
    /\ sync[p].at = "loaded"
    /\ sync' = [sync EXCEPT ![p] =
           IF users = @.row.seats THEN Idle ELSE [at |-> "counted", row |-> @.row, seats |-> users]]
    /\ UNCHANGED <<billingVars, guardVars, providerVars, cancelling, users, hires, clockVars>>

(* The provider is told of an active subscription; it reports a change.       *)
SyncProvider(p) ==
    LET c == sync[p].row.sub IN
    /\ sync[p].at = "counted"
    /\ \/ /\ sync[p].row.status = "ACTIVE" /\ c # NoCheckout /\ psub[c].status \in Live
          /\ psub' = [psub EXCEPT ![c].seats = sync[p].seats]
          /\ IF psub' = psub THEN UNCHANGED sent
             ELSE Emit(<<Event("subscription.updated", c, psub')>>)
       \/ (sync[p].row.status # "ACTIVE" \/ c = NoCheckout) /\ UNCHANGED <<psub, sent>>
    /\ sync' = [sync EXCEPT ![p].at = "told"]
    /\ UNCHANGED <<billingVars, guardVars, session, overlapped, cancelling, users, hires,
                   clockVars>>

SyncStore(p) ==
    /\ sync[p].at = "told" /\ NobodyApplies
    /\ row' = [row EXCEPT !.seats = sync[p].seats]
    /\ sync' = [sync EXCEPT ![p] = Idle]
    /\ UNCHANGED <<applied, tx, guardVars, providerVars, cancelling, users, hires, clockVars>>

(* A call fails and is logged, or the process dies. *)
SyncFails(p) ==
    /\ sync[p] # Idle
    /\ sync' = [sync EXCEPT ![p] = Idle]
    /\ UNCHANGED <<billingVars, guardVars, providerVars, cancelling, users, hires, clockVars>>

(* Somebody joins or leaves. *)
UsersChange ==
    /\ hires < MaxHires /\ hires' = hires + 1
    /\ users' \in (1..MaxUsers) \ {users}
    /\ UNCHANGED <<billingVars, guardVars, providerVars, cancelling, sync, clockVars>>

--------------------------------------------------------------------------------

(* A minute passes; no request or transaction lasts that long.                *)
Tick ==
    /\ now < MaxTime /\ NobodyApplies /\ \A p \in Processes : reader[p] = "idle"
    /\ now' = now + 1
    /\ decision' = "none"
    /\ recent' = [this |-> {Verdict(row, now + 1)}, last |-> recent.this]
    /\ UNCHANGED <<billingVars, cache, reader, providerVars, cancelling, seatVars, counted,
                   reordered>>

Provider(c) ==
    \/ CheckoutPaid(c) \/ CheckoutDeclined(c) \/ CheckoutExpires(c)
    \/ RenewalPaid(c) \/ RenewalFails(c) \/ StandingChanges(c) \/ SubscriptionEnds(c)
Checkout(c) == CheckoutReads(c) \/ CheckoutOpens(c) \/ CheckoutStored(c)
Webhook(p) == (\E i \in DOMAIN sent : BeginApply(p, i)) \/ CommitApply(p) \/ RollbackApply(p)
Guard(p) == UseCached(p) \/ ReadRow(p) \/ StoreVerdict(p)
Sync(p) == SyncLoad(p) \/ SyncCount(p) \/ SyncProvider(p) \/ SyncStore(p) \/ SyncFails(p)

Next ==
    \/ \E c \in Checkouts : Provider(c) \/ Checkout(c)
    \/ \E p \in Processes : Webhook(p) \/ CancelStored(p)
    \/ \E p \in Guards : Guard(p)
    \/ \E p \in Syncers : Sync(p)
    \/ CancelReads \/ Cancel \/ CancelDies \/ UsersChange \/ Tick

Spec == Init /\ [][Next]_vars

(* The provider repeats a delivery until it is taken, the cron runs hourly,   *)
(* and neither the provider nor the database fails it every time.             *)
Fairness ==
    /\ \A p \in Syncers :
           /\ SF_vars(\E i \in DOMAIN sent : BeginApply(p, i)) /\ SF_vars(CommitApply(p))
           /\ WF_vars(SyncLoad(p)) /\ SF_vars(SyncCount(p))
           /\ SF_vars(SyncProvider(p)) /\ SF_vars(SyncStore(p))

FairSpec == Spec /\ Fairness

--------------------------------------------------------------------------------
(* Properties *)

RowType == [status : Statuses, since : NoDate..MaxTime, failed : Nat,
            sub : Checkouts \cup {NoCheckout}, customer : Checkouts \cup {NoCheckout},
            plan : {PlanOf[c] : c \in Checkouts} \cup {"none"},
            cancels : BOOLEAN, seats : Nat]

(* Rows, transactions, caches and the provider's state keep their types.      *)
TypeOK ==
    /\ row \in RowType
    /\ applied \subseteq DOMAIN sent
    /\ \A p \in Processes :
           tx[p] = NoTx \/ (tx[p].event \in DOMAIN sent /\ tx[p].row \in RowType)
    /\ cache \in [Processes -> [verdict : {"none", "restricted", "free"}, until : 0..(MaxTime + 1)]]
    /\ reader \in [Processes -> {"idle", "restricted", "free"}]
    /\ \A c \in Checkouts : session[c].at \in {"new", "read"} => psub[c].status = "none"
    /\ now \in 0..MaxTime /\ users \in 1..MaxUsers

(* However webhooks race and are repeated, each failed payment counts once.   *)
FailuresCounted == row.failed = Cardinality(counted)

(* A write is let through or refused by what the subscription was no longer   *)
(* ago than the cache lasts, whichever process answers.                       *)
VerdictIsRecent == decision \in recent.this \cup recent.last \cup {"none"}

AllApplied == applied = DOMAIN sent

(* Recorded in the order they happened, whatever was delivered twice or rolled *)
(* back, the events leave the row telling the provider's state of the          *)
(* subscription they last told of, and following it while it is live, as long  *)
(* as nobody tries a checkout beside a subscription that is not over; while    *)
(* its own first payment is still due, the row may tell anything.              *)
AgreesInOrder ==
    AllApplied /\ ~reordered /\ ~overlapped /\ sent # <<>> =>
        LET c == sent[Len(sent)].sub IN
        /\ psub[c].status # "INCOMPLETE" => row.status = psub[c].status
        /\ psub[c].status \in Live => row.sub = c

(* "What stops is writing, once a trial has run out with no subscription, or a *)
(* failed payment has gone unresolved past the grace period": a subscription   *)
(* the provider counts as paid lets people write, once every event is applied. *)
PaidMayWrite ==
    AllApplied /\ ~reordered /\ (\E c \in Checkouts : psub[c].status = "ACTIVE") =>
        Verdict(row, now) = "free"

(* Once nobody joins or leaves, the row comes to say how many users there     *)
(* are, unless the provider has ended a subscription or the row was left      *)
(* incomplete, which the cron passes over: the hourly sync catches up with    *)
(* whatever late or reordered events and failed calls left there.             *)
RowCountsUsers ==
    row.status # "INCOMPLETE" /\ (\A c \in Checkouts : psub[c].status # "CANCELED") =>
        row.seats = users
SeatsFollow == <>[]RowCountsUsers

(* "Keeps the billed seat count equal to active users": once nobody joins or  *)
(* leaves, the provider comes to bill as many seats as there are users.       *)
SeatsAgree == \A c \in Checkouts : psub[c].status = "ACTIVE" => psub[c].seats = users
SeatsSettle == <>[]SeatsAgree
================================================================================
