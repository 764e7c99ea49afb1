--------------------------- MODULE EventOutboxProofs ---------------------------
(* Theorems about the event outbox, for any number of events, dispatchers,   *)
(* attempts and faults, and any timing.                                      *)
EXTENDS MCEventOutbox, FiniteSetTheorems, TLAPS

USE OutboxAssumption

(* The retry delay is a number of ticks, however often the event failed.     *)
LEMMA BackoffType == \A n : Backoff(n) \in Nat
  BY DEF Backoff

(* Every step of the outbox keeps the types.                                 *)
LEMMA TypeStep == TypeOK /\ [Next]_vars => TypeOK'
<1> SUFFICES ASSUME TypeOK, [Next]_vars PROVE TypeOK'
  OBVIOUS
<1> USE DEF TypeOK, RowStatus, rowVars, procVars, envVars
<1>1. CASE UNCHANGED vars
  BY <1>1 DEF vars
<1>2. ASSUME NEW e \in Events, Producer(e) PROVE TypeOK'
  <2>1. CASE Begin(e)
    BY <2>1 DEF Begin
  <2>2. CASE Enqueue(e)
    BY <2>2 DEF Enqueue
  <2>3. CASE Commit(e)
    BY <2>3 DEF Commit
  <2>4. CASE Rollback(e)
    BY <2>4 DEF Rollback
  <2>5. CASE PublishAfterCommit(e)
    BY <2>5 DEF PublishAfterCommit
  <2>6. CASE PublishFallback(e)
    BY <2>6 DEF PublishFallback
  <2>7. CASE DeliverInProcess(e)
    BY <2>7 DEF DeliverInProcess
  <2> QED
    BY <1>2, <2>1, <2>2, <2>3, <2>4, <2>5, <2>6, <2>7 DEF Producer
<1>3. ASSUME NEW d \in Dispatchers, NEW S \in SUBSET Events, Claim(d, S) PROVE TypeOK'
  BY <1>3 DEF Claim
<1>4. ASSUME NEW d \in Dispatchers, NEW e \in Events, Deliver(d, e) PROVE TypeOK'
  <2>1. CASE HandlerSucceeds(d, e)
    BY <2>1 DEF HandlerSucceeds
  <2>2. CASE HandlerFails(d, e)
    BY <2>2 DEF HandlerFails
  <2>3. CASE HandlerTimesOut(d, e)
    BY <2>3 DEF HandlerTimesOut
  <2>4. CASE MarkDelivered(d, e)
    BY <2>4 DEF MarkDelivered, NextRow
  <2>5. CASE MarkFailed(d, e)
    BY <2>5, BackoffType DEF MarkFailed, NextRow
  <2>6. CASE MarkLost(d, e)
    BY <2>6 DEF MarkLost, NextRow
  <2> QED
    BY <1>4, <2>1, <2>2, <2>3, <2>4, <2>5, <2>6 DEF Deliver
<1>5. ASSUME NEW d \in Dispatchers, NEW e \in Events, OrphanEnds(d, e) PROVE TypeOK'
  BY <1>5 DEF OrphanEnds
<1>6. ASSUME NEW d \in Dispatchers, Process(d) PROVE TypeOK'
  <2>1. CASE Prune(d)
    BY <2>1 DEF Prune
  <2>2. CASE Crash(d)
    BY <2>2 DEF Crash
  <2>3. CASE Stop(d)
    BY <2>3 DEF Stop
  <2>4. CASE Exit(d)
    BY <2>4 DEF Exit
  <2>5. CASE Start(d)
    BY <2>5 DEF Start
  <2> QED
    BY <1>6, <2>1, <2>2, <2>3, <2>4, <2>5 DEF Process
<1>7. CASE Requeue
  BY <1>7 DEF Requeue
<1>8. CASE Tick
  BY <1>8 DEF Tick
<1> QED
  BY <1>1, <1>2, <1>3, <1>4, <1>5, <1>6, <1>7, <1>8 DEF Next

(* Type correctness of the outbox.                                           *)
THEOREM TypeCorrect == Spec => []TypeOK
<1>1. Init => TypeOK
  BY DEF Init, TypeOK, RowStatus
<1> QED
  BY <1>1, TypeStep, PTL DEF Spec

--------------------------------------------------------------------------------
(* No event is handled unless the change it describes has committed.         *)

Visible == {"PENDING", "DELIVERED", "DEAD", "PRUNED"}

(* Everything that leads to a handler run belongs to a committed change, and *)
(* an insert that joined a transaction stays invisible until it ends.        *)
CommitInv ==
    /\ \A e \in Events : status[e] \in Visible => change[e] = "committed"
    /\ \A e \in Events : status[e] = "UNCOMMITTED" => change[e] = "open" /\ e \in TxEvents
    /\ \A d \in Dispatchers : \A e \in batch[d] : status[e] \in Visible
    /\ \A o \in orphans : status[o[2]] \in Visible
    /\ \A e \in inproc : change[e] = "committed" /\ e \notin TxEvents
    /\ \A e \in handled : change[e] = "committed"

(* Every step of the outbox keeps that.                                      *)
LEMMA CommitStep == TypeOK /\ CommitInv /\ [Next]_vars => CommitInv'
<1> SUFFICES ASSUME TypeOK, CommitInv, [Next]_vars PROVE CommitInv'
  OBVIOUS
<1> USE DEF TypeOK, RowStatus, CommitInv, Visible, rowVars, procVars, envVars
<1>1. CASE UNCHANGED vars
  BY <1>1 DEF vars
<1>2. ASSUME NEW e \in Events, Producer(e) PROVE CommitInv'
  <2>1. CASE Begin(e)
    BY <2>1 DEF Begin
  <2>2. CASE Enqueue(e)
    BY <2>2 DEF Enqueue
  <2>3. CASE Commit(e)
    BY <2>3 DEF Commit
  <2>4. CASE Rollback(e)
    BY <2>4 DEF Rollback
  <2>5. CASE PublishAfterCommit(e)
    BY <2>5 DEF PublishAfterCommit
  <2>6. CASE PublishFallback(e)
    BY <2>6 DEF PublishFallback
  <2>7. CASE DeliverInProcess(e)
    BY <2>7 DEF DeliverInProcess
  <2> QED
    BY <1>2, <2>1, <2>2, <2>3, <2>4, <2>5, <2>6, <2>7 DEF Producer
<1>3. ASSUME NEW d \in Dispatchers, NEW S \in SUBSET Events, Claim(d, S) PROVE CommitInv'
  BY <1>3 DEF Claim, IsDueBatch, Claimable
<1>4. ASSUME NEW d \in Dispatchers, NEW e \in Events, Deliver(d, e) PROVE CommitInv'
  <2>1. CASE HandlerSucceeds(d, e)
    BY <2>1 DEF HandlerSucceeds, InHand
  <2>2. CASE HandlerFails(d, e)
    BY <2>2 DEF HandlerFails
  <2>3. CASE HandlerTimesOut(d, e)
    BY <2>3 DEF HandlerTimesOut, InHand
  <2>4. CASE MarkDelivered(d, e)
    BY <2>4 DEF MarkDelivered, NextRow, Stored
  <2>5. CASE MarkFailed(d, e)
    BY <2>5 DEF MarkFailed, NextRow, Stored
  <2>6. CASE MarkLost(d, e)
    BY <2>6 DEF MarkLost, NextRow
  <2> QED
    BY <1>4, <2>1, <2>2, <2>3, <2>4, <2>5, <2>6 DEF Deliver
<1>5. ASSUME NEW d \in Dispatchers, NEW e \in Events, OrphanEnds(d, e) PROVE CommitInv'
  BY <1>5 DEF OrphanEnds
<1>6. ASSUME NEW d \in Dispatchers, Process(d) PROVE CommitInv'
  <2>1. CASE Prune(d)
    BY <2>1 DEF Prune
  <2>2. CASE Crash(d)
    BY <2>2 DEF Crash
  <2>3. CASE Stop(d) \/ Exit(d) \/ Start(d)
    BY <2>3 DEF Stop, Exit, Start
  <2> QED
    BY <1>6, <2>1, <2>2, <2>3 DEF Process
<1>7. CASE Requeue
  BY <1>7 DEF Requeue
<1>8. CASE Tick
  BY <1>8 DEF Tick
<1> QED
  BY <1>1, <1>2, <1>3, <1>4, <1>5, <1>6, <1>7, <1>8 DEF Next

(* Subscribers never hear of a change that is open or was rolled back.       *)
THEOREM HandledCommitted == Spec => []HandledWasCommitted
<1>1. Init => CommitInv
  BY DEF Init, CommitInv, Visible
<1>2. CommitInv => HandledWasCommitted
  BY DEF CommitInv, HandledWasCommitted
<1> QED
  BY <1>1, <1>2, TypeCorrect, CommitStep, PTL DEF Spec

--------------------------------------------------------------------------------
(* A delivered row was handled. *)

(* The mark is only written by a dispatcher whose handler completed.         *)
DeliveredInv ==
    /\ DeliveredWasHandled
    /\ \A d \in Dispatchers : \A e \in Events :
          phase[d] = "ok" /\ InHand(d, e) => e \in handled

(* Every step of the outbox keeps that.                                      *)
LEMMA DeliveredStep == TypeOK /\ DeliveredInv /\ [Next]_vars => DeliveredInv'
<1> SUFFICES ASSUME TypeOK, DeliveredInv, [Next]_vars PROVE DeliveredInv'
  OBVIOUS
<1> USE DEF TypeOK, RowStatus, DeliveredInv, DeliveredWasHandled, InHand,
            rowVars, procVars, envVars
<1>1. CASE UNCHANGED vars
  BY <1>1 DEF vars
<1>2. ASSUME NEW e \in Events, Producer(e) PROVE DeliveredInv'
  <2>1. CASE Begin(e)
    BY <2>1 DEF Begin
  <2>2. CASE Enqueue(e) \/ PublishAfterCommit(e)
    BY <2>2 DEF Enqueue, PublishAfterCommit
  <2>3. CASE Commit(e) \/ Rollback(e)
    BY <2>3 DEF Commit, Rollback
  <2>4. CASE PublishFallback(e) \/ DeliverInProcess(e)
    BY <2>4 DEF PublishFallback, DeliverInProcess
  <2> QED
    BY <1>2, <2>1, <2>2, <2>3, <2>4 DEF Producer
<1>3. ASSUME NEW d \in Dispatchers, NEW S \in SUBSET Events, Claim(d, S) PROVE DeliveredInv'
  BY <1>3 DEF Claim
<1>4. ASSUME NEW d \in Dispatchers, NEW e \in Events, Deliver(d, e) PROVE DeliveredInv'
  <2>1. CASE HandlerSucceeds(d, e)
    BY <2>1 DEF HandlerSucceeds
  <2>2. CASE HandlerFails(d, e) \/ HandlerTimesOut(d, e)
    BY <2>2 DEF HandlerFails, HandlerTimesOut
  <2>3. CASE MarkDelivered(d, e)
    BY <2>3 DEF MarkDelivered, NextRow
  <2>4. CASE MarkFailed(d, e)
    BY <2>4 DEF MarkFailed, NextRow
  <2>5. CASE MarkLost(d, e)
    BY <2>5 DEF MarkLost, NextRow
  <2> QED
    BY <1>4, <2>1, <2>2, <2>3, <2>4, <2>5 DEF Deliver
<1>5. ASSUME NEW d \in Dispatchers, NEW e \in Events, OrphanEnds(d, e) PROVE DeliveredInv'
  BY <1>5 DEF OrphanEnds
<1>6. ASSUME NEW d \in Dispatchers, Process(d) PROVE DeliveredInv'
  <2>1. CASE Prune(d)
    BY <2>1 DEF Prune
  <2>2. CASE Crash(d)
    BY <2>2 DEF Crash
  <2>3. CASE Stop(d) \/ Exit(d) \/ Start(d)
    BY <2>3 DEF Stop, Exit, Start
  <2> QED
    BY <1>6, <2>1, <2>2, <2>3 DEF Process
<1>7. CASE Requeue
  BY <1>7 DEF Requeue
<1>8. CASE Tick
  BY <1>8 DEF Tick
<1> QED
  BY <1>1, <1>2, <1>3, <1>4, <1>5, <1>6, <1>7, <1>8 DEF Next

(* No event is marked delivered, and none is pruned, without a completed run *)
(* of its handler, whatever the timing and however many dispatchers.         *)
THEOREM DeliveredHandled == Spec => []DeliveredWasHandled
<1>1. Init => DeliveredInv
  BY DEF Init, DeliveredInv, DeliveredWasHandled, InHand
<1>2. DeliveredInv => DeliveredWasHandled
  BY DEF DeliveredInv
<1> QED
  BY <1>1, <1>2, TypeCorrect, DeliveredStep, PTL DEF Spec
--------------------------------------------------------------------------------
(* With a lease that outlasts a whole batch, no row is in two hands. *)

SizedLease == BatchSize * HandlerTimeout < Lease

(* A dispatcher holds rows exactly while it is busy, an idle one has no      *)
(* handler running, and every held row stays hidden while it is needed.      *)
LeaseInv ==
    /\ \A d \in Dispatchers : phase[d] = "idle" <=> batch[d] = {}
    /\ \A d \in Dispatchers : phase[d] = "idle" => elapsed[d] = 0
    /\ LeaseCoversBatch
    /\ ClaimsAreExclusive

(* A smaller batch never takes longer.                                       *)
LEMMA ProductMonotone ==
  ASSUME NEW k \in Nat, NEW n \in Nat, NEW h \in Nat, k <= n
  PROVE  k * h <= n * h
<1>1. PICK m \in Nat : n = k + m
  BY n - k \in Nat, n = k + (n - k)
<1>2. m * h >= 0
  BY SMT
<1> QED
  BY <1>1, <1>2, n * h = k * h + m * h

(* Sizes of batches, as the arithmetic below needs them.                     *)
LEMMA BatchSizes ==
  ASSUME NEW S \in SUBSET Events
  PROVE  /\ Cardinality(S) \in Nat
         /\ S # {} => Cardinality(S) >= 1
         /\ \A e \in S : Cardinality(S \ {e}) = Cardinality(S) - 1
         /\ Cardinality(S) * HandlerTimeout \in Nat
         /\ S # {} => Cardinality(S) * HandlerTimeout >= HandlerTimeout
         /\ \A e \in S : Cardinality(S \ {e}) * HandlerTimeout
                          = Cardinality(S) * HandlerTimeout - HandlerTimeout
<1>1. IsFiniteSet(S)
  BY FS_Subset, OutboxAssumption
<1>2. Cardinality(S) \in Nat
  BY <1>1, FS_CardinalityType
<1>3. S # {} => Cardinality(S) >= 1
  BY <1>1, <1>2, FS_EmptySet
<1>4. ASSUME NEW e \in S PROVE Cardinality(S \ {e}) = Cardinality(S) - 1
  BY <1>1, FS_RemoveElement
<1>5. HandlerTimeout \in Nat
  BY OutboxAssumption
<1> DEFINE n == Cardinality(S)
           h == HandlerTimeout
<1>6. n * h \in Nat
  BY <1>2, <1>5, SMT
<1>7. n >= 1 => n * h >= h
  BY <1>2, <1>5, ProductMonotone, 1 * h = h
<1>8. (n - 1) * h = n * h - h
  BY <1>2, <1>5, SMT
<1> QED
  BY <1>2, <1>3, <1>4, <1>6, <1>7, <1>8

(* What LeaseInv says of one held row: it is hidden, and stays so even when  *)
(* the row in hand uses up all its time.                                     *)
LEMMA HeldRowsHidden ==
  ASSUME TypeOK, LeaseInv, NEW d \in Dispatchers, NEW e \in batch[d]
  PROVE  /\ e \in Events /\ status[e] = "PENDING" /\ wait[e] \in Int
         /\ wait[e] > 0
         /\ wait[e] > Cardinality(batch[d]) * HandlerTimeout - HandlerTimeout
<1>1. batch[d] \in SUBSET Events /\ elapsed[d] \in 0 .. HandlerTimeout
      /\ wait \in [Events -> Int]
  BY DEF TypeOK
<1>2. status[e] = "PENDING" /\ wait[e] > Cardinality(batch[d]) * HandlerTimeout - elapsed[d]
  BY DEF LeaseInv, LeaseCoversBatch
<1>3. HandlerTimeout \in Nat
  BY OutboxAssumption
<1> DEFINE total == Cardinality(batch[d]) * HandlerTimeout
<1>4. total \in Nat /\ total >= HandlerTimeout
  BY <1>1, BatchSizes
<1>5. e \in Events /\ wait[e] \in Int
  BY <1>1
<1> QED
  BY <1>1, <1>2, <1>3, <1>4, <1>5

(* Steps that leave the dispatchers alone and touch no held row.             *)
LEMMA LeaseUndisturbed ==
  ASSUME TypeOK, LeaseInv,
         UNCHANGED <<batch, phase, elapsed>>,
         \A e \in Events : status[e] = "PENDING" => status'[e] = "PENDING" /\ wait'[e] = wait[e]
  PROVE  LeaseInv'
  BY DEF LeaseInv, LeaseCoversBatch, ClaimsAreExclusive, TypeOK

(* A dispatcher that lets go of the row in hand, whatever it made of it.     *)
LEMMA LeaseNextRow ==
  ASSUME TypeOK, LeaseInv, NEW d \in Dispatchers, NEW e \in Events,
         phase[d] # "idle", InHand(d, e), NextRow(d, e),
         \A f \in Events \ {e} : status'[f] = status[f] /\ wait'[f] = wait[f]
  PROVE  LeaseInv'
<1> USE DEF TypeOK
<1>1. /\ batch' = [batch EXCEPT ![d] = @ \ {e}] /\ e \in batch[d]
      /\ phase' = [phase EXCEPT ![d] = IF batch[d] = {e} THEN "idle" ELSE "handling"]
      /\ elapsed' = [elapsed EXCEPT ![d] = 0]
  BY DEF NextRow, InHand
<1>2. \A c \in Dispatchers : phase'[c] = "idle" <=> batch'[c] = {}
  BY <1>1 DEF LeaseInv
<1>3. \A c \in Dispatchers : phase'[c] = "idle" => elapsed'[c] = 0
  BY <1>1 DEF LeaseInv
<1>4. ASSUME NEW c \in Dispatchers, NEW f \in batch'[c]
      PROVE  status'[f] = "PENDING"
             /\ wait'[f] > Cardinality(batch'[c]) * HandlerTimeout - elapsed'[c]
  <2>1. f \in batch[c] /\ f # e /\ f \in Events
    BY <1>1 DEF LeaseInv, ClaimsAreExclusive
  <2>2. status'[f] = status[f] /\ wait'[f] = wait[f]
    BY <2>1
  <2>3. CASE c = d
    <3>1. Cardinality(batch'[d]) * HandlerTimeout
            = Cardinality(batch[d]) * HandlerTimeout - HandlerTimeout
      BY <1>1, BatchSizes
    <3>2. elapsed'[d] = 0
      BY <1>1
    <3>3. Cardinality(batch[d]) * HandlerTimeout \in Nat /\ HandlerTimeout \in Nat
      BY BatchSizes, OutboxAssumption
    <3> QED
      BY <2>1, <2>2, <2>3, <3>1, <3>2, <3>3, HeldRowsHidden
  <2>4. CASE c # d
    BY <1>1, <2>1, <2>2, <2>4 DEF LeaseInv, LeaseCoversBatch
  <2> QED
    BY <2>3, <2>4
<1>5. ASSUME NEW b \in Dispatchers, NEW c \in Dispatchers, b # c
      PROVE  batch'[b] \cap batch'[c] = {}
  BY <1>1, <1>5 DEF LeaseInv, ClaimsAreExclusive
<1> QED
  BY <1>2, <1>3, <1>4, <1>5 DEF LeaseInv, LeaseCoversBatch, ClaimsAreExclusive

(* A claim takes only rows nobody holds, and hides them for long enough.     *)
LEMMA LeaseClaim ==
  ASSUME SizedLease, TypeOK, LeaseInv,
         NEW d \in Dispatchers, NEW S \in SUBSET Events, Claim(d, S)
  PROVE  LeaseInv'
<1> USE DEF TypeOK
<1>1. /\ batch' = [batch EXCEPT ![d] = S]
      /\ phase' = [phase EXCEPT ![d] = IF S = {} THEN "idle" ELSE "handling"]
      /\ UNCHANGED <<elapsed, status>> /\ phase[d] = "idle"
      /\ wait' = [e \in Events |-> IF e \in S THEN Lease ELSE wait[e]]
  BY DEF Claim
<1>2. \A e \in S : status[e] = "PENDING" /\ wait[e] <= 0
  BY DEF Claim, IsDueBatch, Claimable
<1>3. \A c \in Dispatchers : batch[c] \cap S = {}
  <2> SUFFICES ASSUME NEW c \in Dispatchers, NEW e \in batch[c], e \in S PROVE FALSE
    OBVIOUS
  <2> QED
    BY <1>2, HeldRowsHidden
<1>4. Cardinality(S) * HandlerTimeout < Lease
  <2>1. Cardinality(S) <= BatchSize
    BY DEF Claim, IsDueBatch
  <2>2. Cardinality(S) \in Nat /\ BatchSize \in Nat /\ HandlerTimeout \in Nat /\ Lease \in Nat
    BY BatchSizes, OutboxAssumption
  <2>3. Cardinality(S) * HandlerTimeout <= BatchSize * HandlerTimeout
    BY <2>1, <2>2, ProductMonotone
  <2>4. Cardinality(S) * HandlerTimeout \in Nat /\ BatchSize * HandlerTimeout \in Nat
    BY <2>2, SMT
  <2> QED
    BY <2>2, <2>3, <2>4 DEF SizedLease
<1>5. elapsed[d] = 0
  BY <1>1 DEF LeaseInv
<1>6. \A c \in Dispatchers : phase'[c] = "idle" <=> batch'[c] = {}
  BY <1>1 DEF LeaseInv
<1>7. \A c \in Dispatchers : phase'[c] = "idle" => elapsed'[c] = 0
  BY <1>1, <1>5 DEF LeaseInv
<1>8. ASSUME NEW c \in Dispatchers, NEW f \in batch'[c]
      PROVE  status'[f] = "PENDING"
             /\ wait'[f] > Cardinality(batch'[c]) * HandlerTimeout - elapsed'[c]
  <2>1. CASE c = d
    <3>1. f \in S /\ batch'[c] = S /\ wait'[f] = Lease /\ elapsed'[c] = 0 /\ status'[f] = "PENDING"
      BY <1>1, <1>2, <1>5, <2>1
    <3>2. Cardinality(S) * HandlerTimeout \in Nat /\ Lease \in Nat
      BY BatchSizes, OutboxAssumption
    <3> QED
      BY <1>4, <3>1, <3>2
  <2>2. CASE c # d
    <3>1. f \in batch[c] /\ batch'[c] = batch[c] /\ f \notin S /\ f \in Events
      BY <1>1, <1>3, <2>2
    <3> QED
      BY <1>1, <3>1 DEF LeaseInv, LeaseCoversBatch
  <2> QED
    BY <2>1, <2>2
<1>9. ASSUME NEW b \in Dispatchers, NEW c \in Dispatchers, b # c
      PROVE  batch'[b] \cap batch'[c] = {}
  BY <1>1, <1>3, <1>9 DEF LeaseInv, ClaimsAreExclusive
<1> QED
  BY <1>6, <1>7, <1>8, <1>9 DEF LeaseInv, LeaseCoversBatch, ClaimsAreExclusive

(* A tick takes from the lease what it adds to the handlers in progress.     *)
LEMMA LeaseTick ==
  ASSUME TypeOK, LeaseInv, Tick PROVE LeaseInv'
<1> USE DEF TypeOK
<1>1. /\ UNCHANGED <<batch, phase, status>>
      /\ elapsed' = [d \in Dispatchers |-> IF phase[d] = "handling" THEN elapsed[d] + 1
                                           ELSE elapsed[d]]
      /\ \A d \in Dispatchers : phase[d] \in {"idle", "handling"}
  BY DEF Tick
<1>2. ASSUME NEW d \in Dispatchers, NEW e \in batch[d]
      PROVE  wait'[e] > Cardinality(batch[d]) * HandlerTimeout - elapsed'[d]
  <2>1. e \in Events /\ status[e] = "PENDING" /\ wait[e] > 0 /\ wait[e] \in Int
    BY HeldRowsHidden
  <2>2. wait'[e] = wait[e] - 1
    BY <2>1, OutboxAssumption DEF Tick
  <2>3. elapsed'[d] = elapsed[d] + 1
    BY <1>1 DEF LeaseInv
  <2>4. wait[e] > Cardinality(batch[d]) * HandlerTimeout - elapsed[d]
    BY DEF LeaseInv, LeaseCoversBatch
  <2>5. Cardinality(batch[d]) * HandlerTimeout \in Nat /\ elapsed[d] \in Nat
    BY BatchSizes
  <2> QED
    BY <2>1, <2>2, <2>3, <2>4, <2>5
<1> QED
  BY <1>1, <1>2 DEF LeaseInv, LeaseCoversBatch, ClaimsAreExclusive

(* Every step keeps the leases ahead of their batches.                       *)
LEMMA LeaseStep ==
  ASSUME SizedLease, TypeOK, LeaseInv, [Next]_vars PROVE LeaseInv'
<1> USE DEF TypeOK, RowStatus, rowVars, procVars, envVars
<1>1. CASE UNCHANGED vars
  BY <1>1, LeaseUndisturbed DEF vars
<1>2. ASSUME NEW e \in Events, Producer(e) PROVE LeaseInv'
  <2>1. CASE Begin(e) \/ Enqueue(e)
    BY <2>1, LeaseUndisturbed DEF Begin, Enqueue
  <2>2. CASE Commit(e) \/ Rollback(e)
    BY <2>2, LeaseUndisturbed DEF Commit, Rollback
  <2>3. CASE PublishAfterCommit(e) \/ PublishFallback(e) \/ DeliverInProcess(e)
    BY <2>3, LeaseUndisturbed DEF PublishAfterCommit, PublishFallback, DeliverInProcess
  <2> QED
    BY <1>2, <2>1, <2>2, <2>3 DEF Producer
<1>3. ASSUME NEW d \in Dispatchers, NEW S \in SUBSET Events, Claim(d, S) PROVE LeaseInv'
  BY <1>3, LeaseClaim
<1>4. ASSUME NEW d \in Dispatchers, NEW e \in Events, Deliver(d, e) PROVE LeaseInv'
  <2>1. CASE HandlerSucceeds(d, e) \/ HandlerFails(d, e) \/ HandlerTimesOut(d, e)
    <3>1. /\ UNCHANGED <<batch, elapsed, status, wait>>
          /\ \A c \in Dispatchers : phase'[c] = "idle" <=> phase[c] = "idle"
      BY <2>1 DEF HandlerSucceeds, HandlerFails, HandlerTimesOut
    <3> QED
      BY <3>1 DEF LeaseInv, LeaseCoversBatch, ClaimsAreExclusive
  <2>2. CASE MarkDelivered(d, e)
    BY <2>2, LeaseNextRow DEF MarkDelivered
  <2>3. CASE MarkFailed(d, e)
    BY <2>3, LeaseNextRow DEF MarkFailed
  <2>4. CASE MarkLost(d, e)
    BY <2>4, LeaseNextRow DEF MarkLost
  <2> QED
    BY <1>4, <2>1, <2>2, <2>3, <2>4 DEF Deliver
<1>5. ASSUME NEW d \in Dispatchers, NEW e \in Events, OrphanEnds(d, e) PROVE LeaseInv'
  BY <1>5, LeaseUndisturbed DEF OrphanEnds
<1>6. ASSUME NEW d \in Dispatchers, Process(d) PROVE LeaseInv'
  <2>1. CASE Prune(d)
    BY <2>1, LeaseUndisturbed DEF Prune
  <2>2. CASE Crash(d)
    BY <2>2 DEF Crash, LeaseInv, LeaseCoversBatch, ClaimsAreExclusive
  <2>3. CASE Stop(d) \/ Exit(d) \/ Start(d)
    BY <2>3, LeaseUndisturbed DEF Stop, Exit, Start
  <2> QED
    BY <1>6, <2>1, <2>2, <2>3 DEF Process
<1>7. CASE Requeue
  BY <1>7, LeaseUndisturbed DEF Requeue
<1>8. CASE Tick
  BY <1>8, LeaseTick
<1> QED
  BY <1>1, <1>2, <1>3, <1>4, <1>5, <1>6, <1>7, <1>8 DEF Next

(* If the lease outlasts a full batch of handlers that all time out, no row  *)
(* is ever claimed while another dispatcher still holds it.                  *)
THEOREM ClaimsExclusive ==
  ASSUME SizedLease PROVE Spec => []ClaimsAreExclusive
<1>1. Init => LeaseInv
  BY DEF Init, LeaseInv, LeaseCoversBatch, ClaimsAreExclusive
<1>2. TypeOK /\ LeaseInv /\ [Next]_vars => LeaseInv'
  BY LeaseStep
<1>3. LeaseInv => ClaimsAreExclusive
  BY DEF LeaseInv
<1> QED
  BY <1>1, <1>2, <1>3, TypeCorrect, PTL DEF Spec

--------------------------------------------------------------------------------
(* The outbox implements the delivery contract. *)

AllInv == TypeOK /\ CommitInv /\ DeliveredInv /\ LeaseInv

(* Steps that change no row's status are invisible in the contract, unless   *)
(* they change a producer or handle an event.                                *)
LEMMA Stutter ==
  ASSUME UNCHANGED <<change, status, handled>>
  PROVE  UNCHANGED Contract!vars
  BY DEF Contract!vars, Stage

(* A dispatcher or an abandoned handler that completes an event handles it.  *)
LEMMA ContractHandle ==
  ASSUME AllInv, NEW e \in Events, status[e] \in Visible \/ e \in inproc,
         UNCHANGED <<change, status>>, handled' = handled \cup {e}
  PROVE  Contract!Handle(e)
<1>1. change[e] = "committed" /\ (Stage(e) # "none" \/ e \notin TxEvents)
  BY DEF AllInv, CommitInv, TypeOK, Visible, Stage
<1> QED
  BY <1>1 DEF Contract!Handle, Stage

(* Every step of the outbox is a step of the contract or a stuttering one.   *)
LEMMA ContractStep ==
  ASSUME AllInv, [Next]_vars PROVE [Contract!Next]_(Contract!vars)
<1> USE DEF rowVars, procVars, envVars
<1>1. CASE UNCHANGED vars
  BY <1>1, Stutter DEF vars
<1>2. ASSUME NEW e \in Events, Producer(e) PROVE [Contract!Next]_(Contract!vars)
  <2> USE DEF AllInv, TypeOK, RowStatus
  <2>1. CASE Begin(e)
    <3>1. Contract!Begin(e)
      BY <2>1 DEF Begin, Contract!Begin, Stage
    <3> QED
      BY <3>1 DEF Contract!Next
  <2>2. CASE Enqueue(e)
    BY <2>2 DEF Enqueue, Contract!vars, Stage
  <2>3. CASE Commit(e)
    <3>1. status[e] = IF e \in TxEvents THEN "UNCOMMITTED" ELSE "ABSENT"
      BY <2>3 DEF Commit, CommitInv, Visible
    <3>2. Contract!Commit(e)
      BY <2>3, <3>1 DEF Commit, Contract!Commit, Stage
    <3> QED
      BY <3>2 DEF Contract!Next
  <2>4. CASE Rollback(e)
    <3>1. Contract!Rollback(e)
      BY <2>4 DEF Rollback, Contract!Rollback, Stage
    <3> QED
      BY <3>1 DEF Contract!Next
  <2>5. CASE PublishAfterCommit(e)
    <3>1. Contract!Publish(e)
      BY <2>5 DEF PublishAfterCommit, Contract!Publish, Stage
    <3> QED
      BY <3>1 DEF Contract!Next
  <2>6. CASE PublishFallback(e)
    BY <2>6, Stutter DEF PublishFallback
  <2>7. CASE DeliverInProcess(e)
    <3>1. CASE handled' = handled
      BY <2>7, <3>1, Stutter DEF DeliverInProcess
    <3>2. CASE handled' = handled \cup {e}
      BY <2>7, <3>2, ContractHandle DEF DeliverInProcess, Contract!Next
    <3> QED
      BY <2>7, <3>1, <3>2 DEF DeliverInProcess
  <2> QED
    BY <1>2, <2>1, <2>2, <2>3, <2>4, <2>5, <2>6, <2>7 DEF Producer
<1>3. ASSUME NEW d \in Dispatchers, NEW S \in SUBSET Events, Claim(d, S)
      PROVE  [Contract!Next]_(Contract!vars)
  BY <1>3, Stutter DEF Claim
<1>4. ASSUME NEW d \in Dispatchers, NEW e \in Events, Deliver(d, e)
      PROVE  [Contract!Next]_(Contract!vars)
  <2>1. CASE HandlerSucceeds(d, e)
    <3>1. status[e] \in Visible
      BY <2>1 DEF HandlerSucceeds, InHand, AllInv, CommitInv
    <3> QED
      BY <2>1, <3>1, ContractHandle DEF HandlerSucceeds, Contract!Next
  <2>2. CASE HandlerFails(d, e) \/ HandlerTimesOut(d, e)
    BY <2>2, Stutter DEF HandlerFails, HandlerTimesOut
  <2>3. CASE MarkDelivered(d, e)
    <3>1. status[e] = "PENDING"
      BY <2>3, HeldRowsHidden DEF MarkDelivered, InHand, AllInv
    <3>2. e \in handled
      BY <2>3 DEF MarkDelivered, AllInv, DeliveredInv
    <3>3. Contract!Deliver(e)
      BY <2>3, <3>1, <3>2 DEF MarkDelivered, Contract!Deliver, Stage, Stored, AllInv, TypeOK
    <3> QED
      BY <3>3 DEF Contract!Next, Contract!Settle
  <2>4. CASE MarkFailed(d, e)
    <3>1. status[e] = "PENDING"
      BY <2>4, HeldRowsHidden DEF MarkFailed, InHand, AllInv
    <3>2. CASE claim[d][e] >= MaxAttempts
      <4>1. Contract!Park(e)
        BY <2>4, <3>1, <3>2 DEF MarkFailed, Contract!Park, Stage, Stored, AllInv, TypeOK
      <4> QED
        BY <4>1 DEF Contract!Next, Contract!Settle
    <3>3. CASE ~(claim[d][e] >= MaxAttempts)
      <4>1. status' = status
        BY <2>4, <3>1, <3>3 DEF MarkFailed, Stored, AllInv, TypeOK
      <4> QED
        BY <2>4, <4>1, Stutter DEF MarkFailed
    <3> QED
      BY <3>2, <3>3
  <2>5. CASE MarkLost(d, e)
    BY <2>5, Stutter DEF MarkLost
  <2> QED
    BY <1>4, <2>1, <2>2, <2>3, <2>4, <2>5 DEF Deliver
<1>5. ASSUME NEW d \in Dispatchers, NEW e \in Events, OrphanEnds(d, e)
      PROVE  [Contract!Next]_(Contract!vars)
  <2>1. CASE handled' = handled
    BY <1>5, <2>1, Stutter DEF OrphanEnds
  <2>2. CASE handled' = handled \cup {e}
    <3>1. status[e] \in Visible
      BY <1>5 DEF OrphanEnds, AllInv, CommitInv
    <3> QED
      BY <1>5, <2>2, <3>1, ContractHandle DEF OrphanEnds, Contract!Next
  <2> QED
    BY <1>5, <2>1, <2>2 DEF OrphanEnds
<1>6. ASSUME NEW d \in Dispatchers, Process(d) PROVE [Contract!Next]_(Contract!vars)
  <2>1. CASE Prune(d)
    <3>1. PICK S \in SUBSET {e \in Events : status[e] = "DELIVERED"} :
             status' = [e \in Events |-> IF e \in S THEN "PRUNED" ELSE status[e]]
      BY <2>1 DEF Prune
    <3>2. S \in SUBSET {e \in Events : [f \in Events |-> Stage(f)][e] = "delivered"}
      BY DEF Stage
    <3>3. [e \in Events |-> Stage(e)]'
            = [e \in Events |-> IF e \in S THEN "forgotten" ELSE [f \in Events |-> Stage(f)][e]]
      BY <3>1 DEF Stage, AllInv, TypeOK, RowStatus
    <3>4. Contract!Forget
      BY <2>1, <3>2, <3>3 DEF Prune, Contract!Forget
    <3> QED
      BY <3>4 DEF Contract!Next
  <2>2. CASE Crash(d) \/ Stop(d) \/ Exit(d) \/ Start(d)
    BY <2>2, Stutter DEF Crash, Stop, Exit, Start
  <2> QED
    BY <1>6, <2>1, <2>2 DEF Process
<1>7. CASE Requeue
  <2>1. Contract!Requeue
    BY <1>7 DEF Requeue, Contract!Requeue, Stage, AllInv, TypeOK, RowStatus
  <2> QED
    BY <2>1 DEF Contract!Next
<1>8. CASE Tick
  BY <1>8, Stutter DEF Tick
<1> QED
  BY <1>1, <1>2, <1>3, <1>4, <1>5, <1>6, <1>7, <1>8 DEF Next

(* With a lease that outlasts a full batch, the outbox keeps its contract:   *)
(* a durable event is owed as of the commit of its change, handlers run for  *)
(* committed changes only, and what is settled stays settled.                *)
THEOREM ContractKept ==
  ASSUME SizedLease PROVE Spec => DeliveryContract
<1>1. Init => AllInv
  BY DEF Init, AllInv, TypeOK, RowStatus, CommitInv, Visible, DeliveredInv, DeliveredWasHandled,
         InHand, LeaseInv, LeaseCoversBatch, ClaimsAreExclusive
<1>2. Init => Contract!Init
  BY DEF Init, Contract!Init, Stage
<1>3. AllInv /\ [Next]_vars => AllInv'
  BY TypeStep, CommitStep, DeliveredStep, LeaseStep DEF AllInv
<1>4. AllInv /\ [Next]_vars => [Contract!Next]_(Contract!vars)
  BY ContractStep
<1> QED
  BY <1>1, <1>2, <1>3, <1>4, PTL DEF Spec, DeliveryContract, Contract!Safety
================================================================================
