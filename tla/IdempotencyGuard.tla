--------------------------- MODULE IdempotencyGuard ---------------------------
(* The guard that makes a side effect of a retried activity happen once: a    *)
(* row per key, claimed before the work and completed with its result after.  *)
(* One activity runs its keys in order (the recipients of an email step; one  *)
(* key for a change of a record).  Temporal retries an attempt that fails or  *)
(* times out, and an attempt that timed out runs on.                          *)
EXTENDS Naturals

CONSTANTS
    LastKey,       \* the keys of the activity are 1..LastKey
    LastAttempt,   \* maximumAttempts
    Timeout,       \* startToCloseTimeout, in ticks
    Lease          \* leaseMs, in ticks

ASSUME GuardAssumption ==
    /\ LastKey \in Nat \ {0} /\ LastAttempt \in Nat \ {0}
    /\ Timeout \in Nat /\ Lease \in Nat
    /\ Timeout < Lease    \* "Longer than any activity's startToCloseTimeout"

VARIABLES
    rec,       \* channel_idempotency_records, by key
    running,   \* where each attempt is in the code, on which key, which row it claimed
    heard,     \* what Temporal has heard of each attempt
    elapsed,   \* the time since each attempt was started
    got,       \* the result runOnce returned to each attempt, by key
    effects,   \* ghost: how often the work of each key took effect
    lost,      \* ghost: how many of those were not recorded as done
    overran    \* ghost: whether a live attempt outlived its lease on the key

guardVars == <<rec, running, heard, elapsed, got, effects, lost, overran>>
ghosts == <<effects, lost, overran>>

--------------------------------------------------------------------------------
(* Data *)

Keys == 1..LastKey
Attempts == 1..LastAttempt

(* A row's id is the attempt that inserted it: each inserts a key once.       *)
Rec == [id : Attempts, status : {"STARTED", "COMPLETED"}, age : 0..Lease, result : 0..LastAttempt]
NoRec == [id |-> 0, status |-> "none", age |-> 0, result |-> 0]
NoResult == 0

Statements == {"insert", "read", "takeover", "release", "complete"}
Holding == {"work", "release", "complete"}
Live == Statements \cup {"work"}
Places == Live \cup {"new", "done", "failed", "dead"}

GuardInit ==
    /\ rec = [k \in Keys |-> NoRec]
    /\ running = [a \in Attempts |-> [at |-> "new", key |-> 1, id |-> 0]]
    /\ heard = [a \in Attempts |-> "nothing"]
    /\ elapsed = [a \in Attempts |-> 0]
    /\ got = [a \in Attempts |-> [k \in Keys |-> NoResult]]
    /\ effects = [k \in Keys |-> 0]
    /\ lost = [k \in Keys |-> 0]
    /\ overran = [k \in Keys |-> FALSE]

--------------------------------------------------------------------------------
(* Helpers *)

KeyOf(a) == running[a].key

Goto(a, place) == running' = [running EXCEPT ![a].at = place]

(* The claim succeeds: the work starts, on the row of this id.                *)
Claimed(a, id) == running' = [running EXCEPT ![a].at = "work", ![a].id = id]

(* runOnce returns: the activity goes on to its next key, or is done.         *)
Returned(a, result) ==
    /\ got' = [got EXCEPT ![a][KeyOf(a)] = result]
    /\ running' = [running EXCEPT
           ![a].at = IF KeyOf(a) < LastKey THEN "insert" ELSE "done",
           ![a].key = IF @ < LastKey THEN @ + 1 ELSE @]

(* DELETE and UPDATE match the row by its id. *)
Matches(a) == rec[KeyOf(a)].id = running[a].id

--------------------------------------------------------------------------------
(* An attempt *)

(* Temporal starts the first attempt, and the next one when the last failed   *)
(* or timed out; a worker may pick it up late.                                *)
Start(a) ==
    /\ heard[a] = "nothing"
    /\ \A b \in Attempts : b < a => heard[b] \in {"failure", "timeout"}
    /\ heard' = [heard EXCEPT ![a] = "started"]
    /\ Goto(a, "insert")
    /\ UNCHANGED <<rec, elapsed, got, ghosts>>

(* INSERT ... ON CONFLICT DO NOTHING *)
Insert(a) ==
    LET k == KeyOf(a) IN
    /\ running[a].at = "insert"
    /\ \/ /\ rec[k] = NoRec
          /\ rec' = [rec EXCEPT ![k] = [id |-> a, status |-> "STARTED", age |-> 0,
                                        result |-> NoResult]]
          /\ Claimed(a, a)
       \/ /\ rec[k] # NoRec
          /\ Goto(a, "read")
          /\ UNCHANGED rec
    /\ UNCHANGED <<heard, elapsed, got, ghosts>>

(* Variant: a claim that is there is taken for work that is done. *)
ReadClaimAsDone(a) ==
    LET r == rec[KeyOf(a)] IN
    /\ running[a].at = "read"
    /\ \/ r = NoRec /\ Goto(a, "failed") /\ UNCHANGED got
       \/ r # NoRec /\ Returned(a, r.id)
    /\ UNCHANGED <<rec, heard, elapsed, ghosts>>

(* The row that was there: released since, completed or claimed.              *)
Read(a) ==
    LET r == rec[KeyOf(a)] IN
    /\ running[a].at = "read"
    /\ \/ r = NoRec /\ Goto(a, "failed") /\ UNCHANGED got
       \/ r.status = "COMPLETED" /\ Returned(a, r.result)
       \/ /\ r.status = "STARTED"
          /\ running' = [running EXCEPT ![a].at = "takeover", ![a].id = r.id]
          /\ UNCHANGED got
    /\ UNCHANGED <<rec, heard, elapsed, ghosts>>

(* Variant: a claim is taken over without a look at its lease. *)
TakeOverLive(a) ==
    LET k == KeyOf(a) IN
    /\ running[a].at = "takeover"
    /\ \/ /\ Matches(a) /\ rec[k].status = "STARTED"
          /\ rec' = [rec EXCEPT ![k].age = 0]
          /\ Claimed(a, running[a].id)
       \/ ~Matches(a) /\ Goto(a, "failed") /\ UNCHANGED rec
    /\ UNCHANGED <<heard, elapsed, got, ghosts>>

(* The conditional UPDATE takes an expired claim over; else the key is busy.  *)
TakeOver(a) ==
    LET k == KeyOf(a)
        expired == Matches(a) /\ rec[k].status = "STARTED" /\ rec[k].age >= Lease
    IN
    /\ running[a].at = "takeover"
    /\ \/ /\ expired
          /\ rec' = [rec EXCEPT ![k].age = 0]
          /\ Claimed(a, running[a].id)
       \/ ~expired /\ Goto(a, "failed") /\ UNCHANGED rec
    /\ UNCHANGED <<heard, elapsed, got, ghosts>>

(* fn(): it takes effect and returns, or throws before or after its effect.   *)
Work(a) ==
    LET k == KeyOf(a) IN
    /\ running[a].at = "work"
    /\ \/ /\ effects' = [effects EXCEPT ![k] = @ + 1]
          /\ \/ Goto(a, "complete") /\ UNCHANGED lost
             \/ Goto(a, "release") /\ lost' = [lost EXCEPT ![k] = @ + 1]
       \/ Goto(a, "release") /\ UNCHANGED <<effects, lost>>
    /\ UNCHANGED <<rec, heard, elapsed, got, overran>>

(* The work threw: the claim is deleted while it reads STARTED, and rethrown. *)
Release(a) ==
    LET k == KeyOf(a) IN
    /\ running[a].at = "release"
    /\ rec' = [rec EXCEPT ![k] =
                  IF Matches(a) /\ @.status = "STARTED" THEN NoRec ELSE @]
    /\ Goto(a, "failed")
    /\ UNCHANGED <<heard, elapsed, got, ghosts>>

(* Variant: the row is completed without the result. *)
CompleteWithoutResult(a) ==
    LET k == KeyOf(a) IN
    /\ running[a].at = "complete"
    /\ rec' = [rec EXCEPT ![k] =
                  IF Matches(a) THEN [@ EXCEPT !.status = "COMPLETED", !.age = 0] ELSE @]
    /\ Returned(a, a)
    /\ UNCHANGED <<heard, elapsed, ghosts>>

(* The result is recorded, whatever the row of that id reads by now.          *)
Complete(a) ==
    LET k == KeyOf(a) IN
    /\ running[a].at = "complete"
    /\ rec' = [rec EXCEPT ![k] =
                  IF Matches(a) THEN [@ EXCEPT !.status = "COMPLETED", !.age = 0, !.result = a]
                  ELSE @]
    /\ Returned(a, a)
    /\ UNCHANGED <<heard, elapsed, ghosts>>

(* An effect whose completion is never written is lost to the guard.          *)
LosesEffect(a) ==
    lost' = [lost EXCEPT ![KeyOf(a)] = @ + (IF running[a].at = "complete" THEN 1 ELSE 0)]

(* A statement fails and the attempt throws, leaving the row as it is.        *)
StatementFails(a) ==
    /\ running[a].at \in Statements
    /\ LosesEffect(a)
    /\ Goto(a, "failed")
    /\ UNCHANGED <<rec, heard, elapsed, got, effects, overran>>

(* The worker dies. *)
Die(a) ==
    /\ running[a].at \in Live
    /\ LosesEffect(a)
    /\ Goto(a, "dead")
    /\ UNCHANGED <<rec, heard, elapsed, got, effects, overran>>

--------------------------------------------------------------------------------
(* Temporal and the time *)

(* An attempt reports its outcome; after its timeout nobody listens.          *)
Report(a) ==
    /\ heard[a] = "started"
    /\ running[a].at \in {"done", "failed"}
    /\ heard' = [heard EXCEPT ![a] = IF running[a].at = "done" THEN "success" ELSE "failure"]
    /\ UNCHANGED <<rec, running, elapsed, got, ghosts>>

Expires(a) ==
    /\ heard[a] = "started"
    /\ elapsed[a] = Timeout
    /\ heard' = [heard EXCEPT ![a] = "timeout"]
    /\ UNCHANGED <<rec, running, elapsed, got, ghosts>>

Older(k) == rec[k].status = "STARTED" /\ rec[k].age < Lease

(* Time passes; Temporal's timers fire when they are due. *)
Tick ==
    /\ \A a \in Attempts : heard[a] = "started" => elapsed[a] < Timeout
    /\ elapsed' = [a \in Attempts |-> IF heard[a] = "started" THEN elapsed[a] + 1 ELSE elapsed[a]]
    /\ rec' = [k \in Keys |-> IF Older(k) THEN [rec[k] EXCEPT !.age = @ + 1] ELSE rec[k]]
    /\ overran' = [k \in Keys |->
           overran[k] \/ /\ Older(k) /\ rec[k].age + 1 = Lease
                         /\ \E a \in Attempts : /\ running[a].at \in Holding
                                                /\ KeyOf(a) = k /\ Matches(a)]
    /\ UNCHANGED <<running, heard, got, effects, lost>>

--------------------------------------------------------------------------------

GuardNext ==
    \/ \E a \in Attempts :
           \/ Start(a) \/ Insert(a) \/ Read(a) \/ TakeOver(a) \/ Work(a)
           \/ Release(a) \/ Complete(a) \/ StatementFails(a) \/ Die(a)
           \/ Report(a) \/ Expires(a)
    \/ Tick

GuardSpec == GuardInit /\ [][GuardNext]_guardVars

--------------------------------------------------------------------------------
(* Properties *)

(* Rows, attempts and counters keep their types.                              *)
GuardTypeOK ==
    /\ rec \in [Keys -> Rec \cup {NoRec}]
    /\ running \in [Attempts -> [at : Places, key : Keys, id : 0..LastAttempt]]
    /\ heard \in [Attempts -> {"nothing", "started", "success", "failure", "timeout"}]
    /\ elapsed \in [Attempts -> 0..Timeout]
    /\ got \in [Attempts -> [Keys -> 0..LastAttempt]]
    /\ effects \in [Keys -> Nat] /\ lost \in [Keys -> Nat]
    /\ overran \in [Keys -> BOOLEAN]

(* However attempts time out, die and are retried: while none outlives its    *)
(* lease the work of a key takes effect once, and once more for each effect   *)
(* that could not be recorded.                                                *)
WorkedOnce == \A k \in Keys : ~overran[k] => effects[k] <= 1 + lost[k]

(* A retry is given the recorded result of work that was done, and every      *)
(* attempt is given the same one, while none outlives its lease.              *)
SameAnswer ==
    \A k \in Keys, a \in Attempts :
        got[a][k] # NoResult /\ ~overran[k] =>
            rec[k].status = "COMPLETED" /\ rec[k].result = got[a][k]

(* An activity that reports success has done the work of every key, also when *)
(* attempts took one another's claims over.                                   *)
SuccessMeansDone ==
    \A a \in Attempts : heard[a] = "success" => \A k \in Keys : effects[k] > 0

(* A result that was recorded is never forgotten: no late failure of an       *)
(* attempt that lost its claim puts the work up for another run.              *)
CompletedStays ==
    [][\A k \in Keys : rec[k].status = "COMPLETED" => rec'[k].status = "COMPLETED"]_guardVars

================================================================================
