---------------------------- MODULE ActivityProofs -----------------------------
(* Theorems about the guard of the channels' activities, for any number of    *)
(* activities, messages and failures, and about automation approvals, for any *)
(* number of deciders, visits, crashes, failed activities and failed signals. *)
EXTENDS IdempotencyGuard, Approvals, TLAPS

--------------------------------------------------------------------------------
(* The inductive invariant *)

At(a, k, place) == running[a].at = place /\ KeyOf(a) = k
Holds(a, k) == running[a].at \in Holding /\ KeyOf(a) = k

(* While no attempt outlives its lease on a key, at most one works under the  *)
(* claim that the row is, and the effects that are not lost are one at most:  *)
(* recorded, or about to be.                                                  *)
KeyInv(k) ==
    /\ \A a \in Attempts : Holds(a, k) =>
           rec[k].status = "STARTED" /\ rec[k].id = running[a].id /\ rec[k].age < Lease
    /\ \A a, b \in Attempts : Holds(a, k) /\ Holds(b, k) => a = b
    /\ effects[k] <= 1 + lost[k]
    /\ \/ rec[k].status = "COMPLETED"
       \/ \E a \in Attempts : At(a, k, "complete")
       \/ effects[k] <= lost[k]
    /\ \A a \in Attempts : got[a][k] # NoResult =>
           rec[k].status = "COMPLETED" /\ rec[k].result = got[a][k]

GuardInv == \A k \in Keys : ~overran[k] => KeyInv(k)

(* What was recorded, or is about to be, has taken effect, and so have the    *)
(* keys an attempt has behind it.                                             *)
DoneInv ==
    /\ \A k \in Keys : rec[k].status = "COMPLETED" => effects[k] > 0
    /\ \A a \in Attempts : running[a].at = "complete" => effects[KeyOf(a)] > 0
    /\ \A a \in Attempts, k \in Keys :
           k < KeyOf(a) \/ running[a].at = "done" => effects[k] > 0
    /\ \A a \in Attempts : heard[a] = "success" => running[a].at = "done"
    /\ \A a \in Attempts : heard[a] = "nothing" => running[a].at = "new"

(* An attempt that claimed a row, or means to, knows its id.                  *)
IdInv == \A a \in Attempts :
    running[a].at \in Holding \cup {"takeover"} => running[a].id \in Attempts

GuardSafeInv == GuardTypeOK /\ IdInv /\ GuardInv /\ DoneInv

--------------------------------------------------------------------------------
(* Lemmas *)

LEMMA RowFields ==
  /\ NoRec.id = 0 /\ NoRec.status = "none" /\ NoRec.age = 0 /\ NoRec.result = 0
  /\ \A r \in Rec : /\ r.id \in 1..LastAttempt /\ r.status \in {"STARTED", "COMPLETED"}
                    /\ r.age \in 0..Lease /\ r.result \in 0..LastAttempt
  /\ NoRec \notin Rec
BY GuardAssumption DEF Rec, NoRec, Attempts

LEMMA PlaceFacts ==
  /\ Statements \subseteq Places /\ Live \subseteq Places /\ Holding \subseteq Live
  /\ "new" \in Places /\ "done" \in Places /\ "failed" \in Places /\ "dead" \in Places
  /\ "insert" \in Statements /\ "read" \in Statements /\ "takeover" \in Statements
  /\ "release" \in Statements /\ "complete" \in Statements /\ "work" \in Live
BY DEF Places, Live, Statements, Holding

LEMMA Counting ==
  ASSUME NEW f \in [Keys -> Nat], NEW n \in Keys, NEW d \in {0, 1}
  PROVE  [f EXCEPT ![n] = @ + d] \in [Keys -> Nat]
<1>1. f[n] \in Nat
  OBVIOUS
<1>2. f[n] + d \in Nat
  BY <1>1
<1>3. PICK m : m = f[n] + d
  OBVIOUS
<1> QED
  BY <1>2, <1>3

(* The attempt's record after a move. *)
LEMMA Moves ==
  ASSUME GuardTypeOK, NEW a \in Attempts, NEW p \in Places, Goto(a, p)
  PROVE  /\ running' \in [Attempts -> [at : Places, key : Keys, id : 0..LastAttempt]]
         /\ running'[a].at = p /\ running'[a].key = running[a].key
         /\ running'[a].id = running[a].id
         /\ \A b \in Attempts : b # a => running'[b] = running[b]
BY DEF GuardTypeOK, Goto

LEMMA Claims ==
  ASSUME GuardTypeOK, NEW a \in Attempts, NEW i \in 0..LastAttempt, Claimed(a, i)
  PROVE  /\ running' \in [Attempts -> [at : Places, key : Keys, id : 0..LastAttempt]]
         /\ running'[a].at = "work" /\ running'[a].key = running[a].key
         /\ running'[a].id = i
         /\ \A b \in Attempts : b # a => running'[b] = running[b]
BY PlaceFacts DEF GuardTypeOK, Claimed

LEMMA Returns ==
  ASSUME GuardTypeOK, NEW a \in Attempts, NEW r \in 0..LastAttempt, Returned(a, r)
  PROVE  /\ running' \in [Attempts -> [at : Places, key : Keys, id : 0..LastAttempt]]
         /\ got' \in [Attempts -> [Keys -> 0..LastAttempt]]
         /\ got'[a][KeyOf(a)] = r
         /\ \A k \in Keys : k # KeyOf(a) => got'[a][k] = got[a][k]
         /\ \A b \in Attempts : b # a => got'[b] = got[b]
         /\ running'[a].at \in {"insert", "done"}
         /\ \A k \in Keys : k < running'[a].key => k <= KeyOf(a)
         /\ running'[a].at = "done" => KeyOf(a) = LastKey
         /\ \A b \in Attempts : b # a => running'[b] = running[b]
<1>1. running[a].key \in 1..LastKey /\ LastKey \in Nat
  BY GuardAssumption DEF GuardTypeOK, Keys
<1>2. /\ running'[a].at = IF KeyOf(a) < LastKey THEN "insert" ELSE "done"
      /\ running'[a].key = IF KeyOf(a) < LastKey THEN KeyOf(a) + 1 ELSE KeyOf(a)
      /\ running'[a].id = running[a].id
      /\ \A b \in Attempts : b # a => running'[b] = running[b]
      /\ running' = [running EXCEPT ![a] = running'[a]]
      /\ running'[a] = [at |-> running'[a].at, key |-> running'[a].key, id |-> running'[a].id]
  BY DEF Returned, GuardTypeOK, KeyOf
<1>3. running'[a].key \in Keys
  BY <1>1, <1>2 DEF Keys, KeyOf
<1>4. running'[a].at \in Places
  BY <1>2, PlaceFacts DEF Live, Places
<1>5. running' \in [Attempts -> [at : Places, key : Keys, id : 0..LastAttempt]]
  <2>1. running'[a].id \in 0..LastAttempt
    BY <1>2 DEF GuardTypeOK
  <2>2. running'[a] \in [at : Places, key : Keys, id : 0..LastAttempt]
    BY <1>2, <1>3, <1>4, <2>1
  <2> QED
    BY <1>2, <2>2 DEF GuardTypeOK
<1>6. /\ got' \in [Attempts -> [Keys -> 0..LastAttempt]]
      /\ got'[a][KeyOf(a)] = r
      /\ \A k \in Keys : k # KeyOf(a) => got'[a][k] = got[a][k]
      /\ \A b \in Attempts : b # a => got'[b] = got[b]
  BY DEF Returned, GuardTypeOK, KeyOf
<1>7. /\ running'[a].at \in {"insert", "done"}
      /\ \A k \in Keys : k < running'[a].key => k <= KeyOf(a)
      /\ running'[a].at = "done" => KeyOf(a) = LastKey
  BY <1>1, <1>2 DEF Keys, KeyOf
<1> QED
  BY <1>2, <1>5, <1>6, <1>7

(* A key whose row and counters a step leaves alone, and which nobody comes   *)
(* to hold.                                                                   *)
LEMMA KeyKept ==
  ASSUME NEW k \in Keys, KeyInv(k), rec'[k] = rec[k],
         effects'[k] = effects[k], lost'[k] = lost[k],
         \A a \in Attempts : Holds(a, k)' => Holds(a, k) /\ running'[a].id = running[a].id,
         \A a \in Attempts : At(a, k, "complete") => At(a, k, "complete")',
         \A a \in Attempts : got'[a][k] = got[a][k]
  PROVE  KeyInv(k)'
BY DEF KeyInv

(* A step of one attempt keeps the keys it is not on. *)
LEMMA OthersKept ==
  ASSUME GuardInv, NEW a \in Attempts, NEW n \in Keys, KeyOf(a) = n, UNCHANGED overran,
         \A k \in Keys \ {n} :
             rec'[k] = rec[k] /\ effects'[k] = effects[k] /\ lost'[k] = lost[k],
         \A b \in Attempts : b # a => running'[b] = running[b] /\ got'[b] = got[b],
         \A k \in Keys \ {n} : got'[a][k] = got[a][k],
         running'[a].at \in Holding => running'[a].key = n,
         ~overran[n] => KeyInv(n)'
  PROVE  GuardInv'
<1>1. ASSUME NEW k \in Keys, ~overran'[k], k # n PROVE KeyInv(k)'
  <2>1. KeyInv(k)
    BY <1>1 DEF GuardInv
  <2>2. \A b \in Attempts : Holds(b, k)' => Holds(b, k) /\ running'[b].id = running[b].id
    BY <1>1 DEF Holds, KeyOf
  <2>3. \A b \in Attempts : At(b, k, "complete") => At(b, k, "complete")'
    BY <1>1 DEF At, KeyOf
  <2>4. \A b \in Attempts : got'[b][k] = got[b][k]
    BY <1>1
  <2> QED
    BY <1>1, <2>1, <2>2, <2>3, <2>4, KeyKept
<1>2. ASSUME NEW k \in Keys, ~overran'[k] PROVE KeyInv(k)'
  BY <1>1, <1>2
<1> QED
  BY <1>2 DEF GuardInv

(* The attempt leaves the claim alone: it holds none after the step.          *)
LEMMA Leaves ==
  ASSUME GuardInv, GuardTypeOK, NEW a \in Attempts, NEW n \in Keys, KeyOf(a) = n,
         running'[a].at \notin Holding, running[a].at # "complete",
         \A b \in Attempts : b # a => running'[b] = running[b],
         UNCHANGED <<rec, got, ghosts>>
  PROVE  GuardInv'
<1>1. ASSUME ~overran[n] PROVE KeyInv(n)'
  <2>1. KeyInv(n)
    BY <1>1 DEF GuardInv
  <2>2. \A b \in Attempts : Holds(b, n)' => Holds(b, n) /\ running'[b].id = running[b].id
    BY DEF Holds, KeyOf
  <2>3. \A b \in Attempts : At(b, n, "complete") => At(b, n, "complete")'
    BY DEF At, KeyOf
  <2> QED
    BY <2>1, <2>2, <2>3, KeyKept DEF ghosts
<1> QED
  BY <1>1, OthersKept DEF ghosts

LEMMA InsertKeeps ==
  ASSUME GuardSafeInv, NEW a \in Attempts, Insert(a)
  PROVE  GuardInv'
<1> DEFINE n == KeyOf(a)
<1>1. GuardTypeOK /\ GuardInv /\ n \in Keys /\ running[a].at = "insert"
  BY DEF GuardSafeInv, GuardTypeOK, KeyOf, Insert
<1>2. CASE rec[n] = NoRec
  <2>1. Claimed(a, a) /\ a \in 0..LastAttempt /\ UNCHANGED <<got, effects, lost, overran>>
        /\ rec' = [rec EXCEPT ![n] = [id |-> a, status |-> "STARTED", age |-> 0,
                                      result |-> NoResult]]
    BY <1>2 DEF Insert, Attempts, ghosts
  <2>2. /\ running'[a].at = "work" /\ running'[a].key = n /\ running'[a].id = a
        /\ \A b \in Attempts : b # a => running'[b] = running[b]
    BY <1>1, <2>1, Claims DEF KeyOf
  <2>3. /\ rec'[n].status = "STARTED" /\ rec'[n].id = a /\ rec'[n].age = 0
        /\ \A k \in Keys \ {n} : rec'[k] = rec[k]
    BY <1>1, <2>1 DEF GuardTypeOK
  <2>4. ASSUME NEW m \in Keys, m = n, ~overran[m] PROVE KeyInv(m)'
    <3>1. KeyInv(m) /\ rec[m].status = "none"
      BY <1>1, <1>2, <2>4, RowFields DEF GuardInv
    <3>2. \A b \in Attempts : ~Holds(b, m)
      BY <3>1 DEF KeyInv
    <3>3. \A b \in Attempts : Holds(b, m)' => b = a
      BY <2>2, <3>2 DEF Holds, KeyOf
    <3>4. effects[m] <= lost[m]
      BY <3>1, <3>2 DEF KeyInv, Holds, At, Holding
    <3>5. \A b \in Attempts : got[b][m] = NoResult
      BY <3>1 DEF KeyInv
    <3>6. effects[m] \in Nat /\ lost[m] \in Nat /\ Lease \in Nat /\ 0 < Lease
      BY <1>1, GuardAssumption DEF GuardTypeOK
    <3>7. effects'[m] <= 1 + lost'[m] /\ effects'[m] <= lost'[m]
      BY <2>1, <3>4, <3>6
    <3>8. \A b \in Attempts : Holds(b, m)' =>
              rec'[m].status = "STARTED" /\ rec'[m].id = running'[b].id /\ rec'[m].age < Lease
      BY <2>2, <2>3, <2>4, <3>3, <3>6
    <3>9. \A b \in Attempts : got'[b][m] = NoResult
      BY <2>1, <3>5
    <3> QED
      BY <3>3, <3>7, <3>8, <3>9 DEF KeyInv
  <2> QED
    BY <1>1, <2>1, <2>2, <2>3, <2>4, OthersKept
<1>3. CASE rec[n] # NoRec
  <2>1. Goto(a, "read") /\ UNCHANGED <<rec, got, ghosts>>
    BY <1>3 DEF Insert
  <2>2. running'[a].at = "read" /\ \A b \in Attempts : b # a => running'[b] = running[b]
    BY <1>1, <2>1, Moves, PlaceFacts
  <2> QED
    BY <1>1, <2>1, <2>2, Leaves DEF Holding
<1> QED
  BY <1>2, <1>3

LEMMA ReadKeeps ==
  ASSUME GuardSafeInv, NEW a \in Attempts, Read(a)
  PROVE  GuardInv'
<1> DEFINE n == KeyOf(a)
<1>1. /\ GuardTypeOK /\ GuardInv /\ n \in Keys /\ running[a].at = "read"
      /\ UNCHANGED <<rec, ghosts>>
  BY DEF GuardSafeInv, GuardTypeOK, KeyOf, Read
<1>2. CASE running' = [running EXCEPT ![a].at = "takeover", ![a].id = rec[n].id] /\ UNCHANGED got
  <2>1. running'[a].at = "takeover" /\ \A b \in Attempts : b # a => running'[b] = running[b]
    BY <1>1, <1>2 DEF GuardTypeOK
  <2> QED
    BY <1>1, <1>2, <2>1, Leaves DEF Holding
<1>3. CASE Goto(a, "failed") /\ UNCHANGED got
  <2>1. running'[a].at = "failed" /\ \A b \in Attempts : b # a => running'[b] = running[b]
    BY <1>1, <1>3, Moves, PlaceFacts
  <2> QED
    BY <1>1, <1>3, <2>1, Leaves DEF Holding
<1>4. CASE rec[n].status = "COMPLETED" /\ Returned(a, rec[n].result)
  <2>1. rec[n].result \in 0..LastAttempt
    BY <1>1, RowFields, GuardAssumption DEF GuardTypeOK
  <2>2. /\ got'[a][n] = rec[n].result
        /\ \A k \in Keys : k # n => got'[a][k] = got[a][k]
        /\ \A b \in Attempts : b # a => got'[b] = got[b]
        /\ running'[a].at \in {"insert", "done"}
        /\ \A b \in Attempts : b # a => running'[b] = running[b]
    BY <1>1, <1>4, <2>1, Returns
  <2>3. ASSUME NEW m \in Keys, m = n, ~overran[m] PROVE KeyInv(m)'
    <3>1. KeyInv(m)
      BY <1>1, <2>3 DEF GuardInv
    <3>2. \A b \in Attempts : Holds(b, m)' => Holds(b, m) /\ running'[b] = running[b]
      BY <2>2 DEF Holds, KeyOf, Holding
    <3>3. \A b \in Attempts : got'[b][m] # NoResult => rec[m].result = got'[b][m]
      BY <2>2, <2>3, <3>1 DEF KeyInv
    <3>4. rec'[m].status = "COMPLETED" /\ rec'[m] = rec[m]
          /\ effects'[m] = effects[m] /\ lost'[m] = lost[m]
      BY <1>1, <1>4, <2>3 DEF ghosts
    <3> QED
      BY <3>1, <3>2, <3>3, <3>4 DEF KeyInv
  <2>4. \A k \in Keys \ {n} : rec'[k] = rec[k] /\ effects'[k] = effects[k] /\ lost'[k] = lost[k]
    BY <1>1 DEF ghosts
  <2>5. running'[a].at \notin Holding /\ UNCHANGED overran
    BY <1>1, <2>2 DEF Holding, ghosts
  <2> QED
    BY <1>1, <2>2, <2>3, <2>4, <2>5, OthersKept
<1> QED
  BY <1>2, <1>3, <1>4 DEF Read

LEMMA TakeOverKeeps ==
  ASSUME GuardSafeInv, NEW a \in Attempts, TakeOver(a)
  PROVE  GuardInv'
<1> DEFINE n == KeyOf(a)
<1>1. /\ GuardTypeOK /\ GuardInv /\ n \in Keys /\ running[a].at = "takeover"
      /\ UNCHANGED <<got, ghosts>>
  BY DEF GuardSafeInv, GuardTypeOK, KeyOf, TakeOver
<1>2. CASE Goto(a, "failed") /\ UNCHANGED rec
  <2>1. running'[a].at = "failed" /\ \A b \in Attempts : b # a => running'[b] = running[b]
    BY <1>1, <1>2, Moves, PlaceFacts
  <2> QED
    BY <1>1, <1>2, <2>1, Leaves DEF Holding
<1>3. CASE /\ Matches(a) /\ rec[n].status = "STARTED" /\ rec[n].age >= Lease
           /\ rec' = [rec EXCEPT ![n].age = 0]
           /\ Claimed(a, running[a].id)
  <2>1. running[a].id \in 0..LastAttempt /\ rec[n].id = running[a].id
    BY <1>1, <1>3 DEF GuardTypeOK, Matches, KeyOf
  <2>2. /\ running'[a].at = "work" /\ running'[a].key = n /\ running'[a].id = running[a].id
        /\ \A b \in Attempts : b # a => running'[b] = running[b]
    BY <1>1, <1>3, <2>1, Claims DEF KeyOf
  <2>3. /\ rec'[n].status = "STARTED" /\ rec'[n].id = rec[n].id /\ rec'[n].age = 0
        /\ \A k \in Keys \ {n} : rec'[k] = rec[k]
    BY <1>1, <1>3 DEF GuardTypeOK
  <2>4. ASSUME NEW m \in Keys, m = n, ~overran[m] PROVE KeyInv(m)'
    <3>1. KeyInv(m) /\ rec[m].status = "STARTED" /\ rec[m].age >= Lease
      BY <1>1, <1>3, <2>4 DEF GuardInv
    <3>2. rec[m].age \in Nat /\ Lease \in Nat /\ 0 < Lease
      BY <1>1, GuardAssumption, RowFields DEF GuardTypeOK
    <3>3. \A b \in Attempts : ~Holds(b, m)
      BY <3>1, <3>2 DEF KeyInv
    <3>4. \A b \in Attempts : Holds(b, m)' => b = a
      BY <2>2, <3>3 DEF Holds, KeyOf
    <3>5. effects[m] <= lost[m]
      BY <3>1, <3>3 DEF KeyInv, Holds, At, Holding
    <3>6. \A b \in Attempts : got[b][m] = NoResult
      BY <3>1 DEF KeyInv
    <3>7. effects[m] \in Nat /\ lost[m] \in Nat /\ effects'[m] = effects[m] /\ lost'[m] = lost[m]
      BY <1>1 DEF GuardTypeOK, ghosts
    <3>8. effects'[m] <= 1 + lost'[m] /\ effects'[m] <= lost'[m]
      BY <3>5, <3>7
    <3>9. \A b \in Attempts : Holds(b, m)' =>
              rec'[m].status = "STARTED" /\ rec'[m].id = running'[b].id /\ rec'[m].age < Lease
      BY <2>1, <2>2, <2>3, <2>4, <3>2, <3>4
    <3>10. \A b \in Attempts : got'[b][m] = NoResult
      BY <1>1, <3>6
    <3> QED
      BY <3>4, <3>8, <3>9, <3>10 DEF KeyInv
  <2>5. /\ UNCHANGED overran
        /\ \A k \in Keys : effects'[k] = effects[k] /\ lost'[k] = lost[k]
    BY <1>1 DEF ghosts
  <2> QED
    BY <1>1, <2>2, <2>3, <2>4, <2>5, OthersKept
<1> QED
  BY <1>2, <1>3 DEF TakeOver

LEMMA WorkKeeps ==
  ASSUME GuardSafeInv, NEW a \in Attempts, Work(a)
  PROVE  GuardInv'
<1> DEFINE n == KeyOf(a)
<1>1. /\ GuardTypeOK /\ GuardInv /\ n \in Keys /\ running[a].at = "work"
      /\ UNCHANGED <<rec, got, overran>>
  BY DEF GuardSafeInv, GuardTypeOK, KeyOf, Work
<1>2. PICK p \in {"complete", "release"} :
        /\ Goto(a, p)
        /\ \/ /\ effects' = [effects EXCEPT ![n] = @ + 1]
              /\ \/ p = "complete" /\ UNCHANGED lost
                 \/ p = "release" /\ lost' = [lost EXCEPT ![n] = @ + 1]
           \/ p = "release" /\ UNCHANGED <<effects, lost>>
  BY DEF Work
<1>3. /\ running'[a].at = p /\ running'[a].key = n /\ running'[a].id = running[a].id
      /\ \A b \in Attempts : b # a => running'[b] = running[b]
  BY <1>1, <1>2, Moves, PlaceFacts DEF KeyOf
<1>4. effects \in [Keys -> Nat] /\ lost \in [Keys -> Nat]
  BY <1>1 DEF GuardTypeOK
<1>5. \A k \in Keys \ {n} : effects'[k] = effects[k] /\ lost'[k] = lost[k]
  BY <1>2, <1>4
<1>6. ASSUME NEW m \in Keys, m = n, ~overran[m] PROVE KeyInv(m)'
  <2>1. KeyInv(m) /\ Holds(a, m)
    BY <1>1, <1>6 DEF GuardInv, Holds, Holding
  <2>2. \A b \in Attempts : Holds(b, m)' => Holds(b, m) /\ running'[b].id = running[b].id
    BY <1>3, <2>1 DEF Holds, KeyOf
  <2>3. rec[m].status = "STARTED" /\ \A b \in Attempts : Holds(b, m) => b = a
    BY <2>1 DEF KeyInv
  <2>4. effects[m] <= lost[m]
    BY <1>1, <2>1, <2>3 DEF KeyInv, At, Holds, Holding
  <2>5. effects'[m] <= 1 + lost'[m] /\ (p = "complete" \/ effects'[m] <= lost'[m])
    BY <1>2, <1>4, <1>6, <2>4
  <2>6. p = "complete" => At(a, m, "complete")'
    BY <1>3, <1>6 DEF At, KeyOf
  <2>7. (\E b \in Attempts : At(b, m, "complete")') \/ effects'[m] <= lost'[m]
    BY <2>5, <2>6
  <2>8. rec'[m] = rec[m] /\ got' = got
    BY <1>1
  <2> QED
    BY <2>1, <2>2, <2>5, <2>7, <2>8 DEF KeyInv
<1> QED
  BY <1>1, <1>3, <1>5, <1>6, OthersKept

LEMMA ReleaseKeeps ==
  ASSUME GuardSafeInv, NEW a \in Attempts, Release(a)
  PROVE  GuardInv'
<1> DEFINE n == KeyOf(a)
<1>1. /\ GuardTypeOK /\ GuardInv /\ n \in Keys /\ running[a].at = "release" /\ Goto(a, "failed")
      /\ UNCHANGED <<got, effects, lost, overran>>
      /\ rec' = [rec EXCEPT ![n] = IF Matches(a) /\ @.status = "STARTED" THEN NoRec ELSE @]
  BY DEF GuardSafeInv, GuardTypeOK, KeyOf, Release, ghosts
<1>2. running'[a].at = "failed" /\ \A b \in Attempts : b # a => running'[b] = running[b]
  BY <1>1, Moves, PlaceFacts
<1>3. /\ \A k \in Keys \ {n} : rec'[k] = rec[k]
      /\ rec[n].status # "COMPLETED" \/ rec'[n] = rec[n]
  BY <1>1 DEF GuardTypeOK
<1>4. ASSUME NEW m \in Keys, m = n, ~overran[m] PROVE KeyInv(m)'
  <2>1. KeyInv(m) /\ Holds(a, m)
    BY <1>1, <1>4 DEF GuardInv, Holds, Holding
  <2>2. rec[m].status = "STARTED" /\ \A b \in Attempts : Holds(b, m) => b = a
    BY <2>1 DEF KeyInv
  <2>3. \A b \in Attempts : ~Holds(b, m)'
    BY <1>2, <2>2 DEF Holds, KeyOf, Holding
  <2>4. effects[m] <= lost[m] /\ effects[m] <= 1 + lost[m]
    BY <1>1, <2>1, <2>2 DEF KeyInv, At, Holds, Holding
  <2>5. \A b \in Attempts : got[b][m] = NoResult
    BY <2>1, <2>2 DEF KeyInv
  <2> QED
    BY <1>1, <2>3, <2>4, <2>5 DEF KeyInv
<1>5. running'[a].at \notin Holding
  BY <1>2 DEF Holding
<1> QED
  BY <1>1, <1>2, <1>3, <1>4, <1>5, OthersKept

LEMMA CompleteKeeps ==
  ASSUME GuardSafeInv, NEW a \in Attempts, Complete(a)
  PROVE  GuardInv'
<1> DEFINE n == KeyOf(a)
<1>1. /\ GuardTypeOK /\ GuardInv /\ n \in Keys /\ running[a].at = "complete" /\ Returned(a, a)
      /\ UNCHANGED <<effects, lost, overran>>
      /\ rec' = [rec EXCEPT ![n] =
                    IF Matches(a)
                    THEN [@ EXCEPT !.status = "COMPLETED", !.age = 0, !.result = a] ELSE @]
  BY DEF GuardSafeInv, GuardTypeOK, KeyOf, Complete, ghosts
<1>2. /\ got'[a][n] = a
      /\ \A k \in Keys : k # n => got'[a][k] = got[a][k]
      /\ \A b \in Attempts : b # a => got'[b] = got[b]
      /\ running'[a].at \in {"insert", "done"}
      /\ \A b \in Attempts : b # a => running'[b] = running[b]
  <2>1. a \in 0..LastAttempt
    BY DEF Attempts
  <2> QED
    BY <1>1, <2>1, Returns
<1>3. \A k \in Keys \ {n} : rec'[k] = rec[k]
  BY <1>1 DEF GuardTypeOK
<1>4. ASSUME NEW m \in Keys, m = n, ~overran[m] PROVE KeyInv(m)'
  <2>1. KeyInv(m) /\ Holds(a, m)
    BY <1>1, <1>4 DEF GuardInv, Holds, Holding
  <2>2. /\ rec[m].status = "STARTED" /\ rec[m].id = running[a].id
        /\ \A b \in Attempts : Holds(b, m) => b = a
    BY <2>1 DEF KeyInv
  <2>3. \A b \in Attempts : ~Holds(b, m)'
    BY <1>2, <2>2 DEF Holds, KeyOf, Holding
  <2>4. rec[m] \in Rec
    BY <1>1, <2>2, RowFields DEF GuardTypeOK
  <2>5. rec'[m] = [rec[m] EXCEPT !.status = "COMPLETED", !.age = 0, !.result = a]
    BY <1>1, <1>4, <2>2 DEF GuardTypeOK, Matches
  <2>6. rec'[m].status = "COMPLETED" /\ rec'[m].result = a
    BY <2>4, <2>5 DEF Rec
  <2>7. \A b \in Attempts : b # a => got'[b][m] = NoResult
    BY <1>2, <2>1, <2>2 DEF KeyInv
  <2>8. got'[a][m] = a
    BY <1>2, <1>4
  <2>9. \A b \in Attempts : got'[b][m] # NoResult => rec'[m].result = got'[b][m]
    BY <2>6, <2>7, <2>8
  <2> QED
    BY <1>1, <2>1, <2>3, <2>6, <2>9 DEF KeyInv
<1>5. running'[a].at \notin Holding
  BY <1>2 DEF Holding
<1> QED
  BY <1>1, <1>2, <1>3, <1>4, <1>5, OthersKept

(* A failing statement and a dying worker: an effect that was not recorded is *)
(* lost.                                                                      *)
LEMMA FailKeeps ==
  ASSUME GuardSafeInv, NEW a \in Attempts, StatementFails(a) \/ Die(a)
  PROVE  GuardInv'
<1> DEFINE n == KeyOf(a)
<1>1. /\ GuardTypeOK /\ GuardInv /\ n \in Keys /\ LosesEffect(a)
      /\ UNCHANGED <<rec, got, effects, overran>>
  BY DEF GuardSafeInv, GuardTypeOK, KeyOf, StatementFails, Die
<1>2. PICK p \in {"failed", "dead"} : Goto(a, p)
  BY DEF StatementFails, Die
<1>3. running'[a].at = p /\ \A b \in Attempts : b # a => running'[b] = running[b]
  BY <1>1, <1>2, Moves, PlaceFacts
<1>4. effects \in [Keys -> Nat] /\ lost \in [Keys -> Nat]
  BY <1>1 DEF GuardTypeOK
<1>5. running'[a].at \notin Holding
  BY <1>3 DEF Holding
<1>6. CASE running[a].at # "complete"
  <2>1. \A k \in Keys : lost'[k] = lost[k]
    BY <1>1, <1>4, <1>6 DEF LosesEffect
  <2>2. lost' = lost
    BY <1>1, <1>4, <1>6 DEF LosesEffect
  <2> QED
    BY <1>1, <1>3, <1>5, <1>6, <2>2, Leaves DEF ghosts
<1>7. CASE running[a].at = "complete"
  <2>1. /\ lost'[n] = lost[n] + 1
        /\ \A k \in Keys \ {n} : lost'[k] = lost[k]
    BY <1>1, <1>4, <1>7 DEF LosesEffect
  <2>2. ASSUME NEW m \in Keys, m = n, ~overran[m] PROVE KeyInv(m)'
    <3>1. KeyInv(m)
      BY <1>1, <2>2 DEF GuardInv
    <3>2. \A b \in Attempts : Holds(b, m)' => Holds(b, m) /\ running'[b] = running[b]
      BY <1>3, <1>5 DEF Holds, KeyOf
    <3>3. effects[m] <= 1 + lost[m]
      BY <3>1 DEF KeyInv
    <3>4. effects'[m] <= lost'[m] /\ effects'[m] <= 1 + lost'[m]
      BY <1>1, <1>4, <2>1, <2>2, <3>3
    <3>5. rec'[m] = rec[m] /\ got' = got
      BY <1>1
    <3> QED
      BY <3>1, <3>2, <3>4, <3>5 DEF KeyInv
  <2> QED
    BY <1>1, <1>3, <1>5, <2>1, <2>2, OthersKept
<1> QED
  BY <1>6, <1>7

LEMMA TickKeeps ==
  ASSUME GuardSafeInv, Tick
  PROVE  GuardInv'
<1>1. GuardTypeOK /\ GuardInv /\ UNCHANGED <<running, got, effects, lost>>
  BY DEF GuardSafeInv, Tick
<1>2. ASSUME NEW k \in Keys, ~overran'[k] PROVE KeyInv(k)'
  <2>1. ~overran[k] /\ ~(/\ Older(k) /\ rec[k].age + 1 = Lease
                         /\ \E a \in Attempts : /\ running[a].at \in Holding
                                                /\ KeyOf(a) = k /\ Matches(a))
    BY <1>2 DEF Tick
  <2>2. KeyInv(k)
    BY <1>1, <2>1 DEF GuardInv
  <2>3. rec'[k] = IF Older(k) THEN [rec[k] EXCEPT !.age = @ + 1] ELSE rec[k]
    BY DEF Tick
  <2>4. rec[k] \in Rec \cup {NoRec}
    BY <1>1 DEF GuardTypeOK
  <2>5. /\ rec'[k].status = rec[k].status /\ rec'[k].id = rec[k].id
        /\ rec'[k].result = rec[k].result
        /\ rec'[k].age = IF Older(k) THEN rec[k].age + 1 ELSE rec[k].age
    BY <2>3, <2>4 DEF Rec, NoRec
  <2>6. rec[k].age \in Nat /\ Lease \in Nat
    BY <1>1, GuardAssumption, RowFields DEF GuardTypeOK
  <2>7. ASSUME NEW a \in Attempts, Holds(a, k)'
        PROVE  rec'[k].status = "STARTED" /\ rec'[k].id = running'[a].id /\ rec'[k].age < Lease
    <3>1. Holds(a, k)
      BY <1>1, <2>7 DEF Holds, KeyOf
    <3>2. rec[k].status = "STARTED" /\ rec[k].id = running[a].id /\ rec[k].age < Lease
      BY <2>2, <3>1 DEF KeyInv
    <3>3. Matches(a) /\ Older(k)
      BY <3>1, <3>2 DEF Matches, Holds, Older
    <3>4. rec[k].age + 1 # Lease
      BY <2>1, <3>1, <3>3 DEF Holds
    <3>5. rec'[k].age < Lease
      BY <2>5, <2>6, <3>2, <3>3, <3>4
    <3> QED
      BY <1>1, <2>5, <3>2, <3>5
  <2>8. \A a, b \in Attempts : (Holds(a, k) /\ Holds(b, k))' => a = b
    BY <1>1, <2>2 DEF KeyInv, Holds, KeyOf
  <2>9. \/ rec'[k].status = "COMPLETED"
        \/ \E a \in Attempts : At(a, k, "complete")'
        \/ effects'[k] <= lost'[k]
    BY <1>1, <2>2, <2>5 DEF KeyInv, At, KeyOf
  <2>10. effects'[k] <= 1 + lost'[k]
    BY <1>1, <2>2 DEF KeyInv
  <2>11. \A a \in Attempts : got'[a][k] # NoResult =>
             rec'[k].status = "COMPLETED" /\ rec'[k].result = got'[a][k]
    BY <1>1, <2>2, <2>5 DEF KeyInv
  <2> QED
    BY <2>7, <2>8, <2>9, <2>10, <2>11 DEF KeyInv
<1> QED
  BY <1>2 DEF GuardInv

--------------------------------------------------------------------------------
(* Types *)

LEMMA GuardTypeStep ==
  ASSUME GuardTypeOK, IdInv, [GuardNext]_guardVars
  PROVE  GuardTypeOK'
<1>0. LastAttempt \in Nat /\ Lease \in Nat /\ 0 < Lease /\ Timeout \in Nat
  BY GuardAssumption
<1>1. ASSUME NEW a \in Attempts, Start(a) PROVE GuardTypeOK'
  <2>1. /\ Goto(a, "insert") /\ UNCHANGED <<rec, elapsed, got, effects, lost, overran>>
        /\ heard' = [heard EXCEPT ![a] = "started"]
    BY <1>1 DEF Start, ghosts
  <2> QED
    BY <2>1, Moves, PlaceFacts DEF GuardTypeOK
<1>2. ASSUME NEW a \in Attempts, Insert(a) PROVE GuardTypeOK'
  <2>1. UNCHANGED <<heard, elapsed, got, effects, lost, overran>>
    BY <1>2 DEF Insert, ghosts
  <2>2. CASE Goto(a, "read") /\ UNCHANGED rec
    BY <2>1, <2>2, Moves, PlaceFacts DEF GuardTypeOK
  <2>3. CASE /\ Claimed(a, a)
             /\ rec' = [rec EXCEPT ![KeyOf(a)] = [id |-> a, status |-> "STARTED", age |-> 0,
                                                  result |-> NoResult]]
    <3>1. [id |-> a, status |-> "STARTED", age |-> 0, result |-> NoResult] \in Rec
      BY <1>0 DEF Rec, NoResult
    <3>2. rec' \in [Keys -> Rec \cup {NoRec}]
      BY <2>3, <3>1 DEF GuardTypeOK
    <3>3. a \in 0..LastAttempt
      BY <1>0 DEF Attempts
    <3>4. running' \in [Attempts -> [at : Places, key : Keys, id : 0..LastAttempt]]
      BY <2>3, <3>3, Claims
    <3> QED
      BY <2>1, <3>2, <3>4 DEF GuardTypeOK
  <2> QED
    BY <1>2, <2>2, <2>3 DEF Insert
<1>3. ASSUME NEW a \in Attempts, Read(a) PROVE GuardTypeOK'
  <2>1. UNCHANGED <<rec, heard, elapsed, effects, lost, overran>>
    BY <1>3 DEF Read, ghosts
  <2>2. KeyOf(a) \in Keys /\ rec[KeyOf(a)] \in Rec \cup {NoRec}
    BY DEF GuardTypeOK, KeyOf
  <2>3. rec[KeyOf(a)].id \in 0..LastAttempt /\ rec[KeyOf(a)].result \in 0..LastAttempt
    BY <1>0, <2>2, RowFields
  <2>4. CASE Goto(a, "failed") /\ UNCHANGED got
    BY <2>1, <2>4, Moves, PlaceFacts DEF GuardTypeOK
  <2>5. CASE Returned(a, rec[KeyOf(a)].result)
    <3>1. running' \in [Attempts -> [at : Places, key : Keys, id : 0..LastAttempt]]
          /\ got' \in [Attempts -> [Keys -> 0..LastAttempt]]
      BY <2>3, <2>5, Returns
    <3> QED
      BY <2>1, <3>1 DEF GuardTypeOK
  <2>6. CASE /\ running' = [running EXCEPT ![a].at = "takeover", ![a].id = rec[KeyOf(a)].id]
             /\ UNCHANGED got
    <3>1. running' \in [Attempts -> [at : Places, key : Keys, id : 0..LastAttempt]]
      BY <2>3, <2>6, PlaceFacts DEF GuardTypeOK
    <3> QED
      BY <2>1, <2>6, <3>1 DEF GuardTypeOK
  <2> QED
    BY <1>3, <2>4, <2>5, <2>6 DEF Read
<1>4. ASSUME NEW a \in Attempts, TakeOver(a) PROVE GuardTypeOK'
  <2>1. UNCHANGED <<heard, elapsed, got, effects, lost, overran>>
    BY <1>4 DEF TakeOver, ghosts
  <2>2. CASE Goto(a, "failed") /\ UNCHANGED rec
    BY <2>1, <2>2, Moves, PlaceFacts DEF GuardTypeOK
  <2>3. CASE /\ rec[KeyOf(a)].status = "STARTED"
             /\ rec' = [rec EXCEPT ![KeyOf(a)].age = 0]
             /\ Claimed(a, running[a].id)
    <3>1. KeyOf(a) \in Keys /\ rec[KeyOf(a)] \in Rec /\ running[a].id \in 0..LastAttempt
      BY <2>3, RowFields DEF GuardTypeOK, KeyOf
    <3>2. rec' \in [Keys -> Rec \cup {NoRec}]
      <4>1. [rec[KeyOf(a)] EXCEPT !.age = 0] \in Rec
        BY <1>0, <3>1 DEF Rec
      <4> QED
        BY <2>3, <3>1, <4>1 DEF GuardTypeOK
    <3>3. running' \in [Attempts -> [at : Places, key : Keys, id : 0..LastAttempt]]
      BY <2>3, <3>1, Claims
    <3> QED
      BY <2>1, <3>2, <3>3 DEF GuardTypeOK
  <2> QED
    BY <1>4, <2>2, <2>3 DEF TakeOver
<1>5. ASSUME NEW a \in Attempts, Work(a) PROVE GuardTypeOK'
  <2>1. PICK p \in {"complete", "release"} : Goto(a, p)
    BY <1>5 DEF Work
  <2>2. effects' \in [Keys -> Nat] /\ lost' \in [Keys -> Nat]
    <3>1. effects \in [Keys -> Nat] /\ lost \in [Keys -> Nat]
      BY DEF GuardTypeOK
    <3>2. [effects EXCEPT ![KeyOf(a)] = @ + 1] \in [Keys -> Nat]
          /\ [lost EXCEPT ![KeyOf(a)] = @ + 1] \in [Keys -> Nat]
      BY <3>1, Counting DEF GuardTypeOK, KeyOf
    <3>3. effects' = effects \/ effects' = [effects EXCEPT ![KeyOf(a)] = @ + 1]
      BY <1>5 DEF Work
    <3>4. lost' = lost \/ lost' = [lost EXCEPT ![KeyOf(a)] = @ + 1]
      BY <1>5 DEF Work
    <3> QED
      BY <3>1, <3>2, <3>3, <3>4
  <2>3. UNCHANGED <<rec, heard, elapsed, got, overran>>
    BY <1>5 DEF Work
  <2>4. running' \in [Attempts -> [at : Places, key : Keys, id : 0..LastAttempt]]
    BY <2>1, Moves, PlaceFacts
  <2> QED
    BY <2>2, <2>3, <2>4 DEF GuardTypeOK
<1>6. ASSUME NEW a \in Attempts, Release(a) PROVE GuardTypeOK'
  <2>1. rec' \in [Keys -> Rec \cup {NoRec}]
    BY <1>6 DEF Release, GuardTypeOK
  <2>2. Goto(a, "failed") /\ UNCHANGED <<heard, elapsed, got, effects, lost, overran>>
    BY <1>6 DEF Release, ghosts
  <2> QED
    BY <2>1, <2>2, Moves, PlaceFacts DEF GuardTypeOK
<1>7. ASSUME NEW a \in Attempts, Complete(a) PROVE GuardTypeOK'
  <2>1. KeyOf(a) \in Keys /\ rec[KeyOf(a)] \in Rec \cup {NoRec} /\ a \in 0..LastAttempt
    BY <1>0 DEF GuardTypeOK, KeyOf, Attempts
  <2>2. running[a].id # 0
    BY <1>7 DEF IdInv, Complete, Holding, Attempts
  <2>3. /\ UNCHANGED <<heard, elapsed, effects, lost, overran>>
        /\ rec' = [rec EXCEPT ![KeyOf(a)] =
                      IF Matches(a)
                      THEN [@ EXCEPT !.status = "COMPLETED", !.age = 0, !.result = a] ELSE @]
        /\ Returned(a, a)
    BY <1>7 DEF Complete, ghosts
  <2>4. rec' \in [Keys -> Rec \cup {NoRec}]
    <3>1. CASE Matches(a)
      <4>1. rec[KeyOf(a)] \in Rec
        BY <2>1, <2>2, <3>1, RowFields DEF Matches
      <4>2. [rec[KeyOf(a)] EXCEPT !.status = "COMPLETED", !.age = 0, !.result = a] \in Rec
        <5>1. PICK r : r = rec[KeyOf(a)]
          OBVIOUS
        <5>2. r \in Rec /\ a \in 0..LastAttempt /\ 0 \in 0..Lease
          BY <1>0, <2>1, <4>1, <5>1
        <5>3. [r EXCEPT !.status = "COMPLETED", !.age = 0, !.result = a] \in Rec
          BY <5>2 DEF Rec
        <5> QED
          BY <5>1, <5>3
      <4> QED
        BY <2>1, <2>3, <3>1, <4>2 DEF GuardTypeOK
    <3>2. CASE ~Matches(a)
      BY <2>1, <2>3, <3>2 DEF GuardTypeOK
    <3> QED
      BY <3>1, <3>2
  <2>5. running' \in [Attempts -> [at : Places, key : Keys, id : 0..LastAttempt]]
        /\ got' \in [Attempts -> [Keys -> 0..LastAttempt]]
    BY <2>1, <2>3, Returns
  <2> QED
    BY <2>3, <2>4, <2>5 DEF GuardTypeOK
<1>8. ASSUME NEW a \in Attempts, StatementFails(a) \/ Die(a) PROVE GuardTypeOK'
  <2>1. PICK p \in {"failed", "dead"} : Goto(a, p)
    BY <1>8 DEF StatementFails, Die
  <2>2. LosesEffect(a) /\ UNCHANGED <<rec, heard, elapsed, got, effects, overran>>
    BY <1>8 DEF StatementFails, Die
  <2>3. lost' \in [Keys -> Nat]
    <3>1. lost \in [Keys -> Nat]
      BY DEF GuardTypeOK
    <3>2. [lost EXCEPT ![KeyOf(a)] = @ + 1] \in [Keys -> Nat]
          /\ [lost EXCEPT ![KeyOf(a)] = @ + 0] \in [Keys -> Nat]
      BY <3>1, Counting DEF GuardTypeOK, KeyOf
    <3>3. \/ lost' = [lost EXCEPT ![KeyOf(a)] = @ + 1]
          \/ lost' = [lost EXCEPT ![KeyOf(a)] = @ + 0]
      BY <2>2 DEF LosesEffect
    <3> QED
      BY <3>2, <3>3
  <2>4. running' \in [Attempts -> [at : Places, key : Keys, id : 0..LastAttempt]]
    BY <2>1, Moves, PlaceFacts
  <2> QED
    BY <2>2, <2>3, <2>4 DEF GuardTypeOK
<1>9. ASSUME NEW a \in Attempts, Report(a) \/ Expires(a) PROVE GuardTypeOK'
  <2>1. heard' \in [Attempts -> {"nothing", "started", "success", "failure", "timeout"}]
    BY <1>9 DEF Report, Expires, GuardTypeOK
  <2>2. UNCHANGED <<rec, running, elapsed, got, effects, lost, overran>>
    BY <1>9 DEF Report, Expires, ghosts
  <2> QED
    BY <2>1, <2>2 DEF GuardTypeOK
<1>10. CASE Tick
  <2>1. UNCHANGED <<running, heard, got, effects, lost>>
    BY <1>10 DEF Tick
  <2>2. elapsed' \in [Attempts -> 0..Timeout]
    BY <1>0, <1>10 DEF Tick, GuardTypeOK
  <2>3. overran' \in [Keys -> BOOLEAN]
    BY <1>10 DEF Tick, GuardTypeOK
  <2>4. rec' \in [Keys -> Rec \cup {NoRec}]
    <3>1. ASSUME NEW k \in Keys
          PROVE  (IF Older(k) THEN [rec[k] EXCEPT !.age = @ + 1] ELSE rec[k]) \in Rec \cup {NoRec}
      <4>1. CASE Older(k)
        <5>1. rec[k] \in Rec /\ rec[k].age \in 0..Lease /\ rec[k].age < Lease
          BY <4>1, RowFields DEF GuardTypeOK, Older
        <5>2. rec[k].age + 1 \in 0..Lease
          BY <1>0, <5>1
        <5>3. [rec[k] EXCEPT !.age = @ + 1] \in Rec
          BY <5>1, <5>2 DEF Rec
        <5> QED
          BY <4>1, <5>3
      <4>2. CASE ~Older(k)
        BY <4>2 DEF GuardTypeOK
      <4> QED
        BY <4>1, <4>2
    <3> QED
      BY <1>10, <3>1 DEF Tick
  <2> QED
    BY <2>1, <2>2, <2>3, <2>4 DEF GuardTypeOK
<1>11. CASE UNCHANGED guardVars
  BY <1>11 DEF guardVars, GuardTypeOK
<1> QED
  BY <1>1, <1>2, <1>3, <1>4, <1>5, <1>6, <1>7, <1>8, <1>9, <1>10, <1>11 DEF GuardNext

LEMMA IdStep ==
  ASSUME GuardTypeOK, IdInv, [GuardNext]_guardVars
  PROVE  IdInv'
<1> SUFFICES ASSUME NEW b \in Attempts, running'[b].at \in Holding \cup {"takeover"}
             PROVE  running'[b].id \in Attempts
  BY DEF IdInv
<1>1. CASE running'[b] = running[b]
  BY <1>1 DEF IdInv
<1>2. ASSUME NEW p \in {"insert", "read", "failed", "dead"}, Goto(b, p) PROVE FALSE
  <2>1. p \in Places
    BY <1>2, PlaceFacts DEF Live, Places
  <2>2. running'[b].at = p
    BY <1>2, <2>1, Moves
  <2> QED
    BY <1>2, <2>2 DEF Holding
<1>3. ASSUME NEW r, Returned(b, r) PROVE FALSE
  BY <1>3 DEF Returned, Holding, GuardTypeOK
<1>4. CASE Insert(b) /\ Claimed(b, b)
  BY <1>4 DEF Claimed, GuardTypeOK
<1>5. CASE Read(b) /\ running'[b].at = "takeover"
  <2>1. rec[KeyOf(b)].status = "STARTED" /\ running'[b].id = rec[KeyOf(b)].id
    BY <1>5 DEF Read, Goto, Returned, GuardTypeOK
  <2>2. rec[KeyOf(b)] \in Rec
    BY <2>1, RowFields DEF GuardTypeOK, KeyOf
  <2> QED
    BY <2>1, <2>2, RowFields DEF Attempts
<1>6. CASE running[b].at \in {"takeover", "work"} /\ running'[b].id = running[b].id
  BY <1>6 DEF IdInv, Holding
<1>7. ASSUME NEW a \in Attempts, a # b,
             \/ Start(a) \/ Insert(a) \/ Read(a) \/ TakeOver(a) \/ Work(a)
             \/ Release(a) \/ Complete(a) \/ StatementFails(a) \/ Die(a)
             \/ Report(a) \/ Expires(a)
      PROVE  running'[b] = running[b]
  BY <1>7 DEF Start, Insert, Read, TakeOver, Work, Release, Complete, StatementFails, Die,
              Report, Expires, Goto, Claimed, Returned, GuardTypeOK
<1>8. CASE TakeOver(b) \/ Work(b)
  <2>1. running[b].at \in {"takeover", "work"}
    BY <1>8 DEF TakeOver, Work
  <2>2. running'[b].id = running[b].id
    BY <1>8 DEF TakeOver, Work, Goto, Claimed, GuardTypeOK
  <2> QED
    BY <1>6, <2>1, <2>2
<1>9. CASE Start(b) \/ Release(b) \/ StatementFails(b) \/ Die(b)
  BY <1>2, <1>9 DEF Start, Release, StatementFails, Die
<1>10. CASE Insert(b)
  BY <1>2, <1>4, <1>10 DEF Insert
<1>11. CASE Read(b)
  <2>1. CASE Goto(b, "failed") \/ Returned(b, rec[KeyOf(b)].result)
    BY <1>2, <1>3, <2>1
  <2>2. CASE running' = [running EXCEPT ![b].at = "takeover", ![b].id = rec[KeyOf(b)].id]
    <3>1. running'[b].at = "takeover"
      BY <2>2 DEF GuardTypeOK
    <3> QED
      BY <1>5, <1>11, <3>1
  <2> QED
    BY <1>11, <2>1, <2>2 DEF Read
<1>12. CASE Complete(b)
  BY <1>3, <1>12 DEF Complete
<1>13. CASE Report(b) \/ Expires(b) \/ Tick \/ UNCHANGED guardVars
  BY <1>1, <1>13 DEF Report, Expires, Tick, guardVars
<1> QED
  BY <1>1, <1>7, <1>8, <1>9, <1>10, <1>11, <1>12, <1>13 DEF GuardNext

--------------------------------------------------------------------------------
(* What is done has taken effect *)

(* Effects do not shrink, and what a step marks as done has had its effect.   *)
LEMMA DoneGrows ==
  ASSUME GuardTypeOK, DoneInv, NEW a \in Attempts,
         \A k \in Keys : effects[k] > 0 => effects'[k] > 0,
         \A b \in Attempts : b # a => running'[b] = running[b] /\ KeyOf(b) \in Keys,
         \A k \in Keys : rec'[k].status = "COMPLETED" => effects'[k] > 0,
         running'[a].at = "complete" => effects'[running'[a].key] > 0,
         \A k \in Keys : k < running'[a].key \/ running'[a].at = "done" => effects'[k] > 0,
         \A b \in Attempts : b # a => heard'[b] = heard[b],
         heard'[a] = "success" => running'[a].at = "done",
         heard'[a] # "nothing"
  PROVE  DoneInv'
<1>1. \A b \in Attempts : running'[b].at = "complete" => effects'[running'[b].key] > 0
  BY DEF DoneInv, KeyOf
<1>2. \A b \in Attempts, k \in Keys :
          k < running'[b].key \/ running'[b].at = "done" => effects'[k] > 0
  BY DEF DoneInv, KeyOf
<1>3. \A b \in Attempts : /\ heard'[b] = "success" => running'[b].at = "done"
                          /\ heard'[b] = "nothing" => running'[b].at = "new"
  BY DEF DoneInv
<1> QED
  BY <1>1, <1>2, <1>3 DEF DoneInv, KeyOf

LEMMA DoneStep ==
  ASSUME GuardTypeOK, IdInv, DoneInv, [GuardNext]_guardVars
  PROVE  DoneInv'
<1>0. \A b \in Attempts : KeyOf(b) \in Keys /\ KeyOf(b) \in Nat
  BY DEF GuardTypeOK, KeyOf, Keys
(* A step of one attempt to a place where nothing is done yet. *)
<1>1. ASSUME NEW a \in Attempts, NEW p \in Places \ {"complete", "done"}, Goto(a, p),
             heard[a] # "success" \/ running[a].at # "done",
             \A k \in Keys : effects[k] > 0 => effects'[k] > 0,
             \A k \in Keys : rec'[k].status = "COMPLETED" => rec[k].status = "COMPLETED",
             \A b \in Attempts : b # a => heard'[b] = heard[b],
             heard'[a] # "success" \/ heard'[a] = heard[a], heard'[a] # "nothing"
      PROVE  DoneInv'
  <2>1. /\ running'[a].at = p /\ running'[a].key = KeyOf(a)
        /\ \A b \in Attempts : b # a => running'[b] = running[b]
    BY <1>1, Moves DEF KeyOf
  <2>2. heard'[a] # "success"
    BY <1>1 DEF DoneInv
  <2>3. \A k \in Keys : rec'[k].status = "COMPLETED" => effects'[k] > 0
    BY <1>1 DEF DoneInv
  <2>4. \A k \in Keys : k < running'[a].key => effects'[k] > 0
    BY <1>1, <2>1 DEF DoneInv
  <2>5. running'[a].at # "complete" /\ running'[a].at # "done"
    BY <1>1, <2>1
  <2> QED
    BY <1>0, <1>1, <2>1, <2>2, <2>3, <2>4, <2>5, DoneGrows
(* An attempt that runs has not reported. *)
<1>2. \A a \in Attempts : /\ running[a].at # "done" => heard[a] # "success"
                          /\ running[a].at # "new" => heard[a] # "nothing"
  BY DEF DoneInv
<1>3. ASSUME NEW a \in Attempts, Start(a) PROVE DoneInv'
  <2>1. /\ Goto(a, "insert") /\ UNCHANGED <<rec, effects>>
        /\ heard' = [heard EXCEPT ![a] = "started"] /\ heard[a] # "success"
    BY <1>3 DEF Start, ghosts
  <2>2. /\ heard'[a] # "success" /\ heard'[a] # "nothing"
        /\ \A b \in Attempts : b # a => heard'[b] = heard[b]
    BY <2>1 DEF GuardTypeOK
  <2>3. "insert" \in Places \ {"complete", "done"}
    BY PlaceFacts
  <2> QED
    BY <1>1, <2>1, <2>2, <2>3
<1>4. ASSUME NEW a \in Attempts, Returned(a, rec[KeyOf(a)].result) \/ Returned(a, a),
             effects[KeyOf(a)] > 0, UNCHANGED <<effects, heard>>,
             heard[a] # "success", heard[a] # "nothing",
             \A k \in Keys \ {KeyOf(a)} : rec'[k] = rec[k]
      PROVE  DoneInv'
  <2>1. PICK r \in 0..LastAttempt : Returned(a, r)
    <3>1. rec[KeyOf(a)] \in Rec \cup {NoRec} /\ LastAttempt \in Nat
      BY <1>0, GuardAssumption DEF GuardTypeOK
    <3>2. rec[KeyOf(a)].result \in 0..LastAttempt
      BY <3>1, RowFields
    <3>3. a \in 0..LastAttempt
      BY DEF Attempts
    <3> QED
      BY <1>4, <3>2, <3>3
  <2>2. /\ running'[a].at \in {"insert", "done"}
        /\ \A k \in Keys : k < running'[a].key => k <= KeyOf(a)
        /\ running'[a].at = "done" => KeyOf(a) = LastKey
        /\ \A b \in Attempts : b # a => running'[b] = running[b]
    BY <2>1, Returns
  <2>3. \A k \in Keys : k <= KeyOf(a) => effects'[k] > 0
    <3>1. \A k \in Keys : k <= KeyOf(a) => k < KeyOf(a) \/ k = KeyOf(a)
      BY <1>0 DEF Keys
    <3> QED
      BY <1>4, <3>1 DEF DoneInv
  <2>4. \A k \in Keys : running'[a].at = "done" => k <= KeyOf(a)
    BY <2>2, GuardAssumption DEF Keys
  <2>5. \A k \in Keys : rec'[k].status = "COMPLETED" => effects'[k] > 0
    BY <1>4 DEF DoneInv
  <2> QED
    BY <1>0, <1>4, <2>2, <2>3, <2>4, <2>5, DoneGrows
<1>5. ASSUME NEW a \in Attempts, Insert(a) PROVE DoneInv'
  <2>1. UNCHANGED <<heard, effects>> /\ running[a].at = "insert"
    BY <1>5 DEF Insert, ghosts
  <2>2. CASE Goto(a, "read") /\ UNCHANGED rec
    BY <1>1, <1>2, <2>1, <2>2, PlaceFacts
  <2>3. CASE /\ Claimed(a, a)
             /\ rec' = [rec EXCEPT ![KeyOf(a)] = [id |-> a, status |-> "STARTED", age |-> 0,
                                                  result |-> NoResult]]
    <3>1. a \in 0..LastAttempt
      BY DEF Attempts
    <3>2. /\ running'[a].at = "work" /\ running'[a].key = KeyOf(a)
          /\ \A b \in Attempts : b # a => running'[b] = running[b]
      BY <2>3, <3>1, Claims DEF KeyOf
    <3>3. \A k \in Keys : rec'[k].status = "COMPLETED" => rec[k].status = "COMPLETED"
      BY <2>3 DEF GuardTypeOK
    <3>4. \A k \in Keys : rec'[k].status = "COMPLETED" => effects'[k] > 0
      BY <2>1, <3>3 DEF DoneInv
    <3>5. \A k \in Keys : k < KeyOf(a) => effects'[k] > 0
      BY <2>1 DEF DoneInv
    <3> QED
      BY <1>0, <1>2, <2>1, <3>2, <3>4, <3>5, DoneGrows
  <2> QED
    BY <1>5, <2>2, <2>3 DEF Insert
<1>6. ASSUME NEW a \in Attempts, Read(a) PROVE DoneInv'
  <2>1. UNCHANGED <<rec, heard, effects>> /\ running[a].at = "read"
    BY <1>6 DEF Read, ghosts
  <2>2. CASE Goto(a, "failed")
    BY <1>1, <1>2, <2>1, <2>2, PlaceFacts
  <2>3. CASE rec[KeyOf(a)].status = "COMPLETED" /\ Returned(a, rec[KeyOf(a)].result)
    BY <1>0, <1>2, <1>4, <2>1, <2>3 DEF DoneInv
  <2>4. CASE running' = [running EXCEPT ![a].at = "takeover", ![a].id = rec[KeyOf(a)].id]
    <3>1. /\ running'[a].at = "takeover" /\ running'[a].key = KeyOf(a)
          /\ \A b \in Attempts : b # a => running'[b] = running[b]
      BY <2>4 DEF GuardTypeOK, KeyOf
    <3>2. \A k \in Keys : rec'[k].status = "COMPLETED" => effects'[k] > 0
      BY <2>1 DEF DoneInv
    <3>3. \A k \in Keys : k < KeyOf(a) => effects'[k] > 0
      BY <2>1 DEF DoneInv
    <3> QED
      BY <1>0, <1>2, <2>1, <3>1, <3>2, <3>3, DoneGrows
  <2> QED
    BY <1>6, <2>2, <2>3, <2>4 DEF Read
<1>7. ASSUME NEW a \in Attempts, TakeOver(a) PROVE DoneInv'
  <2>1. UNCHANGED <<heard, effects>> /\ running[a].at = "takeover"
    BY <1>7 DEF TakeOver, ghosts
  <2>2. CASE Goto(a, "failed") /\ UNCHANGED rec
    BY <1>1, <1>2, <2>1, <2>2, PlaceFacts
  <2>3. CASE rec' = [rec EXCEPT ![KeyOf(a)].age = 0] /\ Claimed(a, running[a].id)
    <3>1. running[a].id \in 0..LastAttempt
      BY DEF GuardTypeOK
    <3>2. /\ running'[a].at = "work" /\ running'[a].key = KeyOf(a)
          /\ \A b \in Attempts : b # a => running'[b] = running[b]
      BY <2>3, <3>1, Claims DEF KeyOf
    <3>3. \A k \in Keys : rec'[k].status = "COMPLETED" => rec[k].status = "COMPLETED"
      <4>1. \A k \in Keys : k # KeyOf(a) => rec'[k] = rec[k]
        BY <2>3 DEF GuardTypeOK
      <4>2. rec'[KeyOf(a)] = [rec[KeyOf(a)] EXCEPT !.age = 0]
        BY <1>0, <2>3 DEF GuardTypeOK
      <4>3. rec'[KeyOf(a)].status = rec[KeyOf(a)].status
        BY <1>0, <4>2 DEF GuardTypeOK, Rec, NoRec
      <4> QED
        BY <4>1, <4>3
    <3>4. \A k \in Keys : rec'[k].status = "COMPLETED" => effects'[k] > 0
      BY <2>1, <3>3 DEF DoneInv
    <3>5. \A k \in Keys : k < KeyOf(a) => effects'[k] > 0
      BY <2>1 DEF DoneInv
    <3> QED
      BY <1>0, <1>2, <2>1, <3>2, <3>4, <3>5, DoneGrows
  <2> QED
    BY <1>7, <2>2, <2>3 DEF TakeOver
<1>8. ASSUME NEW a \in Attempts, Work(a) PROVE DoneInv'
  <2>1. UNCHANGED <<rec, heard>> /\ running[a].at = "work"
    BY <1>8 DEF Work
  <2>2. \A k \in Keys : effects[k] \in Nat
    BY DEF GuardTypeOK
  <2>3. \A k \in Keys : effects[k] > 0 => effects'[k] > 0
    <3>1. \A k \in Keys : effects'[k] = effects[k] \/ effects'[k] = effects[k] + 1
      BY <1>8 DEF Work, GuardTypeOK
    <3> QED
      BY <2>2, <3>1
  <2>4. CASE Goto(a, "release")
    BY <1>1, <1>2, <2>1, <2>3, <2>4, PlaceFacts
  <2>5. CASE Goto(a, "complete") /\ effects' = [effects EXCEPT ![KeyOf(a)] = @ + 1]
    <3>1. /\ running'[a].at = "complete" /\ running'[a].key = KeyOf(a)
          /\ \A b \in Attempts : b # a => running'[b] = running[b]
      BY <2>5, Moves, PlaceFacts DEF KeyOf
    <3>2. effects'[KeyOf(a)] = effects[KeyOf(a)] + 1
      BY <1>0, <2>5 DEF GuardTypeOK
    <3>3. effects'[KeyOf(a)] > 0
      BY <1>0, <2>2, <3>2
    <3>4. \A k \in Keys : rec'[k].status = "COMPLETED" => effects'[k] > 0
      BY <2>1, <2>3 DEF DoneInv
    <3>5. \A k \in Keys : k < KeyOf(a) => effects'[k] > 0
      BY <2>3 DEF DoneInv
    <3> QED
      BY <1>0, <1>2, <2>1, <2>3, <3>1, <3>3, <3>4, <3>5, DoneGrows
  <2> QED
    BY <1>8, <2>4, <2>5 DEF Work
<1>9. ASSUME NEW a \in Attempts, Release(a) PROVE DoneInv'
  <2>1. Goto(a, "failed") /\ UNCHANGED <<heard, effects>> /\ running[a].at = "release"
    BY <1>9 DEF Release, ghosts
  <2>2. \A k \in Keys : rec'[k].status = "COMPLETED" => rec[k].status = "COMPLETED"
    BY <1>9, RowFields DEF Release, GuardTypeOK
  <2> QED
    BY <1>1, <1>2, <2>1, <2>2, PlaceFacts
<1>10. ASSUME NEW a \in Attempts, Complete(a) PROVE DoneInv'
  <2>1. Returned(a, a) /\ UNCHANGED <<heard, effects>> /\ running[a].at = "complete"
    BY <1>10 DEF Complete, ghosts
  <2>2. effects[KeyOf(a)] > 0
    BY <2>1 DEF DoneInv
  <2>3. \A k \in Keys \ {KeyOf(a)} : rec'[k] = rec[k]
    BY <1>10 DEF Complete, GuardTypeOK
  <2> QED
    BY <1>2, <1>4, <2>1, <2>2, <2>3
<1>11. ASSUME NEW a \in Attempts, StatementFails(a) \/ Die(a) PROVE DoneInv'
  <2>1. PICK p \in {"failed", "dead"} : Goto(a, p)
    BY <1>11 DEF StatementFails, Die
  <2>2. UNCHANGED <<rec, heard, effects>> /\ running[a].at \in Live
    BY <1>11 DEF StatementFails, Die, Live
  <2>3. running[a].at # "done"
    BY <2>2 DEF Live, Statements
  <2>4. running[a].at # "new"
    BY <2>2 DEF Live, Statements
  <2> QED
    BY <1>1, <1>2, <2>1, <2>2, <2>3, <2>4, PlaceFacts
<1>12. ASSUME NEW a \in Attempts, Report(a) \/ Expires(a) PROVE DoneInv'
  <2>1. UNCHANGED <<rec, running, effects>>
    BY <1>12 DEF Report, Expires, ghosts
  <2>2. (heard'[a] = "success" => running'[a].at = "done") /\ heard'[a] # "nothing"
    BY <1>12 DEF Report, Expires, GuardTypeOK
  <2>3. \A b \in Attempts : b # a => heard'[b] = heard[b]
    BY <1>12 DEF Report, Expires, GuardTypeOK
  <2> QED
    BY <2>1, <2>2, <2>3 DEF DoneInv, KeyOf
<1>13. CASE Tick
  <2>1. UNCHANGED <<running, heard, effects>>
    BY <1>13 DEF Tick
  <2>2. \A k \in Keys : rec'[k].status = rec[k].status
    BY <1>13 DEF Tick, GuardTypeOK, Rec, NoRec, Older
  <2> QED
    BY <2>1, <2>2 DEF DoneInv, KeyOf
<1>14. CASE UNCHANGED guardVars
  BY <1>14 DEF guardVars, DoneInv, KeyOf
<1> QED
  BY <1>3, <1>5, <1>6, <1>7, <1>8, <1>9, <1>10, <1>11, <1>12, <1>13, <1>14 DEF GuardNext

--------------------------------------------------------------------------------
(* Theorems *)

LEMMA GuardSafeInit == GuardInit => GuardSafeInv
<1> SUFFICES ASSUME GuardInit PROVE GuardSafeInv
  OBVIOUS
<1>0. LastAttempt \in Nat /\ Lease \in Nat /\ Timeout \in Nat /\ 1 \in Keys /\ 1 <= LastKey
  BY GuardAssumption DEF Keys
<1>1. [at |-> "new", key |-> 1, id |-> 0] \in [at : Places, key : Keys, id : 0..LastAttempt]
  BY <1>0, PlaceFacts
<1>2. GuardTypeOK
  BY <1>0, <1>1 DEF GuardInit, GuardTypeOK, NoResult
<1>3. \A a \in Attempts : running[a].at = "new" /\ running[a].key = 1
  BY DEF GuardInit
<1>4. \A k \in Keys : rec[k].status = "none" /\ effects[k] = 0 /\ lost[k] = 0
  BY RowFields DEF GuardInit
<1>5. \A a \in Attempts, k \in Keys : got[a][k] = NoResult
  BY DEF GuardInit
<1>6. IdInv
  BY <1>3 DEF IdInv, Holding
<1>7. GuardInv
  BY <1>3, <1>4, <1>5 DEF GuardInv, KeyInv, Holds, Holding
<1>8. DoneInv
  <2>1. \A k \in Keys : ~(k < 1)
    BY DEF Keys
  <2> QED
    BY <1>3, <1>4, <2>1 DEF DoneInv, KeyOf, GuardInit
<1> QED
  BY <1>2, <1>6, <1>7, <1>8 DEF GuardSafeInv

LEMMA GuardSafeStep == GuardSafeInv /\ [GuardNext]_guardVars => GuardSafeInv'
<1> SUFFICES ASSUME GuardSafeInv, [GuardNext]_guardVars PROVE GuardSafeInv'
  OBVIOUS
<1>1. GuardTypeOK /\ IdInv /\ DoneInv /\ GuardInv
  BY DEF GuardSafeInv
<1>2. GuardTypeOK' /\ IdInv' /\ DoneInv'
  BY <1>1, GuardTypeStep, IdStep, DoneStep
<1>3. ASSUME NEW a \in Attempts, Start(a) PROVE GuardInv'
  <2>1. Goto(a, "insert") /\ UNCHANGED <<rec, got, ghosts>> /\ running[a].at = "new"
    BY <1>1, <1>3 DEF Start, DoneInv
  <2>2. running'[a].at = "insert" /\ \A b \in Attempts : b # a => running'[b] = running[b]
    BY <1>1, <2>1, Moves, PlaceFacts
  <2>3. KeyOf(a) \in Keys /\ running'[a].at \notin Holding
    BY <1>1, <2>2 DEF GuardTypeOK, KeyOf, Holding
  <2> QED
    BY <1>1, <2>1, <2>2, <2>3, Leaves
<1>4. ASSUME NEW a \in Attempts, Report(a) \/ Expires(a) PROVE GuardInv'
  BY <1>1, <1>4 DEF Report, Expires, ghosts, GuardInv, KeyInv, Holds, At, KeyOf
<1>5. ASSUME UNCHANGED guardVars PROVE GuardInv'
  <2>1. UNCHANGED <<rec, running, got, ghosts>>
    BY <1>5 DEF guardVars, ghosts
  <2> QED
    BY <1>1, <2>1 DEF ghosts, GuardInv, KeyInv, Holds, At, KeyOf
<1>6. ASSUME NEW a \in Attempts,
             \/ Insert(a) \/ Read(a) \/ TakeOver(a) \/ Work(a)
             \/ Release(a) \/ Complete(a) \/ StatementFails(a) \/ Die(a)
      PROVE  GuardInv'
  <2>1. CASE Insert(a)
    BY <2>1, InsertKeeps
  <2>2. CASE Read(a)
    BY <2>2, ReadKeeps
  <2>3. CASE TakeOver(a)
    BY <2>3, TakeOverKeeps
  <2>4. CASE Work(a)
    BY <2>4, WorkKeeps
  <2>5. CASE Release(a)
    BY <2>5, ReleaseKeeps
  <2>6. CASE Complete(a)
    BY <2>6, CompleteKeeps
  <2>7. CASE StatementFails(a) \/ Die(a)
    BY <2>7, FailKeeps
  <2> QED
    BY <1>6, <2>1, <2>2, <2>3, <2>4, <2>5, <2>6, <2>7
<1>7. ASSUME Tick PROVE GuardInv'
  BY <1>7, TickKeeps
<1>8. GuardInv'
  BY <1>3, <1>4, <1>5, <1>6, <1>7 DEF GuardNext
<1> QED
  BY <1>2, <1>8 DEF GuardSafeInv

LEMMA GuardSafeAlways == GuardSpec => []GuardSafeInv
BY GuardSafeInit, GuardSafeStep, PTL DEF GuardSpec

(* The rows, the attempts and the counters keep their types. *)
THEOREM GuardTypeCorrect == GuardSpec => []GuardTypeOK
<1>1. GuardSafeInv => GuardTypeOK
  BY DEF GuardSafeInv
<1> QED
  BY <1>1, GuardSafeAlways, PTL

(* The work of a key takes effect once, and once more for each effect that    *)
(* could not be recorded, while no attempt outlives its lease.                *)
THEOREM WorkIsDoneOnce == GuardSpec => []WorkedOnce
<1>1. GuardSafeInv => WorkedOnce
  BY DEF GuardSafeInv, GuardInv, KeyInv, WorkedOnce
<1> QED
  BY <1>1, GuardSafeAlways, PTL

(* Every attempt that returns a result returns the one that is recorded.      *)
THEOREM AnswersAgree == GuardSpec => []SameAnswer
<1>1. GuardSafeInv => SameAnswer
  BY DEF GuardSafeInv, GuardInv, KeyInv, SameAnswer
<1> QED
  BY <1>1, GuardSafeAlways, PTL

(* An activity that reports success has done the work of all its keys.        *)
THEOREM SuccessIsReal == GuardSpec => []SuccessMeansDone
<1>1. GuardSafeInv => SuccessMeansDone
  BY DEF GuardSafeInv, DoneInv, SuccessMeansDone
<1> QED
  BY <1>1, GuardSafeAlways, PTL

(* A recorded result is never forgotten. *)
THEOREM RecordsStay == GuardSpec => CompletedStays
<1>1. ASSUME GuardSafeInv, [GuardNext]_guardVars, NEW k \in Keys, rec[k].status = "COMPLETED"
      PROVE  rec'[k].status = "COMPLETED"
  <2>0. GuardTypeOK /\ rec[k] \in Rec
    BY <1>1, RowFields DEF GuardSafeInv, GuardTypeOK
  <2>1. ASSUME NEW a \in Attempts, Insert(a) PROVE rec'[k] = rec[k]
    BY <1>1, <2>0, <2>1, RowFields DEF Insert, GuardTypeOK
  <2>2. ASSUME NEW a \in Attempts, TakeOver(a) PROVE rec'[k] = rec[k]
    BY <1>1, <2>0, <2>2 DEF TakeOver, GuardTypeOK
  <2>3. ASSUME NEW a \in Attempts, Release(a) PROVE rec'[k] = rec[k]
    BY <1>1, <2>0, <2>3 DEF Release, GuardTypeOK
  <2>4. ASSUME NEW a \in Attempts, Complete(a) PROVE rec'[k].status = "COMPLETED"
    BY <1>1, <2>0, <2>4 DEF Complete, GuardTypeOK, Rec
  <2>5. CASE Tick
    BY <1>1, <2>0, <2>5 DEF Tick, Older
  <2>6. ASSUME NEW a \in Attempts, \/ Start(a) \/ Read(a) \/ Work(a) \/ StatementFails(a)
                                   \/ Die(a) \/ Report(a) \/ Expires(a)
        PROVE  rec'[k] = rec[k]
    BY <2>6 DEF Start, Read, Work, StatementFails, Die, Report, Expires
  <2> QED
    BY <1>1, <2>1, <2>2, <2>3, <2>4, <2>5, <2>6 DEF GuardNext, guardVars
<1>2. GuardSafeInv /\ [GuardNext]_guardVars
      => [\A k \in Keys : rec[k].status = "COMPLETED" => rec'[k].status = "COMPLETED"]_guardVars
  BY <1>1
<1> QED
  BY <1>2, GuardSafeAlways, PTL DEF GuardSpec, CompletedStays

--------------------------------------------------------------------------------
(* Approvals *)

USE ApprovalsAssumption

(* What a closed request reads. *)
ClosedRow == {"EXPIRED", "CANCELLED"}

(* What has not been reached yet is untouched; a request in progress aims at  *)
(* a row that was written.                                                    *)
PlaceInv ==
    /\ pending \/ step # "elsewhere" => visit > 0
    /\ \A k \in Visits : k > visit => req[k] = "ABSENT" /\ outcome[k] = "none" /\ reached[k] = {}
    /\ \A u \in Users : pc[u] # "idle" => aim[u] <= visit
    /\ stray = MaxLost => late = {}

(* What the first visit heard is what its row says. *)
HeardInv ==
    /\ \A s \in reached[1] : req[1] = s[2] /\ by[1] = s[1]
    /\ \A u \in approvers : <<u, "APPROVED">> \in reached[1]
    /\ \A u \in rejecters : <<u, "REJECTED">> \in reached[1]
    /\ reached[1] # {} => approvers \cup rejecters # {}

(* While a claim has not been signalled nothing was heard, and the row is the *)
(* claimant's unless nobody listens any more.                                 *)
ClaimInv ==
    \A u \in Users : pc[u] \in {"claimed", "failed"} =>
        /\ reached[1] = {}
        /\ \/ req[1] = choice[u] /\ by[1] = u
           \/ req[1] \in ClosedRow /\ (~pending \/ dag \in Ends)

OutcomeInv ==
    /\ outcome[1] \in Decisions => <<by[1], outcome[1]>> \in reached[1]
    /\ outcome[1] = "TIMEOUT" => ~pending /\ reached[1] = {} /\ overdue[1]

(* While the run is at the step its row is not closed, but for the timeout.   *)
StageInv ==
    /\ dag = "running" /\ step = "recording" =>
           pending /\ req[1] \in {"ABSENT", "PENDING"} \cup Decisions
    /\ dag = "running" /\ step = "waiting" => pending /\ req[1] \in {"PENDING"} \cup Decisions
    /\ dag = "running" /\ step = "resolved" /\ outcome[1] = "TIMEOUT" =>
           req[1] \in {"PENDING", "EXPIRED"} \cup Decisions
    /\ step = "elsewhere" /\ outcome[1] = "TIMEOUT" => req[1] = "EXPIRED"

FirstInv == HeardInv /\ ClaimInv /\ OutcomeInv /\ StageInv

DecisionSafeInv == ApprovalsTypeOK /\ PlaceInv /\ (Regular => FirstInv)

(* No closed row is opened: what one step does to the rows. *)
Kept == \A k \in Visits : req[k] \in ClosedRow => req'[k] = req[k]

--------------------------------------------------------------------------------
(* Types *)

LEMMA FirstVisit == 1 \in Visits /\ \A k \in Visits : k <= 1 => k = 1
BY DEF Visits

LEMMA TypeInit == ApprovalsInit => ApprovalsTypeOK
<1> SUFFICES ASSUME ApprovalsInit PROVE ApprovalsTypeOK
  OBVIOUS
<1>1. 0 \in 0 .. MaxVisits /\ MaxBreaks \in 0 .. MaxBreaks /\ MaxLost \in 0 .. MaxLost
  OBVIOUS
<1>2. visit \in 0 .. MaxVisits /\ breaks \in 0 .. MaxBreaks /\ stray \in 0 .. MaxLost
  BY <1>1 DEF ApprovalsInit
<1> QED
  BY <1>2, FirstVisit DEF ApprovalsInit, ApprovalsTypeOK, Decisions

LEMMA ClosedType ==
  ASSUME NEW k \in Visits
  PROVE  Closed(k) \in ClosedRow
BY DEF Closed, ClosedRow

LEMMA WorkflowTypes ==
  ASSUME ApprovalsTypeOK, RunSteps
  PROVE  ApprovalsTypeOK'
<1>1. \A k \in Visits : Closed(k) \in {"EXPIRED", "CANCELLED"}
  BY DEF Closed
<1>2. CASE Reach
  <2>1. visit' \in 0 .. MaxVisits
    BY <1>2 DEF ApprovalsTypeOK, Reach
  <2> QED
    BY <1>2, <2>1 DEF ApprovalsTypeOK, Reach, rowVars, userVars, limits
<1>3. ASSUME NEW again \in BOOLEAN, RecordWaiting(again) PROVE ApprovalsTypeOK'
  <2>1. breaks' \in 0 .. MaxBreaks
    BY <1>3 DEF ApprovalsTypeOK, RecordWaiting
  <2>2. exec' \in {"RUNNING", "WAITING_APPROVAL"} \cup Ends
    BY <1>3 DEF ApprovalsTypeOK, RecordWaiting, ExecAfter
  <2>3. req' \in [Visits -> Decisions \cup {"ABSENT", "PENDING", "EXPIRED", "CANCELLED"}]
    BY <1>3 DEF ApprovalsTypeOK, RecordWaiting
  <2> QED
    BY <1>3, <2>1, <2>2, <2>3 DEF ApprovalsTypeOK, RecordWaiting, userVars
<1>4. CASE RecordFails
  <2>1. breaks' \in 0 .. MaxBreaks
    BY <1>4 DEF ApprovalsTypeOK, RecordFails
  <2> QED
    BY <1>4, <2>1 DEF ApprovalsTypeOK, RecordFails, rowVars, userVars
<1>5. CASE Resolve
  <2>1. outcome' \in [Visits -> Decisions \cup {"none", "TIMEOUT", "FAILED"}]
    BY <1>5 DEF ApprovalsTypeOK, Resolve, Decisions
  <2> QED
    BY <1>5, <2>1 DEF ApprovalsTypeOK, Resolve, rowVars, userVars, limits
<1>6. ASSUME NEW again \in BOOLEAN, RecordResolved(again) PROVE ApprovalsTypeOK'
  <2>1. breaks' \in 0 .. MaxBreaks
    BY <1>6 DEF ApprovalsTypeOK, RecordResolved
  <2>2. exec' \in {"RUNNING", "WAITING_APPROVAL"} \cup Ends
    BY <1>6 DEF ApprovalsTypeOK, RecordResolved, ExecAfter
  <2>3. req' \in [Visits -> Decisions \cup {"ABSENT", "PENDING", "EXPIRED", "CANCELLED"}]
    BY <1>1, <1>6 DEF ApprovalsTypeOK, RecordResolved
  <2> QED
    BY <1>6, <2>1, <2>2, <2>3 DEF ApprovalsTypeOK, RecordResolved, userVars
<1>7. ASSUME NEW how \in Ends, EndRun(how) PROVE ApprovalsTypeOK'
  BY <1>1, <1>7 DEF ApprovalsTypeOK, EndRun, userVars, limits
<1>8. ASSUME NEW how \in Ends, FinishUnrecorded(how) PROVE ApprovalsTypeOK'
  <2>1. breaks' \in 0 .. MaxBreaks
    BY <1>8 DEF ApprovalsTypeOK, FinishUnrecorded
  <2> QED
    BY <1>8, <2>1 DEF ApprovalsTypeOK, FinishUnrecorded, rowVars, userVars
<1> QED
  BY <1>2, <1>3, <1>4, <1>5, <1>6, <1>7, <1>8 DEF RunSteps, Ends

LEMMA ReceiveTypes ==
  ASSUME ApprovalsTypeOK, NEW u \in Users, NEW c \in Decisions, Receive(u, c)
  PROVE  /\ approvers' \subseteq Users /\ rejecters' \subseteq Users
         /\ reached' \in [Visits -> SUBSET (Users \X Decisions)]
         /\ UNCHANGED <<dag, step, visit, pending, outcome>>
BY DEF ApprovalsTypeOK, Receive

LEMMA LeaveTypes ==
  ASSUME ApprovalsTypeOK, NEW u \in Users, Leave(u)
  PROVE  /\ pc' \in [Users -> {"idle", "loaded", "asked", "claimed", "signalled", "failed"}]
         /\ aim' \in [Users -> Visits] /\ choice' \in [Users -> Decisions]
         /\ pc'[u] = "idle"
         /\ \A v \in Users \ {u} : pc'[v] = pc[v] /\ aim'[v] = aim[v] /\ choice'[v] = choice[v]
BY FirstVisit DEF ApprovalsTypeOK, Leave, Decisions

LEMMA GoTypes ==
  ASSUME ApprovalsTypeOK, NEW u \in Users,
         NEW place \in {"idle", "loaded", "asked", "claimed", "signalled", "failed"}, Go(u, place)
  PROVE  /\ pc' \in [Users -> {"idle", "loaded", "asked", "claimed", "signalled", "failed"}]
         /\ aim' = aim /\ choice' = choice
         /\ pc'[u] = place
         /\ \A v \in Users \ {u} : pc'[v] = pc[v]
BY DEF ApprovalsTypeOK, Go

LEMMA RequestTypes ==
  ASSUME ApprovalsTypeOK, NEW u \in Users, Request(u) \/ RequestDies(u)
  PROVE  ApprovalsTypeOK'
<1>1. aim[u] \in Visits /\ choice[u] \in Decisions /\ Closed(aim[u]) \in ClosedRow
  BY ClosedType DEF ApprovalsTypeOK
<1>2. req' \in [Visits -> Decisions \cup {"ABSENT", "PENDING", "EXPIRED", "CANCELLED"}]
  BY <1>1 DEF ApprovalsTypeOK, Request, RequestDies, rowVars, AskRun, ClaimRow, SignalAccepted,
     SignalNotFound, SignalFails, Unclaim, ResumeRunIfNothingPending, ClosedRow
<1>3. by' \in [Visits -> Users \cup {Nobody}]
  BY <1>1 DEF ApprovalsTypeOK, Request, RequestDies, rowVars, AskRun, ClaimRow, SignalAccepted,
     SignalNotFound, SignalFails, Unclaim, ResumeRunIfNothingPending
<1>4. /\ pc' \in [Users -> {"idle", "loaded", "asked", "claimed", "signalled", "failed"}]
      /\ aim' \in [Users -> Visits] /\ choice' \in [Users -> Decisions]
  <2>1. \/ Leave(u)
        \/ \E place \in {"idle", "loaded", "asked", "claimed", "signalled", "failed"} : Go(u, place)
    BY DEF Request, RequestDies, AskRun, ClaimRow, SignalAccepted, SignalNotFound, SignalFails,
           Unclaim, ResumeRunIfNothingPending
  <2> QED
    BY <2>1, LeaveTypes, GoTypes DEF ApprovalsTypeOK
<1>5. /\ approvers' \subseteq Users /\ rejecters' \subseteq Users
      /\ reached' \in [Visits -> SUBSET (Users \X Decisions)]
      /\ UNCHANGED <<dag, step, visit, pending, outcome, overdue>>
  BY <1>1, ReceiveTypes DEF ApprovalsTypeOK, Request, RequestDies, rowVars, workflowVars, AskRun, ClaimRow,
     SignalAccepted, SignalNotFound, SignalFails, Unclaim, ResumeRunIfNothingPending
<1>6. exec' \in {exec, "RUNNING"}
  BY DEF Request, RequestDies, rowVars, AskRun, ClaimRow, SignalAccepted, SignalNotFound,
     SignalFails, Unclaim, ResumeRunIfNothingPending
<1>7. late' \subseteq Users \X Decisions
  BY <1>1 DEF ApprovalsTypeOK, Request, RequestDies, AskRun, ClaimRow, SignalAccepted, SignalNotFound,
     SignalFails, Unclaim, ResumeRunIfNothingPending
<1>8. breaks' \in 0 .. MaxBreaks /\ stray' \in 0 .. MaxLost
  <2>1. \/ UNCHANGED <<breaks, stray>>
        \/ breaks > 0 /\ breaks' = breaks - 1 /\ UNCHANGED stray
        \/ stray > 0 /\ stray' = stray - 1 /\ UNCHANGED breaks
    BY DEF limits, Request, RequestDies, AskRun, ClaimRow, SignalAccepted, SignalNotFound,
           SignalFails, Unclaim, ResumeRunIfNothingPending
  <2> QED
    BY <2>1 DEF ApprovalsTypeOK
<1> QED
  BY <1>2, <1>3, <1>4, <1>5, <1>6, <1>7, <1>8 DEF ApprovalsTypeOK

LEMMA DecisionTypeStep == ApprovalsTypeOK /\ [ApprovalsNext]_approvalsVars => ApprovalsTypeOK'
<1> SUFFICES ASSUME ApprovalsTypeOK, [ApprovalsNext]_approvalsVars PROVE ApprovalsTypeOK'
  OBVIOUS
<1>1. CASE RunSteps
  BY <1>1, WorkflowTypes
<1>2. CASE Overdue
  BY <1>2 DEF Overdue, ApprovalsTypeOK, workflowVars, userVars, limits
<1>3. ASSUME NEW u \in Users, NEW k \in Visits, NEW c \in Decisions, Load(u, k, c) PROVE ApprovalsTypeOK'
  BY <1>3 DEF Load, ApprovalsTypeOK, workflowVars, rowVars, limits
<1>4. ASSUME NEW u \in Users, Request(u) \/ RequestDies(u) PROVE ApprovalsTypeOK'
  BY <1>4, RequestTypes
<1>5. ASSUME NEW s \in late, SignalArrivesLate(s) PROVE ApprovalsTypeOK'
  <2>1. s[1] \in Users /\ s[2] \in Decisions /\ late' \subseteq Users \X Decisions
    BY <1>5 DEF ApprovalsTypeOK, SignalArrivesLate
  <2> QED
    BY <1>5, <2>1, ReceiveTypes DEF ApprovalsTypeOK, SignalArrivesLate, workflowVars, rowVars, userVars, limits
<1>6. CASE UNCHANGED approvalsVars
  BY <1>6 DEF approvalsVars, ApprovalsTypeOK, workflowVars, rowVars, userVars, limits
<1> QED
  BY <1>1, <1>2, <1>3, <1>4, <1>5, <1>6 DEF ApprovalsNext

--------------------------------------------------------------------------------
(* The steps of the workflow *)

(* Everything a decision leaves on the first visit's row. *)
LEMMA FirstRow ==
  ASSUME ApprovalsTypeOK
  PROVE  /\ req[1] \in Decisions \cup {"ABSENT", "PENDING", "EXPIRED", "CANCELLED"}
         /\ Closed(1) \in ClosedRow /\ (overdue[1] => Closed(1) = "EXPIRED")
         /\ \A s \in reached[1] : s[1] \in Users /\ s[2] \in Decisions /\ s = <<s[1], s[2]>>
BY FirstVisit DEF ApprovalsTypeOK, Closed, ClosedRow

LEMMA ReachKeeps ==
  ASSUME DecisionSafeInv, Reach
  PROVE  PlaceInv' /\ (Regular' => FirstInv')
<1>1. ApprovalsTypeOK /\ PlaceInv /\ visit \in Nat /\ visit' = visit + 1
      /\ UNCHANGED <<req, outcome, reached, pc, aim, choice, by, overdue, approvers, rejecters,
                     late, stray, dag>>
  BY DEF DecisionSafeInv, ApprovalsTypeOK, Reach, rowVars, userVars, limits
<1>2. visit' > 0 /\ (\A k \in Visits : k > visit' => k > visit)
      /\ \A k \in Visits : k <= visit => k <= visit'
  BY <1>1 DEF Visits
<1>3. PlaceInv'
  BY <1>1, <1>2 DEF PlaceInv, ApprovalsTypeOK
<1>4. ASSUME Regular' PROVE FirstInv'
  <2>1. visit = 0 /\ Regular
    BY <1>1, <1>4 DEF Regular
  <2>2. req[1] = "ABSENT" /\ outcome[1] = "none" /\ reached[1] = {} /\ FirstInv
    BY <1>1, <2>1, FirstVisit DEF PlaceInv, DecisionSafeInv
  <2>3. HeardInv'
    BY <1>1, <2>2 DEF HeardInv, FirstInv
  <2>4. ClaimInv'
    BY <1>1, <2>2, FirstRow DEF ClaimInv, FirstInv, ClosedRow, ApprovalsTypeOK, Decisions
  <2>5. OutcomeInv'
    BY <1>1, <2>2 DEF OutcomeInv, Decisions
  <2>6. StageInv'
    BY <1>1, <2>2 DEF StageInv, Reach
  <2> QED
    BY <2>3, <2>4, <2>5, <2>6 DEF FirstInv
<1> QED
  BY <1>3, <1>4

LEMMA WaitingKeeps ==
  ASSUME DecisionSafeInv, NEW again \in BOOLEAN, RecordWaiting(again)
  PROVE  PlaceInv' /\ (Regular' => FirstInv')
<1>1. /\ ApprovalsTypeOK /\ PlaceInv /\ dag = "running" /\ step = "recording"
      /\ step' \in {"recording", "waiting"}
      /\ UNCHANGED <<dag, visit, pending, approvers, rejecters, outcome, reached, by, overdue,
                     pc, aim, choice, late, stray>>
  BY DEF DecisionSafeInv, RecordWaiting, userVars
<1>2. \A k \in Visits : req'[k] = IF k = visit
                                  THEN IF req[k] = "ABSENT" THEN "PENDING" ELSE req[k]
                                  ELSE IF req[k] = "PENDING" THEN "CANCELLED" ELSE req[k]
  BY DEF RecordWaiting
<1>3. visit \in Nat /\ visit > 0
  BY <1>1 DEF PlaceInv, ApprovalsTypeOK
<1>4. PlaceInv'
  <2>1. \A k \in Visits : k > visit => k # visit
    BY <1>3 DEF Visits
  <2>2. \A k \in Visits : k > visit => req'[k] = "ABSENT"
    BY <1>1, <1>2, <2>1 DEF PlaceInv
  <2> QED
    BY <1>1, <1>3, <2>2 DEF PlaceInv
<1>5. ASSUME Regular' PROVE FirstInv'
  <2>1. visit = 1 /\ Regular /\ FirstInv
    BY <1>1, <1>3, <1>5 DEF Regular, DecisionSafeInv
  <2>2. req'[1] = IF req[1] = "ABSENT" THEN "PENDING" ELSE req[1]
    BY <1>2, <2>1, FirstVisit
  <2>3. HeardInv'
    BY <1>1, <2>1, <2>2, FirstRow DEF HeardInv, FirstInv, Decisions
  <2>4. ClaimInv'
    BY <1>1, <2>1, <2>2, FirstRow DEF ClaimInv, FirstInv, ClosedRow, ApprovalsTypeOK, Decisions
  <2>5. OutcomeInv'
    BY <1>1, <2>1, <2>2 DEF OutcomeInv, FirstInv
  <2>6. StageInv'
    BY <1>1, <2>1, <2>2, FirstRow DEF StageInv, FirstInv
  <2> QED
    BY <2>3, <2>4, <2>5, <2>6 DEF FirstInv
<1> QED
  BY <1>4, <1>5

LEMMA RecordFailsKeeps ==
  ASSUME DecisionSafeInv, RecordFails
  PROVE  PlaceInv' /\ (Regular' => FirstInv')
<1>1. /\ ApprovalsTypeOK /\ PlaceInv /\ step # "elsewhere" /\ step' = "resolved"
      /\ UNCHANGED <<dag, visit, pending, approvers, rejecters, req, reached, by, overdue,
                     pc, aim, choice, late, stray>>
  BY DEF DecisionSafeInv, RecordFails, userVars, rowVars
<1>2. visit \in Nat /\ visit > 0 /\ outcome' = [outcome EXCEPT ![visit] = "FAILED"]
  BY <1>1 DEF PlaceInv, ApprovalsTypeOK, RecordFails
<1>3. PlaceInv'
  <2>1. \A k \in Visits : k > visit => k # visit
    BY <1>2 DEF Visits
  <2>2. \A k \in Visits : k > visit => outcome'[k] = "none"
    BY <1>1, <1>2, <2>1 DEF PlaceInv, ApprovalsTypeOK
  <2> QED
    BY <1>1, <1>2, <2>2 DEF PlaceInv
<1>4. ASSUME Regular' PROVE FirstInv'
  <2>1. visit = 1 /\ Regular /\ FirstInv
    BY <1>1, <1>2, <1>4 DEF Regular, DecisionSafeInv
  <2>2. outcome'[1] = "FAILED"
    BY <1>1, <1>2, <2>1, FirstVisit DEF ApprovalsTypeOK
  <2>3. HeardInv' /\ ClaimInv'
    BY <1>1, <2>1 DEF HeardInv, ClaimInv, FirstInv
  <2>4. OutcomeInv' /\ StageInv'
    BY <1>1, <2>2 DEF OutcomeInv, StageInv, Decisions
  <2> QED
    BY <2>3, <2>4 DEF FirstInv
<1> QED
  BY <1>3, <1>4

LEMMA OverdueKeeps ==
  ASSUME DecisionSafeInv, Overdue
  PROVE  PlaceInv' /\ (Regular' => FirstInv')
<1>1. /\ ApprovalsTypeOK /\ PlaceInv
      /\ UNCHANGED <<dag, step, visit, pending, approvers, rejecters, outcome, req, reached, by,
                     pc, aim, choice, late, stray>>
  BY DEF DecisionSafeInv, Overdue, workflowVars, userVars, limits
<1>2. \A k \in Visits : overdue[k] => overdue'[k]
  BY <1>1 DEF Overdue, ApprovalsTypeOK
<1>3. PlaceInv'
  BY <1>1 DEF PlaceInv
<1>4. ASSUME Regular' PROVE FirstInv'
  <2>1. FirstInv
    BY <1>1, <1>4 DEF Regular, DecisionSafeInv
  <2> QED
    BY <1>1, <1>2, <2>1, FirstVisit DEF FirstInv, HeardInv, ClaimInv, OutcomeInv, StageInv
<1> QED
  BY <1>3, <1>4

LEMMA ResolveKeeps ==
  ASSUME DecisionSafeInv, Resolve
  PROVE  PlaceInv' /\ (Regular' => FirstInv')
<1>1. /\ ApprovalsTypeOK /\ PlaceInv /\ dag = "running" /\ step = "waiting"
      /\ step' = "resolved" /\ ~pending'
      /\ UNCHANGED <<dag, visit, approvers, rejecters, req, reached, by, overdue,
                     pc, aim, choice, late, stray>>
  BY DEF DecisionSafeInv, Resolve, userVars, rowVars, limits
<1>2. visit \in Nat /\ visit > 0 /\ visit \in Visits
  BY <1>1 DEF PlaceInv, ApprovalsTypeOK, Visits
<1>3. \A k \in Visits \ {visit} : outcome'[k] = outcome[k]
  BY <1>1 DEF Resolve, ApprovalsTypeOK
<1>4. PlaceInv'
  <2>1. \A k \in Visits : k > visit => k # visit
    BY <1>2 DEF Visits
  <2> QED
    BY <1>1, <1>2, <1>3, <2>1 DEF PlaceInv
<1>5. ASSUME Regular' PROVE FirstInv'
  <2>1. visit = 1 /\ Regular /\ FirstInv
    BY <1>1, <1>2, <1>5 DEF Regular, DecisionSafeInv
  <2>2. \/ approvers # {} /\ outcome'[1] = "APPROVED"
        \/ rejecters # {} /\ outcome'[1] = "REJECTED"
        \/ approvers \cup rejecters = {} /\ overdue[1] /\ outcome'[1] = "TIMEOUT"
    BY <1>1, <2>1, FirstVisit DEF Resolve, ApprovalsTypeOK
  <2>3. HeardInv' /\ ClaimInv'
    BY <1>1, <2>1 DEF HeardInv, ClaimInv, FirstInv
  <2>4. OutcomeInv'
    <3>1. CASE approvers # {} /\ outcome'[1] = "APPROVED"
      <4>1. PICK u \in approvers : <<u, "APPROVED">> \in reached[1]
        BY <2>1, <3>1 DEF FirstInv, HeardInv
      <4>2. by[1] = u
        BY <2>1, <4>1 DEF FirstInv, HeardInv
      <4> QED
        BY <1>1, <3>1, <4>1, <4>2 DEF OutcomeInv
    <3>2. CASE rejecters # {} /\ outcome'[1] = "REJECTED"
      <4>1. PICK u \in rejecters : <<u, "REJECTED">> \in reached[1]
        BY <2>1, <3>2 DEF FirstInv, HeardInv
      <4>2. by[1] = u
        BY <2>1, <4>1 DEF FirstInv, HeardInv
      <4> QED
        BY <1>1, <3>2, <4>1, <4>2 DEF OutcomeInv
    <3>3. CASE approvers \cup rejecters = {} /\ overdue[1] /\ outcome'[1] = "TIMEOUT"
      BY <1>1, <2>1, <3>3 DEF OutcomeInv, FirstInv, HeardInv, Decisions
    <3> QED
      BY <2>2, <3>1, <3>2, <3>3
  <2>5. StageInv'
    BY <1>1, <2>1 DEF StageInv, FirstInv
  <2> QED
    BY <2>3, <2>4, <2>5 DEF FirstInv
<1> QED
  BY <1>4, <1>5

(* A step that may close the first visit's row once nobody listens to it.     *)
LEMMA ResolvedKeeps ==
  ASSUME DecisionSafeInv, NEW again \in BOOLEAN, RecordResolved(again)
  PROVE  PlaceInv' /\ (Regular' => FirstInv')
<1>1. /\ ApprovalsTypeOK /\ PlaceInv /\ dag = "running" /\ step = "resolved"
      /\ step' \in {"resolved", "elsewhere"}
      /\ UNCHANGED <<dag, visit, pending, approvers, rejecters, outcome, reached, by, overdue,
                     pc, aim, choice, late, stray>>
  BY DEF DecisionSafeInv, RecordResolved, userVars
<1>2. \A k \in Visits :
         req'[k] = IF k = visit /\ outcome[k] = "TIMEOUT" /\ req[k] \in Decisions \cup {"PENDING"}
                   THEN "EXPIRED" ELSE IF req[k] = "PENDING" THEN Closed(k) ELSE req[k]
  BY DEF RecordResolved
<1>3. visit \in Nat /\ visit > 0
  BY <1>1 DEF PlaceInv, ApprovalsTypeOK
<1>4. PlaceInv'
  <2>1. \A k \in Visits : k > visit => k # visit
    BY <1>3 DEF Visits
  <2>2. \A k \in Visits : k > visit => req'[k] = "ABSENT"
    BY <1>1, <1>2, <2>1 DEF PlaceInv
  <2> QED
    BY <1>1, <1>3, <2>2 DEF PlaceInv
<1>5. ASSUME Regular' PROVE FirstInv'
  <2>1. visit = 1 /\ Regular /\ FirstInv
    BY <1>1, <1>3, <1>5 DEF Regular, DecisionSafeInv
  <2>2. req'[1] = IF outcome[1] = "TIMEOUT" /\ req[1] \in Decisions \cup {"PENDING"}
                  THEN "EXPIRED" ELSE IF req[1] = "PENDING" THEN Closed(1) ELSE req[1]
    BY <1>2, <2>1, FirstVisit
  <2>3. HeardInv'
    BY <1>1, <2>1, <2>2, FirstRow DEF HeardInv, OutcomeInv, FirstInv, Decisions
  <2>4. ClaimInv'
    BY <1>1, <2>1, <2>2, FirstRow DEF ClaimInv, OutcomeInv, FirstInv, ClosedRow, ApprovalsTypeOK, Decisions
  <2>5. OutcomeInv'
    BY <1>1, <2>1, <2>2 DEF OutcomeInv, FirstInv
  <2>6. StageInv'
    BY <1>1, <2>1, <2>2, FirstRow DEF StageInv, FirstInv
  <2> QED
    BY <2>3, <2>4, <2>5, <2>6 DEF FirstInv
<1> QED
  BY <1>4, <1>5

(* The end of the run.  No stage of the run is left to speak of.              *)
LEMMA EndKeeps ==
  ASSUME DecisionSafeInv, NEW how \in Ends, EndRun(how) \/ FinishUnrecorded(how)
  PROVE  PlaceInv' /\ (Regular' => FirstInv')
<1>1. /\ ApprovalsTypeOK /\ PlaceInv /\ dag' \in Ends
      /\ UNCHANGED <<step, visit, pending, approvers, rejecters, outcome, reached, by, overdue,
                     pc, aim, choice, late, stray>>
  BY DEF DecisionSafeInv, EndRun, FinishUnrecorded, userVars, rowVars, limits
<1>2. \A k \in Visits : \/ req'[k] = req[k]
                        \/ req[k] = "PENDING" /\ req'[k] \in ClosedRow
  BY ClosedType DEF EndRun, FinishUnrecorded, rowVars
<1>3. PlaceInv'
  BY <1>1, <1>2 DEF PlaceInv
<1>4. ASSUME Regular' PROVE FirstInv'
  <2>1. Regular /\ FirstInv
    BY <1>1, <1>4 DEF Regular, DecisionSafeInv
  <2>2. \/ req'[1] = req[1]
        \/ req[1] = "PENDING" /\ req'[1] \in ClosedRow
    BY <1>2, FirstVisit
  <2>3. HeardInv'
    BY <1>1, <2>1, <2>2, FirstRow DEF HeardInv, FirstInv, Decisions
  <2>4. ClaimInv'
    BY <1>1, <2>1, <2>2, FirstRow DEF ClaimInv, FirstInv, ClosedRow, ApprovalsTypeOK, Decisions
  <2>5. OutcomeInv'
    BY <1>1, <2>1 DEF OutcomeInv, FirstInv
  <2>6. StageInv'
    BY <1>1, <2>1, <2>2 DEF StageInv, FirstInv, Ends
  <2> QED
    BY <2>3, <2>4, <2>5, <2>6 DEF FirstInv
<1> QED
  BY <1>3, <1>4

--------------------------------------------------------------------------------
(* The steps of the requests *)

(* A row that changes, and is not the first visit's, is none that is absent.  *)
LEMMA AimIsFirst ==
  ASSUME DecisionSafeInv, Regular, NEW u \in Users, pc[u] # "idle"
  PROVE  aim[u] = 1 /\ visit = 1 /\ FirstInv
<1>1. aim[u] \in Visits /\ aim[u] <= visit /\ visit <= 1 /\ visit \in Nat
  BY DEF DecisionSafeInv, ApprovalsTypeOK, PlaceInv, Regular
<1>2. aim[u] = 1
  BY <1>1, FirstVisit DEF Visits
<1> QED
  BY <1>1, <1>2 DEF DecisionSafeInv

LEMMA LoadKeeps ==
  ASSUME DecisionSafeInv, NEW u \in Users, NEW k \in Visits, NEW c \in Decisions, Load(u, k, c)
  PROVE  PlaceInv' /\ (Regular' => FirstInv')
<1>1. /\ ApprovalsTypeOK /\ PlaceInv /\ req[k] = "PENDING"
      /\ pc'[u] = "loaded" /\ aim'[u] = k
      /\ \A v \in Users \ {u} : pc'[v] = pc[v] /\ aim'[v] = aim[v] /\ choice'[v] = choice[v]
      /\ UNCHANGED <<dag, step, visit, pending, approvers, rejecters, outcome, req, reached, by,
                     overdue, late, stray>>
  BY DEF DecisionSafeInv, Load, ApprovalsTypeOK, workflowVars, rowVars, limits
<1>2. k <= visit
  BY <1>1 DEF PlaceInv, ApprovalsTypeOK, Visits
<1>3. PlaceInv'
  BY <1>1, <1>2 DEF PlaceInv
<1>4. ASSUME Regular' PROVE FirstInv'
  <2>1. FirstInv
    BY <1>1, <1>4 DEF Regular, DecisionSafeInv
  <2>2. HeardInv' /\ OutcomeInv' /\ StageInv'
    BY <1>1, <2>1 DEF FirstInv, HeardInv, OutcomeInv, StageInv
  <2>3. ClaimInv'
    BY <1>1, <2>1 DEF FirstInv, ClaimInv
  <2> QED
    BY <2>2, <2>3 DEF FirstInv
<1> QED
  BY <1>3, <1>4

(* Nobody aims at a row that was not written, and an idle request at none.    *)
LEMMA PlaceKept ==
  ASSUME DecisionSafeInv, NEW u \in Users,
         \A v \in Users \ {u} : pc'[v] = pc[v] /\ aim'[v] = aim[v],
         pc'[u] = "idle" \/ aim'[u] = aim[u], pc[u] # "idle",
         \A k \in Visits : req'[k] = req[k] \/ k = aim[u],
         \A k \in Visits : reached'[k] = reached[k] \/ k = visit,
         UNCHANGED <<pending, step, visit, outcome>>,
         stray' = MaxLost => stray = MaxLost /\ late' \subseteq late
  PROVE  PlaceInv'
<1>1. PlaceInv /\ visit \in Nat /\ \A k \in Visits : k \in Nat
  BY DEF DecisionSafeInv, ApprovalsTypeOK, Visits
<1>2. \A k \in Visits : k > visit => req'[k] = "ABSENT"
  <2>1. aim[u] <= visit /\ aim[u] \in Visits
    BY <1>1 DEF PlaceInv, DecisionSafeInv, ApprovalsTypeOK
  <2>2. \A k \in Visits : k <= visit => ~(k > visit)
    BY <1>1
  <2> QED
    BY <1>1, <2>1, <2>2 DEF PlaceInv
<1>3. \A k \in Visits : k > visit => reached'[k] = {}
  <2>1. ~(visit > visit)
    BY <1>1
  <2> QED
    BY <1>1, <2>1 DEF PlaceInv
<1>4. \A v \in Users : pc'[v] # "idle" => aim'[v] <= visit
  BY <1>1 DEF PlaceInv
<1>5. stray' = MaxLost => late' = {}
  BY <1>1 DEF PlaceInv
<1> QED
  BY <1>1, <1>2, <1>3, <1>4, <1>5 DEF PlaceInv

LEMMA AskKeeps ==
  ASSUME DecisionSafeInv, NEW u \in Users, AskRun(u)
  PROVE  PlaceInv' /\ (Regular' => FirstInv')
<1>1. /\ ApprovalsTypeOK /\ pc[u] = "loaded"
      /\ UNCHANGED <<dag, step, visit, pending, approvers, rejecters, outcome, reached, by,
                     overdue, late, stray>>
  BY DEF DecisionSafeInv, AskRun, workflowVars, limits
<1>2. /\ \A v \in Users \ {u} : pc'[v] = pc[v] /\ aim'[v] = aim[v] /\ choice'[v] = choice[v]
      /\ \/ pc'[u] = "idle"
         \/ pc'[u] = "asked" /\ aim'[u] = aim[u]
  BY <1>1, LeaveTypes, GoTypes DEF AskRun
<1>3. aim[u] \in Visits /\ \A k \in Visits : req'[k] = req[k] \/ k = aim[u]
  BY <1>1 DEF AskRun, ApprovalsTypeOK
<1>4. PlaceInv'
  BY <1>1, <1>2, <1>3, PlaceKept
<1>5. ASSUME Regular' PROVE FirstInv'
  <2>1. aim[u] = 1 /\ FirstInv
    BY <1>1, <1>5, AimIsFirst DEF Regular
  <2>2. \/ req'[1] = req[1]
        \/ req[1] = "PENDING" /\ req'[1] = Closed(1) /\ (~pending \/ dag \in Ends)
    BY <1>1, <2>1, FirstVisit DEF AskRun, ApprovalsTypeOK
  <2>3. HeardInv'
    BY <1>1, <2>1, <2>2, FirstRow DEF HeardInv, FirstInv, Decisions
  <2>4. ClaimInv'
    BY <1>1, <1>2, <2>1, <2>2, FirstRow DEF ClaimInv, FirstInv, ClosedRow, ApprovalsTypeOK, Decisions
  <2>5. OutcomeInv'
    BY <1>1, <2>1 DEF OutcomeInv, FirstInv
  <2>6. StageInv'
    BY <1>1, <2>1, <2>2, FirstRow DEF StageInv, OutcomeInv, FirstInv, Ends, Decisions
  <2> QED
    BY <2>3, <2>4, <2>5, <2>6 DEF FirstInv
<1> QED
  BY <1>4, <1>5

LEMMA ClaimRowKeeps ==
  ASSUME DecisionSafeInv, NEW u \in Users, ClaimRow(u)
  PROVE  PlaceInv' /\ (Regular' => FirstInv')
<1>1. /\ ApprovalsTypeOK /\ pc[u] = "asked" /\ choice[u] \in Decisions
      /\ UNCHANGED <<dag, step, visit, pending, approvers, rejecters, outcome, reached,
                     overdue, late, stray>>
  BY DEF DecisionSafeInv, ClaimRow, ApprovalsTypeOK, workflowVars, limits
<1>2. /\ \A v \in Users \ {u} : pc'[v] = pc[v] /\ aim'[v] = aim[v] /\ choice'[v] = choice[v]
      /\ \/ pc'[u] = "idle" /\ req[aim[u]] # "PENDING" /\ UNCHANGED <<req, by>>
         \/ /\ pc'[u] = "claimed" /\ aim'[u] = aim[u] /\ choice'[u] = choice[u]
            /\ req[aim[u]] = "PENDING"
            /\ req' = [req EXCEPT ![aim[u]] = choice[u]] /\ by' = [by EXCEPT ![aim[u]] = u]
  BY <1>1, LeaveTypes, GoTypes DEF ClaimRow
<1>3. aim[u] \in Visits /\ \A k \in Visits : req'[k] = req[k] \/ k = aim[u]
  BY <1>1, <1>2 DEF ApprovalsTypeOK
<1>4. PlaceInv'
  BY <1>1, <1>2, <1>3, PlaceKept
<1>5. ASSUME Regular' PROVE FirstInv'
  <2>1. aim[u] = 1 /\ FirstInv
    BY <1>1, <1>5, AimIsFirst DEF Regular
  <2>2. CASE UNCHANGED <<req, by>> /\ pc'[u] = "idle"
    <3>1. HeardInv' /\ OutcomeInv' /\ StageInv'
      BY <1>1, <2>1, <2>2 DEF FirstInv, HeardInv, OutcomeInv, StageInv
    <3>2. ClaimInv'
      BY <1>1, <1>2, <2>1, <2>2 DEF FirstInv, ClaimInv
    <3> QED
      BY <3>1, <3>2 DEF FirstInv
  <2>3. CASE req[1] = "PENDING" /\ req'[1] = choice[u] /\ by'[1] = u /\ choice'[u] = choice[u]
    <3>1. reached[1] = {} /\ \A v \in Users : pc[v] \notin {"claimed", "failed"}
      BY <1>1, <2>1, <2>3, FirstRow DEF FirstInv, HeardInv, ClaimInv, ApprovalsTypeOK, Decisions, ClosedRow
    <3>2. HeardInv'
      BY <1>1, <2>1, <3>1 DEF HeardInv, FirstInv
    <3>3. ClaimInv'
      BY <1>1, <1>2, <2>3, <3>1 DEF ClaimInv
    <3>4. OutcomeInv' /\ StageInv'
      BY <1>1, <2>1, <2>3, <3>1 DEF OutcomeInv, StageInv, FirstInv, Decisions
    <3> QED
      BY <3>2, <3>3, <3>4 DEF FirstInv
  <2> QED
    BY <1>1, <1>2, <2>1, <2>2, <2>3, FirstVisit DEF ApprovalsTypeOK
<1> QED
  BY <1>4, <1>5

LEMMA AcceptedKeeps ==
  ASSUME DecisionSafeInv, NEW u \in Users, SignalAccepted(u)
  PROVE  PlaceInv' /\ (Regular' => FirstInv')
<1> DEFINE c == choice[u]
<1>1. /\ ApprovalsTypeOK /\ pc[u] = "claimed" /\ dag = "running" /\ c \in Decisions
      /\ UNCHANGED <<dag, step, visit, pending, outcome, req, by, overdue, late, stray, aim, choice>>
      /\ pc'[u] = "signalled" /\ \A v \in Users \ {u} : pc'[v] = pc[v]
  BY GoTypes DEF DecisionSafeInv, SignalAccepted, ApprovalsTypeOK, Receive, rowVars, limits
<1>2. \/ UNCHANGED <<approvers, rejecters, reached>>
      \/ /\ pending
         /\ approvers' = IF c = "APPROVED" THEN approvers \cup {u} ELSE approvers
         /\ rejecters' = IF c = "REJECTED" THEN rejecters \cup {u} ELSE rejecters
         /\ reached' = [reached EXCEPT ![visit] = reached[visit] \cup {<<u, c>>}]
  BY DEF SignalAccepted, Receive
<1>3. \A k \in Visits : reached'[k] = reached[k] \/ k = visit
  BY <1>1, <1>2 DEF ApprovalsTypeOK
<1>4. PlaceInv'
  BY <1>1, <1>3, PlaceKept
<1>5. ASSUME Regular' PROVE FirstInv'
  <2>1. aim[u] = 1 /\ visit = 1 /\ FirstInv
    BY <1>1, <1>5, AimIsFirst DEF Regular
  <2>2. CASE UNCHANGED <<approvers, rejecters, reached>>
    <3>1. HeardInv' /\ OutcomeInv' /\ StageInv'
      BY <1>1, <2>1, <2>2 DEF FirstInv, HeardInv, OutcomeInv, StageInv
    <3>2. ClaimInv'
      BY <1>1, <2>1, <2>2 DEF FirstInv, ClaimInv
    <3> QED
      BY <3>1, <3>2 DEF FirstInv
  <2>3. CASE /\ pending
             /\ approvers' = IF c = "APPROVED" THEN approvers \cup {u} ELSE approvers
             /\ rejecters' = IF c = "REJECTED" THEN rejecters \cup {u} ELSE rejecters
             /\ reached'[1] = reached[1] \cup {<<u, c>>}
    <3>1. reached[1] = {} /\ req[1] = c /\ by[1] = u /\ req[1] \notin ClosedRow
      BY <1>1, <2>1, <2>3 DEF FirstInv, ClaimInv, Ends, Decisions, ClosedRow
    <3>2. approvers = {} /\ rejecters = {} /\ reached'[1] = {<<u, c>>}
      BY <2>1, <2>3, <3>1 DEF FirstInv, HeardInv
    <3>3. HeardInv'
      <4>1. \A s \in reached'[1] : req'[1] = s[2] /\ by'[1] = s[1]
        BY <1>1, <3>1, <3>2
      <4>2. \A v \in approvers' : v = u /\ c = "APPROVED"
        BY <2>3, <3>2
      <4>3. \A v \in rejecters' : v = u /\ c = "REJECTED"
        BY <2>3, <3>2
      <4>4. approvers' \cup rejecters' # {}
        BY <1>1, <2>3 DEF Decisions
      <4> QED
        BY <3>2, <4>1, <4>2, <4>3, <4>4 DEF HeardInv
    <3>4. \A v \in Users \ {u} : pc[v] \notin {"claimed", "failed"}
      BY <1>1, <2>1, <2>3, <3>1 DEF FirstInv, ClaimInv, Ends
    <3>5. ClaimInv'
      BY <1>1, <3>4 DEF ClaimInv
    <3>6. OutcomeInv'
      BY <1>1, <2>1, <2>3, <3>1 DEF OutcomeInv, FirstInv
    <3>7. StageInv'
      BY <1>1, <2>1 DEF StageInv, FirstInv
    <3> QED
      BY <3>3, <3>5, <3>6, <3>7 DEF FirstInv
  <2> QED
    BY <1>1, <1>2, <2>1, <2>2, <2>3, FirstVisit DEF ApprovalsTypeOK
<1> QED
  BY <1>4, <1>5

LEMMA NotFoundKeeps ==
  ASSUME DecisionSafeInv, NEW u \in Users, SignalNotFound(u)
  PROVE  PlaceInv' /\ (Regular' => FirstInv')
<1>1. /\ ApprovalsTypeOK /\ pc[u] = "claimed" /\ dag \in Ends
      /\ UNCHANGED <<dag, step, visit, pending, approvers, rejecters, outcome, reached, by,
                     overdue, late, stray>>
  BY DEF DecisionSafeInv, SignalNotFound, workflowVars, limits
<1>2. /\ \A v \in Users \ {u} : pc'[v] = pc[v] /\ aim'[v] = aim[v] /\ choice'[v] = choice[v]
      /\ pc'[u] = "idle"
  BY <1>1, LeaveTypes DEF SignalNotFound
<1>3. aim[u] \in Visits /\ \A k \in Visits : req'[k] = req[k] \/ k = aim[u]
  BY <1>1 DEF SignalNotFound, ApprovalsTypeOK
<1>4. PlaceInv'
  BY <1>1, <1>2, <1>3, PlaceKept
<1>5. ASSUME Regular' PROVE FirstInv'
  <2>1. aim[u] = 1 /\ FirstInv
    BY <1>1, <1>5, AimIsFirst DEF Regular
  <2>2. reached[1] = {}
    BY <1>1, <2>1 DEF FirstInv, ClaimInv
  <2>3. \/ req'[1] = req[1]
        \/ req[1] \in Decisions /\ req'[1] = Closed(1)
    BY <1>1, <2>1, FirstVisit DEF SignalNotFound, IsClaimOf, ApprovalsTypeOK
  <2>4. HeardInv' /\ OutcomeInv'
    BY <1>1, <2>1, <2>2 DEF HeardInv, OutcomeInv, FirstInv
  <2>5. ClaimInv'
    BY <1>1, <1>2, <2>1, <2>3, FirstRow DEF ClaimInv, FirstInv
  <2>6. StageInv'
    BY <1>1, <2>1, <2>3, FirstRow DEF StageInv, FirstInv, Ends, Decisions
  <2> QED
    BY <2>4, <2>5, <2>6 DEF FirstInv
<1> QED
  BY <1>4, <1>5

LEMMA FailsKeeps ==
  ASSUME DecisionSafeInv, NEW u \in Users, SignalFails(u)
  PROVE  PlaceInv' /\ (Regular' => FirstInv')
<1>1. /\ ApprovalsTypeOK /\ pc[u] = "claimed"
      /\ UNCHANGED <<dag, step, visit, pending, approvers, rejecters, outcome, reached, req, by,
                     overdue, aim, choice>>
      /\ pc'[u] = "failed" /\ \A v \in Users \ {u} : pc'[v] = pc[v]
  BY GoTypes DEF DecisionSafeInv, SignalFails, workflowVars, rowVars
<1>2. stray' = MaxLost => stray = MaxLost /\ late' = late
  BY <1>1 DEF SignalFails, ApprovalsTypeOK
<1>3. PlaceInv'
  BY <1>1, <1>2, PlaceKept
<1>4. ASSUME Regular' PROVE FirstInv'
  <2>1. FirstInv
    BY <1>1, <1>2, <1>4 DEF Regular, DecisionSafeInv
  <2>2. HeardInv' /\ OutcomeInv' /\ StageInv'
    BY <1>1, <2>1 DEF FirstInv, HeardInv, OutcomeInv, StageInv
  <2>3. ClaimInv'
    BY <1>1, <2>1 DEF FirstInv, ClaimInv
  <2> QED
    BY <2>2, <2>3 DEF FirstInv
<1> QED
  BY <1>3, <1>4

LEMMA UnclaimKeeps ==
  ASSUME DecisionSafeInv, NEW u \in Users, Unclaim(u)
  PROVE  PlaceInv' /\ (Regular' => FirstInv')
<1>1. /\ ApprovalsTypeOK /\ pc[u] = "failed"
      /\ UNCHANGED <<dag, step, visit, pending, approvers, rejecters, outcome, reached,
                     overdue, late, stray>>
  BY DEF DecisionSafeInv, Unclaim, workflowVars, limits
<1>2. /\ \A v \in Users \ {u} : pc'[v] = pc[v] /\ aim'[v] = aim[v] /\ choice'[v] = choice[v]
      /\ pc'[u] = "idle"
  BY <1>1, LeaveTypes DEF Unclaim
<1>3. aim[u] \in Visits /\ \A k \in Visits : req'[k] = req[k] \/ k = aim[u]
  BY <1>1 DEF Unclaim, ApprovalsTypeOK
<1>4. PlaceInv'
  BY <1>1, <1>2, <1>3, PlaceKept
<1>5. ASSUME Regular' PROVE FirstInv'
  <2>1. aim[u] = 1 /\ FirstInv
    BY <1>1, <1>5, AimIsFirst DEF Regular
  <2>2. reached[1] = {} /\ choice[u] \in Decisions
    BY <1>1, <2>1 DEF FirstInv, ClaimInv, ApprovalsTypeOK
  <2>3. \/ req'[1] = req[1] /\ by'[1] = by[1]
        \/ req[1] = choice[u] /\ by[1] = u /\ req'[1] = "PENDING"
    BY <1>1, <2>1, FirstVisit DEF Unclaim, IsClaimOf, ApprovalsTypeOK
  <2>4. HeardInv' /\ OutcomeInv'
    BY <1>1, <2>1, <2>2 DEF HeardInv, OutcomeInv, FirstInv
  <2>5. ClaimInv'
    <3>1. CASE req'[1] = req[1] /\ by'[1] = by[1]
      BY <1>1, <1>2, <2>1, <3>1 DEF ClaimInv, FirstInv
    <3>2. CASE req[1] = choice[u] /\ by[1] = u /\ req'[1] = "PENDING"
      <4>1. \A v \in Users \ {u} : pc[v] \notin {"claimed", "failed"}
        BY <2>1, <2>2, <3>2 DEF FirstInv, ClaimInv, Decisions, ClosedRow
      <4> QED
        BY <1>2, <4>1 DEF ClaimInv
    <3> QED
      BY <2>3, <3>1, <3>2
  <2>6. StageInv'
    <3>1. req[1] = choice[u] => req[1] # "EXPIRED"
      BY <2>2 DEF Decisions
    <3>2. outcome[1] = "TIMEOUT" /\ step = "elsewhere" => req'[1] = req[1]
      BY <2>1, <2>3, <3>1 DEF FirstInv, StageInv
    <3> QED
      BY <1>1, <2>1, <2>3, <3>2 DEF FirstInv, StageInv
  <2> QED
    BY <2>4, <2>5, <2>6 DEF FirstInv
<1> QED
  BY <1>4, <1>5

(* The last step of a request, or the death of one: its row stays.            *)
LEMMA QuitKeeps ==
  ASSUME DecisionSafeInv, NEW u \in Users, ResumeRunIfNothingPending(u) \/ RequestDies(u)
  PROVE  PlaceInv' /\ (Regular' => FirstInv')
<1>1. /\ ApprovalsTypeOK
      /\ UNCHANGED <<dag, step, visit, pending, approvers, rejecters, outcome, reached, req, by,
                     overdue, late, stray>>
  BY DEF DecisionSafeInv, ResumeRunIfNothingPending, RequestDies, workflowVars, rowVars, limits
<1>2. /\ \A v \in Users \ {u} : pc'[v] = pc[v] /\ aim'[v] = aim[v] /\ choice'[v] = choice[v]
      /\ pc'[u] = "idle" /\ pc[u] # "idle"
  BY <1>1, LeaveTypes DEF ResumeRunIfNothingPending, RequestDies
<1>3. PlaceInv'
  BY <1>1, <1>2, PlaceKept
<1>4. ASSUME Regular' PROVE FirstInv'
  <2>1. FirstInv
    BY <1>1, <1>4 DEF Regular, DecisionSafeInv
  <2>2. HeardInv' /\ OutcomeInv' /\ StageInv'
    BY <1>1, <2>1 DEF FirstInv, HeardInv, OutcomeInv, StageInv
  <2>3. ClaimInv'
    BY <1>1, <1>2, <2>1 DEF FirstInv, ClaimInv
  <2> QED
    BY <2>2, <2>3 DEF FirstInv
<1> QED
  BY <1>3, <1>4

(* A late signal is none of a regular behaviour.                              *)
LEMMA LateKeeps ==
  ASSUME DecisionSafeInv, NEW s \in late, SignalArrivesLate(s)
  PROVE  PlaceInv' /\ (Regular' => FirstInv')
<1>1. /\ ApprovalsTypeOK /\ PlaceInv /\ late' \subseteq late
      /\ s[1] \in Users /\ s[2] \in Decisions
      /\ UNCHANGED <<dag, step, visit, pending, outcome, req, pc, aim, stray>>
  BY DEF DecisionSafeInv, SignalArrivesLate, ApprovalsTypeOK, Receive, workflowVars, rowVars, userVars, limits
<1>2. \A k \in Visits : reached'[k] = reached[k] \/ k = visit
  BY <1>1 DEF SignalArrivesLate, Receive, ApprovalsTypeOK, workflowVars
<1>3. stray # MaxLost
  BY <1>1 DEF PlaceInv
<1>4. ~(visit > visit)
  BY <1>1 DEF ApprovalsTypeOK
<1>5. PlaceInv'
  BY <1>1, <1>2, <1>3, <1>4 DEF PlaceInv
<1>6. ~Regular'
  BY <1>1, <1>3 DEF Regular
<1> QED
  BY <1>5, <1>6

--------------------------------------------------------------------------------
(* The invariant *)

LEMMA DecisionSafeInit == ApprovalsInit => DecisionSafeInv
<1> SUFFICES ASSUME ApprovalsInit PROVE DecisionSafeInv
  OBVIOUS
<1>1. ApprovalsTypeOK
  BY TypeInit
<1>2. PlaceInv
  BY DEF ApprovalsInit, PlaceInv
<1>3. HeardInv /\ ClaimInv
  BY FirstVisit DEF ApprovalsInit, HeardInv, ClaimInv
<1>4. OutcomeInv /\ StageInv
  BY FirstVisit DEF ApprovalsInit, OutcomeInv, StageInv, Decisions
<1> QED
  BY <1>1, <1>2, <1>3, <1>4 DEF DecisionSafeInv, FirstInv

LEMMA DecisionSafeStep == DecisionSafeInv /\ [ApprovalsNext]_approvalsVars => DecisionSafeInv'
<1> SUFFICES ASSUME DecisionSafeInv, [ApprovalsNext]_approvalsVars PROVE DecisionSafeInv'
  OBVIOUS
<1>1. ApprovalsTypeOK'
  BY DecisionTypeStep DEF DecisionSafeInv
<1>2. PlaceInv' /\ (Regular' => FirstInv')
  <2>1. CASE RunSteps
    BY <2>1, ReachKeeps, WaitingKeeps, RecordFailsKeeps, ResolveKeeps, ResolvedKeeps, EndKeeps
       DEF RunSteps, Ends
  <2>2. CASE Overdue
    BY <2>2, OverdueKeeps
  <2>3. ASSUME NEW u \in Users, NEW k \in Visits, NEW c \in Decisions, Load(u, k, c)
        PROVE  PlaceInv' /\ (Regular' => FirstInv')
    BY <2>3, LoadKeeps
  <2>4. ASSUME NEW u \in Users, Request(u) \/ RequestDies(u)
        PROVE  PlaceInv' /\ (Regular' => FirstInv')
    BY <2>4, AskKeeps, ClaimRowKeeps, AcceptedKeeps, NotFoundKeeps, FailsKeeps, UnclaimKeeps,
       QuitKeeps DEF Request
  <2>5. ASSUME NEW s \in late, SignalArrivesLate(s)
        PROVE  PlaceInv' /\ (Regular' => FirstInv')
    BY <2>5, LateKeeps
  <2>6. CASE UNCHANGED approvalsVars
    BY <2>6 DEF approvalsVars, workflowVars, rowVars, userVars, limits, DecisionSafeInv, PlaceInv, Regular,
       FirstInv, HeardInv, ClaimInv, OutcomeInv, StageInv
  <2> QED
    BY <2>1, <2>2, <2>3, <2>4, <2>5, <2>6 DEF ApprovalsNext
<1> QED
  BY <1>1, <1>2 DEF DecisionSafeInv

LEMMA DecisionSafeAlways == ApprovalsSpec => []DecisionSafeInv
BY DecisionSafeInit, DecisionSafeStep, PTL DEF ApprovalsSpec

LEMMA RowsKept == DecisionSafeInv /\ [ApprovalsNext]_approvalsVars => Kept
<1> SUFFICES ASSUME DecisionSafeInv, [ApprovalsNext]_approvalsVars, NEW k \in Visits, req[k] \in ClosedRow
             PROVE  req'[k] = req[k]
  BY DEF Kept
<1>1. ApprovalsTypeOK
  BY DEF DecisionSafeInv
<1>2. CASE RunSteps
  BY <1>2 DEF RunSteps, Reach, RecordWaiting, RecordFails, Resolve, RecordResolved, EndRun,
     FinishUnrecorded, rowVars, ClosedRow, Decisions
<1>3. ASSUME NEW u \in Users, Request(u) \/ RequestDies(u) PROVE req'[k] = req[k]
  <2>1. aim[u] \in Visits /\ choice[u] \in Decisions
    BY <1>1 DEF ApprovalsTypeOK
  <2>2. \/ req' = req
        \/ /\ req[aim[u]] = "PENDING" \/ IsClaimOf(u)
           /\ \A m \in Visits \ {aim[u]} : req'[m] = req[m]
    BY <1>1, <1>3, <2>1 DEF ApprovalsTypeOK, Request, RequestDies, rowVars, AskRun, ClaimRow, SignalAccepted,
       SignalNotFound, SignalFails, Unclaim, ResumeRunIfNothingPending
  <2> QED
    BY <2>1, <2>2 DEF IsClaimOf, ClosedRow, Decisions
<1>4. CASE Overdue \/ (\E u \in Users, m \in Visits, c \in Decisions : Load(u, m, c))
           \/ (\E s \in late : SignalArrivesLate(s)) \/ UNCHANGED approvalsVars
  BY <1>4 DEF Overdue, Load, SignalArrivesLate, approvalsVars, rowVars
<1> QED
  BY <1>2, <1>3, <1>4 DEF ApprovalsNext

(* The run, the rows and the requests keep their types.                       *)
THEOREM ApprovalsTypeCorrect == ApprovalsSpec => []ApprovalsTypeOK
<1>1. DecisionSafeInv => ApprovalsTypeOK
  BY DEF DecisionSafeInv
<1> QED
  BY <1>1, DecisionSafeAlways, PTL

(* Of any number of people who decide the same request, whatever signals      *)
(* fail, claims are released and processes die, the run hears one at most.    *)
THEOREM OneIsHeard == ApprovalsSpec => []OneDecisionReachesRegularly
<1>1. DecisionSafeInv => OneDecisionReachesRegularly
  <2> SUFFICES ASSUME DecisionSafeInv, Regular, NEW k \in Visits, NEW s \in reached[k], NEW t \in reached[k]
               PROVE  s = t
    BY DEF OneDecisionReachesRegularly, OneDecisionReaches
  <2>1. ApprovalsTypeOK /\ PlaceInv /\ HeardInv
    BY DEF DecisionSafeInv, FirstInv
  <2>2. k <= visit /\ visit <= 1
    BY <2>1 DEF PlaceInv, Regular, ApprovalsTypeOK, Visits
  <2>3. k = 1
    BY <2>1, <2>2, FirstVisit DEF ApprovalsTypeOK, Visits
  <2>4. s[1] = t[1] /\ s[2] = t[2]
    BY <2>1, <2>3 DEF HeardInv
  <2> QED
    BY <2>1, <2>3, <2>4, FirstRow
<1> QED
  BY <1>1, DecisionSafeAlways, PTL

(* Once the step is recorded its row names the decision the run acted on and  *)
(* who took it, or says that the request expired.                             *)
THEOREM RowsTell == ApprovalsSpec => []RowTellsOutcome
<1>1. DecisionSafeInv => RowTellsOutcome
  <2> SUFFICES ASSUME DecisionSafeInv, Regular, NEW k \in Visits, k = visit, step = "elsewhere"
               PROVE  /\ outcome[k] \in Decisions =>
                            req[k] = outcome[k] /\ <<by[k], outcome[k]>> \in reached[k]
                      /\ outcome[k] = "TIMEOUT" => req[k] = "EXPIRED"
    BY DEF RowTellsOutcome
  <2>1. FirstInv /\ k = 1
    BY FirstVisit DEF DecisionSafeInv, Regular
  <2> QED
    BY <2>1 DEF FirstInv, OutcomeInv, StageInv, HeardInv
<1> QED
  BY <1>1, DecisionSafeAlways, PTL

(* A request that was closed stays closed, whatever was under way.            *)
THEOREM ClosedForGood == ApprovalsSpec => ClosedStaysClosed
<1>1. DecisionSafeInv /\ [ApprovalsNext]_approvalsVars =>
          [\A k \in Visits : req[k] \in {"EXPIRED", "CANCELLED"} => req'[k] = req[k]]_approvalsVars
  BY RowsKept DEF Kept, ClosedRow
<1> QED
  BY <1>1, DecisionSafeAlways, PTL DEF ApprovalsSpec, ClosedStaysClosed
================================================================================
