---------------------------- MODULE AutomationProofs ----------------------------
(* Theorems about the automations: the runs of an event, for any number of    *)
(* automations, overlapping deliveries, steps, retries and faults; the        *)
(* schedule a row has with Temporal, for any number of editors, workers that  *)
(* start and specs; the runs a tick or a webhook starts, for any number of    *)
(* requests, slots and keys and any window.                                   *)
EXTENDS MCAutomationRuns, ScheduleSync, KeyedTriggers,
        SequenceTheorems, WellFoundedInduction, FiniteSetTheorems, TLAPS

(* The runs of an event *)

USE RunsAssumption

(* What a delivery holds where: it triggers an automation, and past the      *)
(* insert the row exists and is in memory.                                   *)
HandInv ==
    \A h \in Handlers :
        /\ at[h] \notin {"off", "next"} => hand[h] \in Automations
        /\ at[h] \in {"start", "started", "failed"} =>
              copy[h] \in Row /\ ~copy[h].started /\ row[hand[h]].exists

(* A row found or created is a row, with the columns of one.                 *)
LEMMA RowTypes ==
  /\ NewRow \in Row
  /\ \A r \in Row \cup {NoRow} : r.exists => r \in Row
  /\ \A r \in Row : r.exists /\ r.started \in BOOLEAN /\ r.steps \subseteq Steps
                    /\ r.status \in {"RUNNING", "COMPLETED", "FAILED"} /\ r.closed \in BOOLEAN
<1>1. NewRow \in Row
  BY DEF Row, NewRow
<1>2. \A r \in Row \cup {NoRow} : r.exists => r \in Row
  BY DEF NoRow
<1>3. \A r \in Row : r.exists /\ r.started \in BOOLEAN /\ r.steps \subseteq Steps
                     /\ r.status \in {"RUNNING", "COMPLETED", "FAILED"} /\ r.closed \in BOOLEAN
  BY DEF Row
<1> QED
  BY <1>1, <1>2, <1>3

(* What the code makes of the entity before a save is again a row.           *)
LEMMA EntityType ==
  ASSUME NEW x \in Row
  PROVE  /\ StartedEntity(x) \in Row /\ StartedEntity(x).started = TRUE
         /\ FailedEntity(x) \in Row /\ FailedEntity(x).status = "FAILED"
         /\ FailedEntity(x).started = x.started
BY DEF StartedEntity, FailedEntity, Row

--------------------------------------------------------------------------------
(* Types *)

TypeInv == TypeOK /\ HandInv

(* The two saves leave a row where there was one, and types as they were.    *)
LEMMA SaveStep ==
  ASSUME TypeInv, NEW h \in Handlers, SaveStarted(h) \/ SaveFailed(h)
  PROVE  /\ hand[h] \in Automations
         /\ row' \in [Automations -> Row \cup {NoRow}]
         /\ row'[hand[h]] \in Row
         /\ row'[hand[h]].started = (at[h] = "started")
         /\ \A v \in Automations \ {hand[h]} : row'[v] = row[v]
<1>1. hand[h] \in Automations /\ copy[h] \in Row /\ ~copy[h].started
      /\ at[h] \in {"started", "failed"} /\ row \in [Automations -> Row \cup {NoRow}]
  BY DEF TypeInv, TypeOK, HandInv, SaveStarted, SaveFailed
<1> DEFINE x == IF at[h] = "started" THEN StartedEntity(copy[h]) ELSE FailedEntity(copy[h])
<1>2. x \in Row /\ x.started = (at[h] = "started")
  <2>1. copy[h].started = FALSE
    BY <1>1 DEF Row
  <2> QED
    BY <1>1, <2>1, EntityType
<1>3. row' = [row EXCEPT ![hand[h]] = x]
  BY DEF SaveStarted, SaveFailed
<1> QED
  BY <1>1, <1>2, <1>3

(* A step or the end of a run changes what its row says, never that it is    *)
(* there or which workflow it names.                                         *)
LEMMA WorkflowStep ==
  ASSUME TypeInv, NEW w \in Automations, Workflow(w)
  PROVE  /\ row' \in [Automations -> Row \cup {NoRow}]
         /\ \A v \in Automations : row[v].exists => row'[v].started = row[v].started
         /\ \A v \in Automations : row'[v].exists = row[v].exists
<1> DEFINE Kept ==
             /\ row' \in [Automations -> Row \cup {NoRow}]
             /\ \A v \in Automations : row[v].exists => row'[v].started = row[v].started
             /\ \A v \in Automations : row'[v].exists = row[v].exists
<1>1. row \in [Automations -> Row \cup {NoRow}] /\ (row[w].exists => row[w] \in Row)
  BY RowTypes DEF TypeInv, TypeOK
<1>2. CASE row' = row
  BY <1>1, <1>2
<1>3. ASSUME NEW s \in Steps, RecordStep(w, s) PROVE Kept
  <2> DEFINE r == [row[w] EXCEPT !.steps = row[w].steps \cup {s}]
  <2>1. CASE ~row[w].exists
    BY <1>2, <1>3, <2>1 DEF RecordStep
  <2>2. CASE row[w].exists
    <3>1. row' = [row EXCEPT ![w] = r]
      BY <1>1, <1>3, <2>2 DEF RecordStep
    <3>2. r \in Row /\ r.started = row[w].started /\ r.exists = row[w].exists
      BY <1>1, <2>2 DEF Row
    <3> HIDE DEF r
    <3> QED
      BY <1>1, <3>1, <3>2
  <2> QED
    BY <2>1, <2>2
<1>4. ASSUME NEW how \in Ended, RecordFinished(w, how) PROVE Kept
  <2> DEFINE r == [row[w] EXCEPT !.status = how, !.closed = TRUE]
  <2>1. CASE ~(row[w].exists /\ row[w].status \notin Ended)
    BY <1>2, <1>4, <2>1 DEF RecordFinished
  <2>2. CASE row[w].exists /\ row[w].status \notin Ended
    <3>1. row' = [row EXCEPT ![w] = r]
      BY <1>1, <1>4, <2>2 DEF RecordFinished
    <3>2. r \in Row /\ r.started = row[w].started /\ r.exists = row[w].exists
      BY <1>1, <2>2 DEF Row, Ended
    <3> HIDE DEF r
    <3> QED
      BY <1>1, <3>1, <3>2
  <2> QED
    BY <2>1, <2>2
<1>5. ASSUME EndUnrecorded(w) PROVE Kept
  BY <1>2, <1>5 DEF EndUnrecorded
<1> QED
  BY <1>3, <1>4, <1>5 DEF Workflow, Kept

Places == {"off", "next", "find", "insert", "start", "started", "failed"}

(* Moving on to the next automation keeps the types.                         *)
LEMMA NextAutomationType ==
  ASSUME TypeInv, NEW h \in Handlers, NextAutomation(h)
  PROVE  /\ at' \in [Handlers -> Places]
         /\ todo' \in [Handlers -> SUBSET Automations]
         /\ hand' \in [Handlers -> Automations \cup {NoAutomation}]
         /\ copy' \in [Handlers -> Row \cup {NoRow}]
<1> USE DEF TypeInv, TypeOK, NextAutomation, Move, Places
<1>1. at' \in [Handlers -> Places]
  OBVIOUS
<1>2. todo' \in [Handlers -> SUBSET Automations]
  OBVIOUS
<1>3. hand' \in [Handlers -> Automations \cup {NoAutomation}]
  OBVIOUS
<1>4. copy' \in [Handlers -> Row \cup {NoRow}]
  OBVIOUS
<1> QED
  BY <1>1, <1>2, <1>3, <1>4

(* Every step keeps the types and what the deliveries hold.                  *)
LEMMA TypeStep ==
  ASSUME TypeInv, [Next]_vars PROVE TypeInv'
<1> USE DEF deliveryVars, runVars, budgets, Ended
<1>1. CASE UNCHANGED vars
  BY <1>1 DEF vars, TypeInv, TypeOK, HandInv
<1>2. ASSUME NEW h \in Handlers, Claim(h) PROVE TypeInv'
  BY <1>2 DEF Claim, TypeInv, TypeOK, HandInv
<1>3. ASSUME NEW h \in Handlers, TimeOut(h) PROVE TypeInv'
  BY <1>3 DEF TimeOut, FailedStatus, TypeInv, TypeOK, HandInv
<1>4. ASSUME NEW h \in Handlers, Crash(h) PROVE TypeInv'
  BY <1>4 DEF Crash, Forget, TypeInv, TypeOK, HandInv
<1>5. ASSUME NEW h \in Handlers, Trigger(h) PROVE TypeInv'
  <2>1. ASSUME NEW w \in Automations, Pick(h, w) PROVE TypeInv'
    BY <2>1 DEF Pick, Move, TypeInv, TypeOK, HandInv
  <2>2. CASE FindExecution(h)
    <3>1. hand[h] \in Automations
      BY <2>2 DEF FindExecution, TypeInv, HandInv
    <3>2. row[hand[h]].exists => row[hand[h]] \in Row
      BY <3>1, RowTypes DEF TypeInv, TypeOK
    <3>3. TypeOK'
      <4>1. CASE NextAutomation(h)
        BY <2>2, <4>1, NextAutomationType DEF FindExecution, Places, TypeInv, TypeOK
      <4>2. CASE Move(h, "insert") /\ UNCHANGED <<todo, hand, copy>>
        BY <2>2, <4>2 DEF FindExecution, Move, TypeInv, TypeOK
      <4>3. CASE /\ row[hand[h]].exists /\ Move(h, "start") /\ UNCHANGED <<todo, hand>>
                 /\ copy' = [copy EXCEPT ![h] = row[hand[h]]]
        <5>1. copy' \in [Handlers -> Row \cup {NoRow}]
          BY <3>2, <4>3 DEF TypeInv, TypeOK
        <5> QED
          BY <2>2, <4>3, <5>1 DEF FindExecution, Move, TypeInv, TypeOK
      <4> QED
        BY <2>2, <4>1, <4>2, <4>3 DEF FindExecution
    <3>4. HandInv'
      BY <2>2, <3>1, <3>2 DEF FindExecution, NextAutomation, Move, TypeInv, TypeOK, HandInv
    <3> QED
      BY <3>3, <3>4 DEF TypeInv
  <2>3. CASE InsertExecution(h)
    <3>1. hand[h] \in Automations
      BY <2>3 DEF InsertExecution, TypeInv, HandInv
    <3>2. NewRow \in Row /\ NewRow.exists /\ ~NewRow.started
      BY RowTypes DEF NewRow
    <3>3. TypeOK'
      <4>1. at' \in [Handlers -> Places]
        BY <2>3 DEF InsertExecution, Move, Places, TypeInv, TypeOK
      <4>2. row' \in [Automations -> Row \cup {NoRow}]
        BY <2>3, <3>2 DEF InsertExecution, TypeInv, TypeOK
      <4>3. copy' \in [Handlers -> Row \cup {NoRow}]
        BY <2>3, <3>2 DEF InsertExecution, TypeInv, TypeOK
      <4> QED
        BY <2>3, <4>1, <4>2, <4>3 DEF InsertExecution, Places, TypeInv, TypeOK
    <3>4. HandInv'
      BY <2>3, <3>1, <3>2 DEF InsertExecution, Move, TypeInv, TypeOK, HandInv
    <3> QED
      BY <3>3, <3>4 DEF TypeInv
  <2>4. CASE StartRun(h)
    BY <2>4 DEF StartRun, Move, TypeInv, TypeOK, HandInv
  <2>5. CASE StartFails(h)
    BY <2>5 DEF StartFails, Move, TypeInv, TypeOK, HandInv
  <2>6. CASE SaveStarted(h) \/ SaveFailed(h)
    <3>1. \A v \in Automations : row[v].exists => row'[v].exists
      BY <2>6, SaveStep, RowTypes
    <3>2. row' \in [Automations -> Row \cup {NoRow}]
      BY <2>6, SaveStep
    <3>3. TypeOK'
      <4>1. errors' \in [Handlers -> BOOLEAN] /\ NextAutomation(h)
        BY <2>6 DEF SaveStarted, SaveFailed, TypeInv, TypeOK
      <4> QED
        BY <2>6, <3>2, <4>1, NextAutomationType DEF SaveStarted, SaveFailed, Places, TypeInv, TypeOK
    <3>4. HandInv'
      BY <2>6, <3>1 DEF SaveStarted, SaveFailed, NextAutomation, Move, TypeInv, TypeOK, HandInv
    <3> QED
      BY <3>3, <3>4 DEF TypeInv
  <2>7. CASE QueryFails(h)
    BY <2>7 DEF QueryFails, NextAutomation, Move, TypeInv, TypeOK, HandInv
  <2>8. CASE Finish(h)
    BY <2>8 DEF Finish, Forget, FailedStatus, TypeInv, TypeOK, HandInv
  <2>9. CASE ListFails(h)
    BY <2>9 DEF ListFails, TypeInv, TypeOK, HandInv
  <2> QED
    BY <1>5, <2>1, <2>2, <2>3, <2>4, <2>5, <2>6, <2>7, <2>8, <2>9 DEF Trigger
<1>6. ASSUME NEW w \in Automations, Workflow(w) PROVE TypeInv'
  <2>1. row' \in [Automations -> Row \cup {NoRow}]
        /\ \A v \in Automations : row'[v].exists = row[v].exists
    BY <1>6, WorkflowStep
  <2>2. UNCHANGED <<deliveryVars, outbox, claims, starts, refusals>>
        /\ run' \in [Automations -> {"none", "running"} \cup Ended]
        /\ done' \in [Automations -> SUBSET Steps]
        /\ faults' \in 0 .. MaxFaults
    BY <1>6 DEF Workflow, RecordStep, RecordFinished, EndUnrecorded, TypeInv, TypeOK
  <2>3. TypeOK'
    BY <2>1, <2>2 DEF TypeInv, TypeOK
  <2>4. HandInv'
    BY <2>1, <2>2 DEF TypeInv, HandInv
  <2> QED
    BY <2>3, <2>4 DEF TypeInv
<1> QED
  BY <1>1, <1>2, <1>3, <1>4, <1>5, <1>6 DEF Next

(* Type correctness of the automation runs.                                  *)
THEOREM RunsTypeCorrect == Spec => []TypeOK
<1>1. Init => TypeInv
  BY DEF Init, TypeInv, TypeOK, HandInv, NoRow, Ended
<1>2. TypeInv => TypeOK
  BY DEF TypeInv
<1> QED
  BY <1>1, <1>2, TypeStep, PTL DEF Spec

--------------------------------------------------------------------------------
(* Runs, rows and deliveries *)

(* What a delivery that has met no error has dealt with was started.         *)
ProgressInv ==
    \A h \in Handlers :
        /\ at[h] = "started" => run[hand[h]] # "none"
        /\ at[h] # "off" /\ ~errors[h] => \A w \in Automations \ todo[h] : run[w] # "none"

(* Temporal started a workflow once if there is one and never otherwise.     *)
CountInv == \A w \in Automations : starts[w] = IF run[w] = "none" THEN 0 ELSE 1

RunInv == TypeInv /\ ProgressInv /\ CountInv /\ RowsAndRunsAgree /\ DeliveredMeansStarted

(* Steps of a delivery or of the outbox that touch neither rows nor runs.    *)
LEMMA RowsAndRunsKept ==
  ASSUME RunInv, UNCHANGED <<row, run, starts>>
  PROVE  CountInv' /\ RowsAndRunsAgree'
  BY DEF RunInv, CountInv, RowsAndRunsAgree

(* A start, accepted or refused, concerns a row that is there.               *)
LEMMA StartStep ==
  ASSUME RunInv, NEW h \in Handlers, StartRun(h) \/ StartFails(h)
  PROVE  /\ CountInv' /\ RowsAndRunsAgree' /\ DeliveredMeansStarted' /\ ProgressInv'
<1>1. hand[h] \in Automations /\ row[hand[h]].exists /\ at[h] = "start" /\ UNCHANGED row
  BY DEF RunInv, TypeInv, HandInv, StartRun, StartFails
<1>2. \/ UNCHANGED <<run, starts>>
      \/ /\ run[hand[h]] = "none" /\ run' = [run EXCEPT ![hand[h]] = "running"]
         /\ starts' = [starts EXCEPT ![hand[h]] = starts[hand[h]] + 1]
  BY DEF StartRun, StartFails
<1>3. run \in [Automations -> {"none", "running"} \cup Ended] /\ starts \in [Automations -> Nat]
      /\ at \in [Handlers -> Places]
  BY DEF RunInv, TypeInv, TypeOK, Places
<1>4. CountInv'
  BY <1>1, <1>2, <1>3 DEF RunInv, CountInv
<1>5. RowsAndRunsAgree'
  BY <1>1, <1>2, <1>3 DEF RunInv, RowsAndRunsAgree
<1>6. \A w \in Automations : run[w] # "none" => run'[w] # "none"
  BY <1>1, <1>2, <1>3
<1>7. DeliveredMeansStarted'
  BY <1>6 DEF RunInv, DeliveredMeansStarted, StartRun, StartFails
<1>8. StartRun(h) => run'[hand[h]] # "none"
  BY <1>1, <1>3 DEF StartRun
<1>9. /\ UNCHANGED <<todo, errors, hand>>
      /\ \A g \in Handlers \ {h} : at'[g] = at[g]
      /\ at'[h] = "started" => StartRun(h)
  BY <1>3 DEF StartRun, StartFails, Move
<1>10. ProgressInv'
  BY <1>1, <1>6, <1>8, <1>9 DEF RunInv, ProgressInv, TypeInv, HandInv
<1> QED
  BY <1>4, <1>5, <1>7, <1>10

(* A save may undo what the workflow recorded, but a row that names a        *)
(* workflow is only written after the start.                                 *)
LEMMA SaveKeeps ==
  ASSUME RunInv, NEW h \in Handlers, SaveStarted(h) \/ SaveFailed(h)
  PROVE  /\ CountInv' /\ RowsAndRunsAgree' /\ DeliveredMeansStarted' /\ ProgressInv'
<1>1. /\ hand[h] \in Automations /\ UNCHANGED <<run, starts, outbox>> /\ NextAutomation(h)
      /\ at[h] \in {"started", "failed"}
      /\ UNCHANGED errors \/ errors' = [errors EXCEPT ![h] = TRUE]
      /\ at[h] = "failed" => errors' = [errors EXCEPT ![h] = TRUE]
  BY SaveStep DEF SaveStarted, SaveFailed, RunInv, runVars
<1>2. CountInv' /\ DeliveredMeansStarted'
  BY <1>1 DEF RunInv, CountInv, DeliveredMeansStarted
<1>3. row'[hand[h]].exists /\ row'[hand[h]].started = (at[h] = "started")
      /\ \A v \in Automations \ {hand[h]} : row'[v] = row[v]
  BY SaveStep, RowTypes DEF RunInv
<1>4. at[h] = "started" => run[hand[h]] # "none"
  BY DEF RunInv, ProgressInv
<1>5. RowsAndRunsAgree'
  BY <1>1, <1>3, <1>4 DEF RunInv, RowsAndRunsAgree
<1>6. ProgressInv'
  BY <1>1, <1>4 DEF RunInv, ProgressInv, NextAutomation, Move, TypeInv, TypeOK
<1> QED
  BY <1>2, <1>5, <1>6

(* Every step keeps the invariant.                                           *)
LEMMA RunStep ==
  ASSUME RunInv, [Next]_vars PROVE RunInv'
<1>1. TypeInv'
  BY TypeStep DEF RunInv
<1> USE DEF deliveryVars, runVars, budgets
<1> DEFINE Kept == CountInv' /\ RowsAndRunsAgree' /\ DeliveredMeansStarted' /\ ProgressInv'
<1>2. CASE UNCHANGED vars
  BY <1>1, <1>2 DEF vars, RunInv, CountInv, RowsAndRunsAgree, DeliveredMeansStarted, ProgressInv
<1>3. ASSUME NEW h \in Handlers, Claim(h) \/ TimeOut(h) \/ Crash(h) PROVE Kept
  <2>1. CountInv' /\ RowsAndRunsAgree'
    BY <1>3, RowsAndRunsKept DEF Claim, TimeOut, Crash
  <2>2. DeliveredMeansStarted'
    BY <1>3 DEF Claim, TimeOut, Crash, FailedStatus, RunInv, DeliveredMeansStarted
  <2>3. ProgressInv'
    BY <1>3 DEF Claim, TimeOut, Crash, Forget, RunInv, ProgressInv, TypeInv, TypeOK
  <2> QED
    BY <2>1, <2>2, <2>3
<1>4. ASSUME NEW h \in Handlers, Trigger(h) PROVE Kept
  <2>1. ASSUME NEW w \in Automations, Pick(h, w) PROVE Kept
    <3>1. CountInv' /\ RowsAndRunsAgree'
      BY <2>1, RowsAndRunsKept DEF Pick
    <3>2. DeliveredMeansStarted' /\ ProgressInv'
      BY <2>1 DEF Pick, Move, RunInv, DeliveredMeansStarted, ProgressInv, TypeInv, TypeOK
    <3> QED
      BY <3>1, <3>2
  <2>2. CASE FindExecution(h)
    <3>1. CountInv' /\ RowsAndRunsAgree'
      BY <2>2, RowsAndRunsKept DEF FindExecution
    <3>2. DeliveredMeansStarted'
      BY <2>2 DEF FindExecution, RunInv, DeliveredMeansStarted
    <3>3. hand[h] \in Automations
      BY <2>2 DEF FindExecution, RunInv, TypeInv, HandInv
    <3>4. row[hand[h]].exists /\ row[hand[h]].started => run[hand[h]] # "none"
      BY <3>3 DEF RunInv, RowsAndRunsAgree
    <3>5. ProgressInv'
      BY <2>2, <3>4 DEF FindExecution, NextAutomation, Move, RunInv, ProgressInv, TypeInv, TypeOK
    <3> QED
      BY <3>1, <3>2, <3>5
  <2>3. CASE InsertExecution(h)
    <3>1. hand[h] \in Automations /\ UNCHANGED <<run, starts, outbox, todo, hand, errors>>
      BY <2>3 DEF InsertExecution, RunInv, TypeInv, HandInv
    <3>2. CountInv' /\ DeliveredMeansStarted'
      BY <3>1 DEF RunInv, CountInv, DeliveredMeansStarted
    <3>3. ProgressInv'
      BY <2>3, <3>1 DEF InsertExecution, Move, RunInv, ProgressInv, TypeInv, TypeOK
    <3>4. NewRow.exists = TRUE /\ NewRow.started = FALSE
      BY DEF NewRow
    <3>5. row' = row \/ row' = [row EXCEPT ![hand[h]] = NewRow]
      BY <2>3 DEF InsertExecution
    <3>6. RowsAndRunsAgree'
      BY <3>1, <3>4, <3>5 DEF RunInv, RowsAndRunsAgree, TypeInv, TypeOK
    <3> QED
      BY <3>2, <3>3, <3>6
  <2>4. CASE StartRun(h) \/ StartFails(h)
    BY <2>4, StartStep
  <2>5. CASE SaveStarted(h) \/ SaveFailed(h)
    BY <2>5, SaveKeeps
  <2>6. CASE QueryFails(h)
    <3>1. CountInv' /\ RowsAndRunsAgree'
      BY <2>6, RowsAndRunsKept DEF QueryFails
    <3>2. DeliveredMeansStarted' /\ ProgressInv'
      BY <2>6 DEF QueryFails, NextAutomation, Move, RunInv, DeliveredMeansStarted, ProgressInv,
                  TypeInv, TypeOK
    <3> QED
      BY <3>1, <3>2
  <2>7. CASE Finish(h)
    <3>1. CountInv' /\ RowsAndRunsAgree'
      BY <2>7, RowsAndRunsKept DEF Finish
    <3>2. DeliveredMeansStarted'
      BY <2>7 DEF Finish, FailedStatus, RunInv, DeliveredMeansStarted, ProgressInv
    <3>3. ProgressInv'
      BY <2>7 DEF Finish, Forget, RunInv, ProgressInv, TypeInv, TypeOK
    <3> QED
      BY <3>1, <3>2, <3>3
  <2>8. CASE ListFails(h)
    <3>1. CountInv' /\ RowsAndRunsAgree'
      BY <2>8, RowsAndRunsKept DEF ListFails
    <3>2. DeliveredMeansStarted' /\ ProgressInv'
      BY <2>8 DEF ListFails, RunInv, DeliveredMeansStarted, ProgressInv, TypeInv, TypeOK
    <3> QED
      BY <3>1, <3>2
  <2> QED
    BY <1>4, <2>1, <2>2, <2>3, <2>4, <2>5, <2>6, <2>7, <2>8 DEF Trigger
<1>5. ASSUME NEW w \in Automations, Workflow(w) PROVE Kept
  <2>1. /\ UNCHANGED <<outbox, starts, deliveryVars>>
        /\ \A v \in Automations : run'[v] = "none" <=> run[v] = "none"
    BY <1>5 DEF Workflow, RecordStep, RecordFinished, EndUnrecorded, RunInv, TypeInv, TypeOK, Ended
  <2>2. CountInv' /\ DeliveredMeansStarted'
    BY <2>1 DEF RunInv, CountInv, DeliveredMeansStarted
  <2>3. ProgressInv'
    BY <2>1 DEF RunInv, ProgressInv, TypeInv, HandInv
  <2>4. RowsAndRunsAgree'
    <3>1. \A v \in Automations : row'[v].exists = row[v].exists
      BY <1>5, WorkflowStep DEF RunInv
    <3>2. \A v \in Automations : row[v].exists => row'[v].started = row[v].started
      BY <1>5, WorkflowStep DEF RunInv
    <3> QED
      BY <2>1, <3>1, <3>2 DEF RunInv, RowsAndRunsAgree
  <2> QED
    BY <2>2, <2>3, <2>4
<1>6. Next => Kept
  <2> HIDE DEF Kept
  <2> QED
    BY <1>3, <1>4, <1>5 DEF Next
<1>7. CASE Next
  BY <1>1, <1>6, <1>7 DEF RunInv
<1> QED
  BY <1>2, <1>7

(* The invariant holds in every reachable state.                             *)
LEMMA RunInvAlways == Spec => []RunInv
<1>1. Init => RunInv
  BY DEF Init, RunInv, TypeInv, TypeOK, HandInv, NoRow, Ended, ProgressInv, CountInv,
         RowsAndRunsAgree, DeliveredMeansStarted
<1> QED
  BY <1>1, RunStep, PTL DEF Spec

(* However often the event is delivered, an automation runs once for it.     *)
THEOREM RunsOncePerEvent == Spec => []OneRunPerEvent
<1>1. RunInv => OneRunPerEvent
  BY DEF RunInv, CountInv, OneRunPerEvent
<1> QED
  BY <1>1, RunInvAlways, PTL

(* Every run has its row, and no row names a workflow that was not started.  *)
THEOREM RunsHaveRows == Spec => []RowsAndRunsAgree
<1>1. RunInv => RowsAndRunsAgree
  BY DEF RunInv
<1> QED
  BY <1>1, RunInvAlways, PTL

(* An event marked delivered has started every automation that matches it.   *)
THEOREM DeliveredStarted == Spec => []DeliveredMeansStarted
<1>1. RunInv => DeliveredMeansStarted
  BY DEF RunInv
<1> QED
  BY <1>1, RunInvAlways, PTL

--------------------------------------------------------------------------------
(* Events given up on *)

(* As long as only starts have failed, a row that reads RUNNING without a run *)
(* is in the hand of a delivery that is starting it or is about to record     *)
(* that it could not.                                                         *)
StartingInv ==
    faults = MaxFaults =>
        \A w \in Automations :
            row[w].exists /\ row[w].status = "RUNNING" /\ run[w] = "none" =>
                \E h \in Handlers : at[h] \in {"start", "failed"} /\ hand[h] = w

(* No fault was charged, and the deliveries that are starting a run stay.     *)
LEMMA StartingKept ==
    ASSUME TypeOK, StartingInv, faults' = MaxFaults => faults = MaxFaults,
           \A w \in Automations :
              row'[w].exists /\ row'[w].status = "RUNNING" /\ run'[w] = "none" =>
                  row[w].exists /\ row[w].status = "RUNNING" /\ run[w] = "none",
           faults' = MaxFaults =>
              \A h \in Handlers : at[h] \in {"start", "failed"} =>
                 hand[h] \in Automations /\
                 \/ at'[h] \in {"start", "failed"} /\ hand'[h] = hand[h]
                 \/ run'[hand[h]] # "none"
                 \/ row'[hand[h]].exists /\ row'[hand[h]].status # "RUNNING"
    PROVE  StartingInv'
<1> SUFFICES ASSUME faults' = MaxFaults, NEW w \in Automations,
                    row'[w].exists, row'[w].status = "RUNNING", run'[w] = "none"
             PROVE  \E h \in Handlers : at'[h] \in {"start", "failed"} /\ hand'[h] = w
  BY DEF StartingInv
<1>1. PICK h \in Handlers : at[h] \in {"start", "failed"} /\ hand[h] = w
  BY DEF StartingInv
<1> QED
  BY <1>1

LEMMA StartingStep ==
    ASSUME RunInv, StartingInv, [Next]_vars
    PROVE  StartingInv'
<1> USE DEF deliveryVars, runVars, budgets
<1>t. TypeOK /\ HandInv /\ at \in [Handlers -> Places] /\ hand \in [Handlers -> Automations \cup {NoAutomation}]
      /\ run \in [Automations -> {"none", "running"} \cup Ended]
      /\ row \in [Automations -> Row \cup {NoRow}]
      /\ faults \in 0..MaxFaults
      /\ \A h \in Handlers : at[h] \in {"start", "started", "failed"} =>
             hand[h] \in Automations /\ row[hand[h]].exists
      /\ MaxFaults \in Nat
  BY DEF RunInv, TypeInv, HandInv, TypeOK, Places
<1>s. \A h \in Handlers : at[h] = "started" => run[hand[h]] # "none"
  BY DEF RunInv, ProgressInv
<1>f. faults' = MaxFaults => faults = MaxFaults
  <2>1. faults' = faults \/ (faults > 0 /\ faults' = faults - 1)
    BY DEF Next, Claim, Trigger, TimeOut, Crash, ListFails, Pick, FindExecution, InsertExecution, StartRun,
           StartFails, SaveStarted, SaveFailed, QueryFails, Finish, Workflow, RecordStep,
           RecordFinished, EndUnrecorded, vars
  <2> QED
    BY <1>t, <2>1
<1>x. faults > 0 /\ faults' = faults - 1 => faults' # MaxFaults
  BY <1>t
<1>1. CASE UNCHANGED vars
  BY <1>1, <1>t, StartingKept DEF vars
<1>2. ASSUME NEW h \in Handlers, TimeOut(h) \/ Crash(h) \/ ListFails(h) \/ QueryFails(h)
      PROVE  StartingInv'
  <2>1. faults' # MaxFaults
    BY <1>2, <1>x DEF TimeOut, Crash, ListFails, QueryFails
  <2> QED
    BY <2>1 DEF StartingInv
<1>3. ASSUME NEW h \in Handlers, Claim(h) \/ (\E w \in Automations : Pick(h, w)) \/ Finish(h)
      PROVE  StartingInv'
  <2>1. UNCHANGED <<row, run>> /\ \A g \in Handlers \ {h} : at'[g] = at[g] /\ hand'[g] = hand[g]
    BY <1>3, <1>t DEF Claim, Pick, Finish, Forget, Move
  <2>2. at[h] \notin {"start", "failed"}
    BY <1>3 DEF Claim, Pick, Finish
  <2> QED
    BY <1>f, <1>t, <2>1, <2>2, StartingKept
<1>4. ASSUME NEW h \in Handlers, FindExecution(h)
      PROVE  StartingInv'
  <2>1. UNCHANGED <<row, run>> /\ \A g \in Handlers \ {h} : at'[g] = at[g] /\ hand'[g] = hand[g]
    BY <1>4, <1>t DEF FindExecution, NextAutomation, Move
  <2>2. at[h] \notin {"start", "failed"}
    BY <1>4 DEF FindExecution
  <2> QED
    BY <1>f, <1>t, <2>1, <2>2, StartingKept
<1>5. ASSUME NEW h \in Handlers, InsertExecution(h)
      PROVE  StartingInv'
  <2>1. /\ hand[h] \in Automations /\ at[h] = "insert" /\ UNCHANGED <<hand, run>>
        /\ \A g \in Handlers \ {h} : at'[g] = at[g]
    BY <1>5, <1>t DEF InsertExecution, Move, HandInv
  <2>2. CASE row[hand[h]].exists
    <3>1. row' = row
      BY <1>5, <2>2 DEF InsertExecution
    <3> QED
      BY <1>f, <1>t, <2>1, <3>1, StartingKept
  <2>3. CASE ~ row[hand[h]].exists
    <3>1. row' = [row EXCEPT ![hand[h]] = NewRow] /\ at'[h] = "start"
      BY <1>5, <1>t, <2>3 DEF InsertExecution, Move
    <3>2. \A v \in Automations \ {hand[h]} : row'[v] = row[v]
      BY <1>t, <3>1
    <3> SUFFICES ASSUME faults' = MaxFaults, NEW w \in Automations,
                        row'[w].exists, row'[w].status = "RUNNING", run'[w] = "none"
                 PROVE  \E g \in Handlers : at'[g] \in {"start", "failed"} /\ hand'[g] = w
      BY DEF StartingInv
    <3>3. CASE w = hand[h]
      BY <2>1, <3>1, <3>3
    <3>4. CASE w # hand[h]
      <4>1. PICK g \in Handlers : at[g] \in {"start", "failed"} /\ hand[g] = w
        BY <1>f, <2>1, <3>2, <3>4 DEF StartingInv
      <4> QED
        BY <2>1, <3>4, <4>1
    <3> QED
      BY <3>3, <3>4
  <2> QED
    BY <2>2, <2>3
<1>6. ASSUME NEW h \in Handlers, StartRun(h) \/ StartFails(h)
      PROVE  StartingInv'
  <2>1. /\ hand[h] \in Automations /\ UNCHANGED <<row, hand>>
        /\ \A v \in Automations : run'[v] = "none" => run[v] = "none"
        /\ \A g \in Handlers \ {h} : at'[g] = at[g]
        /\ at'[h] = "failed" \/ run'[hand[h]] # "none"
    BY <1>6, <1>t DEF StartRun, StartFails, Move
  <2> QED
    BY <1>f, <1>t, <2>1, StartingKept
<1>7. ASSUME NEW h \in Handlers, SaveStarted(h) \/ SaveFailed(h)
      PROVE  StartingInv'
  <2>1. /\ hand[h] \in Automations /\ row[hand[h]].exists /\ copy[h] \in Row
        /\ UNCHANGED run /\ \A g \in Handlers \ {h} : at'[g] = at[g] /\ hand'[g] = hand[g]
    BY <1>7, <1>t DEF SaveStarted, SaveFailed, NextAutomation, Move, HandInv
  <2>2. CASE SaveFailed(h)
    <3>1. row'[hand[h]].exists /\ row'[hand[h]].status = "FAILED"
          /\ \A v \in Automations \ {hand[h]} : row'[v] = row[v]
      <4>1. FailedEntity(copy[h]) \in Row /\ FailedEntity(copy[h]).status = "FAILED"
        BY <2>1, EntityType
      <4>2. row' = [row EXCEPT ![hand[h]] = FailedEntity(copy[h])]
        BY <2>2 DEF SaveFailed
      <4> QED
        BY <1>t, <2>1, <4>1, <4>2, RowTypes
    <3> QED
      BY <1>f, <1>t, <2>1, <3>1, StartingKept
  <2>3. CASE SaveStarted(h)
    <3>1. at[h] = "started" /\ run[hand[h]] # "none"
          /\ \A v \in Automations \ {hand[h]} : row'[v] = row[v]
      BY <1>t, <1>s, <2>1, <2>3 DEF SaveStarted
    <3> QED
      BY <1>f, <1>t, <2>1, <3>1, StartingKept
  <2> QED
    BY <1>7, <2>2, <2>3
<1>8. ASSUME NEW w \in Automations, Workflow(w)
      PROVE  StartingInv'
  <2>1. UNCHANGED <<at, hand>> /\ run[w] # "none" /\ run'[w] # "none"
        /\ \A v \in Automations \ {w} : row'[v] = row[v] /\ run'[v] = run[v]
    BY <1>8, <1>t DEF Workflow, RecordStep, RecordFinished, EndUnrecorded, Ended
  <2> QED
    BY <1>f, <1>t, <2>1, StartingKept
<1> QED
  BY <1>1, <1>2, <1>3, <1>4, <1>5, <1>6, <1>7, <1>8 DEF Next, Trigger

(* If only starts failed, a dead-lettered event whose deliveries are over     *)
(* leaves no row that reads RUNNING without a run: for any number of          *)
(* automations, attempts and deliveries that overlap.                         *)
THEOREM DeadEventsClose == Spec => []DeadEventClosesItsRows
<1>1. Init => StartingInv
  BY DEF Init, StartingInv, NoRow
<1>2. StartingInv => DeadEventClosesItsRows
  BY DEF StartingInv, DeadEventClosesItsRows
<1> QED
  BY <1>1, <1>2, StartingStep, RunInvAlways, PTL DEF Spec

--------------------------------------------------------------------------------
(* The schedule *)

USE ScheduleAssumption

EditorsRest == \A e \in Editors : editor[e] = Resting
BootsRest == \A b \in Boots : boot[b] = Resting

(* A request alone since the two agreed last has them agree when it saves.    *)
ChangeInv(e) ==
    editor[e] # Resting =>
        /\ \A f \in Editors : editor[f] # Resting => f = e
        /\ BootsRest
        /\ editor[e].at = "sync" =>
               schedule = Wanted(automation) /\ editor[e].had = Wants(automation)
        /\ editor[e].at = "compare" => schedule = Wanted(editor[e].copy)
        /\ editor[e].at = "save" =>
               /\ schedule = Wanted(editor[e].copy) /\ automation.status # "GONE"
               /\ Saved(editor[e].copy, automation, editor[e].dirty) = editor[e].copy
        /\ editor[e].at = "unschedule" => schedule = Wanted(automation)
        /\ editor[e].at = "remove" => schedule = NoSchedule

(* A reconciliation nobody disturbed found what the row still says.           *)
RepairInv(b) ==
    boot[b] # Resting /\ (boot[b].clean \/ ~drifted) =>
        /\ EditorsRest /\ \A c \in Boots : boot[c] # Resting => c = b
        /\ boot[b].kept = Wanted(automation)
        /\ boot[b].at \in {"recheck", "delete"} => boot[b].kept = NoSchedule
        /\ boot[b].clean /\ boot[b].at = "list" /\ boot[b].kept # NoSchedule =>
               schedule = boot[b].kept

AgreeInv ==
    /\ ~drifted => /\ \A e \in Editors : ChangeInv(e)
                   /\ EditorsRest => schedule = Wanted(automation)
    /\ \A b \in Boots : RepairInv(b)

SyncInv == SyncTypeOK /\ AgreeInv

--------------------------------------------------------------------------------
(* Types *)

LEMMA PlaceKinds ==
  /\ Resting \notin Editing \cup Deleting \cup Repairing
  /\ Resting.at = "off"
  /\ \A x \in Editing : /\ x.at \in {"sync", "compare", "save"} /\ x.copy \in Automation
                        /\ x.had \in BOOLEAN /\ x.dirty \subseteq {"status", "spec"}
  /\ \A x \in Deleting : x.at \in {"unschedule", "remove"}
  /\ \A x \in Repairing : /\ x.at \in {"upsert", "list", "recheck", "delete"}
                          /\ x.kept \in Specs \cup {NoSchedule} /\ x.clean \in BOOLEAN
<1>1. \A x \in Editing \cup Deleting \cup Repairing : x.at # "off"
  BY DEF Editing, Deleting, Repairing
<1> QED
  BY <1>1 DEF Resting, Editing, Deleting, Repairing

LEMMA WantedType ==
  ASSUME NEW a \in Automation
  PROVE  /\ Wanted(a) \in Specs \cup {NoSchedule} /\ Wants(a) \in BOOLEAN
         /\ Wants(a) => Wanted(a) \in Specs
         /\ ~Wants(a) => Wanted(a) = NoSchedule
BY DEF Automation, Wanted, Wants

(* A row that was saved has each column from one side or from the other; all  *)
(* of what was loaded when nothing changed between comparison and update.     *)
LEMMA SavedAutomation ==
  ASSUME NEW loaded \in Automation, NEW stored \in Automation,
         NEW dirty \in SUBSET {"status", "spec"}
  PROVE  /\ Saved(loaded, stored, dirty) \in Automation
         /\ Dirty(loaded, stored) \subseteq {"status", "spec"}
         /\ Saved(loaded, stored, Dirty(loaded, stored)) = loaded
<1> DEFINE Columns == {"status", "spec"}
<1>1. /\ DOMAIN stored = Columns /\ DOMAIN loaded = Columns
      /\ loaded = [c \in Columns |-> loaded[c]]
      /\ loaded["status"] \in {"ACTIVE", "PAUSED", "GONE"} /\ loaded["spec"] \in Specs
      /\ stored["status"] \in {"ACTIVE", "PAUSED", "GONE"} /\ stored["spec"] \in Specs
  BY DEF Automation
<1>2. ASSUME NEW d \in SUBSET Columns
      PROVE  Saved(loaded, stored, d) \in Automation
  <2> DEFINE new == [c \in Columns |-> IF c \in d THEN loaded[c] ELSE stored[c]]
  <2>1. Saved(loaded, stored, d) = new
    BY <1>1 DEF Saved
  <2>2. new["status"] \in {"ACTIVE", "PAUSED", "GONE"} /\ new["spec"] \in Specs
    BY <1>1
  <2>3. new = [status |-> new["status"], spec |-> new["spec"]]
    OBVIOUS
  <2> HIDE DEF new
  <2> QED
    BY <2>1, <2>2, <2>3 DEF Automation
<1>3. Dirty(loaded, stored) \subseteq Columns
  BY <1>1 DEF Dirty
<1>4. Saved(loaded, stored, Dirty(loaded, stored)) = [c \in Columns |-> loaded[c]]
  BY <1>1 DEF Saved, Dirty
<1> QED
  BY <1>1, <1>2, <1>3, <1>4

LEMMA DisturbedType ==
  ASSUME SyncTypeOK
  PROVE  /\ Disturbed \in [Boots -> {Resting} \cup Repairing]
         /\ \A b \in Boots : boot[b] = Resting => Disturbed[b] = Resting
         /\ \A b \in Boots : boot[b] # Resting =>
                /\ Disturbed[b] # Resting /\ Disturbed[b].clean = FALSE
                /\ Disturbed[b].at = boot[b].at /\ Disturbed[b].kept = boot[b].kept
<1>1. ASSUME NEW b \in Boots, boot[b] # Resting
      PROVE  /\ [boot[b] EXCEPT !.clean = FALSE] \in Repairing
             /\ [boot[b] EXCEPT !.clean = FALSE].clean = FALSE
             /\ [boot[b] EXCEPT !.clean = FALSE].at = boot[b].at
             /\ [boot[b] EXCEPT !.clean = FALSE].kept = boot[b].kept
  <2>1. boot[b] \in Repairing
    BY <1>1 DEF SyncTypeOK
  <2> QED
    BY <2>1 DEF Repairing
<1>2. \A b \in Boots : boot[b] # Resting => [boot[b] EXCEPT !.clean = FALSE] # Resting
  BY <1>1, PlaceKinds
<1> QED
  BY <1>1, <1>2 DEF Disturbed

LEMMA Drift == Idle \in BOOLEAN /\ \A d \in BOOLEAN : (d \/ ~Idle) \in BOOLEAN
BY DEF Idle

(* What every step has to show of the columns it changes. *)
LEMMA ChangeTypes ==
  ASSUME SyncTypeOK,
         UNCHANGED automation \/ automation' \in Automation,
         UNCHANGED schedule \/ schedule' \in Specs \cup {NoSchedule},
         UNCHANGED editor \/ (\E e \in Editors, x \in {Resting} \cup Editing \cup Deleting :
                                editor' = [editor EXCEPT ![e] = x]),
         UNCHANGED boot \/ boot' \in [Boots -> {Resting} \cup Repairing],
         UNCHANGED changes \/ changes' = changes + 1,
         UNCHANGED repairs \/ repairs' = repairs + 1,
         UNCHANGED slips \/ slips' = slips + 1,
         UNCHANGED drifted \/ drifted' \in BOOLEAN
  PROVE  SyncTypeOK'
<1>1. editor' \in [Editors -> {Resting} \cup Editing \cup Deleting]
  BY DEF SyncTypeOK
<1> QED
  BY <1>1 DEF SyncTypeOK

LEMMA SyncTypeStep ==
  ASSUME SyncTypeOK, [SyncNext]_syncVars
  PROVE  SyncTypeOK'
<1> USE DEF Slip
<1>1. ASSUME NEW e \in Editors, NEW to \in Automation, LoadForUpdate(e, to) PROVE SyncTypeOK'
  <2>1. [at |-> "sync", copy |-> to, had |-> Wants(automation), dirty |-> {}] \in Editing
    BY DEF Editing, Wants
  <2> QED
    <3>1. /\ UNCHANGED <<automation, schedule, repairs, slips>> /\ changes' = changes + 1
          /\ boot' \in [Boots -> {Resting} \cup Repairing]
          /\ drifted' \in BOOLEAN
      BY <1>1, Drift, DisturbedType DEF LoadForUpdate, SyncTypeOK
    <3>2. \E x \in {Resting} \cup Editing \cup Deleting : editor' = [editor EXCEPT ![e] = x]
      BY <1>1, <2>1 DEF LoadForUpdate
    <3> QED
      BY <3>1, <3>2, ChangeTypes
<1>2. ASSUME NEW e \in Editors, SyncSchedule(e) \/ SyncFails(e) PROVE SyncTypeOK'
  <2>1. editor[e] \in Editing
    BY <1>2, PlaceKinds DEF SyncTypeOK, SyncSchedule, SyncFails
  <2>2. [editor[e] EXCEPT !.at = "compare"] \in Editing
    BY <2>1 DEF Editing
  <2>3. Wanted(editor[e].copy) \in Specs \cup {NoSchedule}
    BY <2>1, PlaceKinds, WantedType
  <2>4. \E x \in {Resting} \cup Editing \cup Deleting : editor' = [editor EXCEPT ![e] = x]
    BY <1>2, <2>2 DEF SyncSchedule, SyncFails
  <2>5. /\ UNCHANGED <<automation, boot, changes, repairs>> /\ (UNCHANGED slips \/ slips' = slips + 1)
        /\ UNCHANGED schedule \/ schedule' \in Specs \cup {NoSchedule}
    BY <1>2, <2>3 DEF SyncSchedule, SyncFails
  <2>6. drifted' \in BOOLEAN
    BY <1>2 DEF SyncSchedule, SyncFails, SyncTypeOK
  <2> QED
    BY <2>4, <2>5, <2>6, ChangeTypes
<1>3. ASSUME NEW e \in Editors, CompareAutomation(e) PROVE SyncTypeOK'
  <2>1. editor[e] \in Editing /\ editor[e].copy \in Automation
    BY <1>3, PlaceKinds DEF SyncTypeOK, CompareAutomation
  <2>2. Dirty(editor[e].copy, automation) \subseteq {"status", "spec"}
    BY <2>1, SavedAutomation DEF SyncTypeOK
  <2>3. [editor[e] EXCEPT !.at = "save", !.dirty = Dirty(editor[e].copy, automation)] \in Editing
    BY <2>1, <2>2 DEF Editing
  <2> QED
    BY <1>3, <2>1, <2>3 DEF SyncTypeOK, CompareAutomation
<1>4. ASSUME NEW e \in Editors, SaveAutomation(e) PROVE SyncTypeOK'
  <2>1. editor[e] \in Editing /\ editor[e].copy \in Automation
        /\ editor[e].dirty \in SUBSET {"status", "spec"}
    BY <1>4, PlaceKinds DEF SyncTypeOK, SaveAutomation
  <2>2. Saved(editor[e].copy, automation, editor[e].dirty) \in Automation
    BY <2>1, SavedAutomation DEF SyncTypeOK
  <2> QED
    BY <1>4, <2>2 DEF SyncTypeOK, SaveAutomation
<1>5. ASSUME NEW e \in Editors, SaveFails(e) PROVE SyncTypeOK'
  BY <1>5 DEF SyncTypeOK, SaveFails
<1>6. ASSUME NEW e \in Editors, LoadForDelete(e) PROVE SyncTypeOK'
  <2>1. /\ UNCHANGED <<automation, schedule, repairs, slips>> /\ changes' = changes + 1
        /\ boot' \in [Boots -> {Resting} \cup Repairing]
        /\ drifted' \in BOOLEAN
    BY <1>6, Drift, DisturbedType DEF LoadForDelete, SyncTypeOK
  <2>2. [at |-> "unschedule"] \in Deleting
    BY DEF Deleting
  <2>3. \E x \in {Resting} \cup Editing \cup Deleting : editor' = [editor EXCEPT ![e] = x]
    BY <1>6, <2>2 DEF LoadForDelete
  <2> QED
    BY <2>1, <2>3, ChangeTypes
<1>7. ASSUME NEW e \in Editors, DeleteSchedule(e) \/ DeleteScheduleFails(e) PROVE SyncTypeOK'
  <2>1. editor[e] \in Deleting
    BY <1>7, PlaceKinds DEF SyncTypeOK, DeleteSchedule, DeleteScheduleFails
  <2>2. [editor[e] EXCEPT !.at = "remove"] \in Deleting
    BY <2>1 DEF Deleting
  <2> QED
    <3>1. \E x \in {Resting} \cup Editing \cup Deleting : editor' = [editor EXCEPT ![e] = x]
      BY <1>7, <2>2 DEF DeleteSchedule, DeleteScheduleFails
    <3>2. /\ UNCHANGED <<automation, boot, changes, repairs>> /\ (UNCHANGED slips \/ slips' = slips + 1)
          /\ UNCHANGED schedule \/ schedule' \in Specs \cup {NoSchedule}
      BY <1>7 DEF DeleteSchedule, DeleteScheduleFails
    <3>3. drifted' \in BOOLEAN
      BY <1>7 DEF DeleteSchedule, DeleteScheduleFails, SyncTypeOK
    <3> QED
      BY <3>1, <3>2, <3>3, ChangeTypes
<1>8. ASSUME NEW e \in Editors, RemoveAutomation(e) PROVE SyncTypeOK'
  <2>1. [automation EXCEPT !.status = "GONE"] \in Automation
    BY DEF SyncTypeOK, Automation
  <2> QED
    BY <1>8, <2>1 DEF SyncTypeOK, RemoveAutomation
<1>9. ASSUME NEW b \in Boots, FindActive(b) PROVE SyncTypeOK'
  <2>1. [at |-> IF Wants(automation) THEN "upsert" ELSE "list",
         kept |-> Wanted(automation), clean |-> Idle] \in Repairing
    BY WantedType DEF Repairing, SyncTypeOK, Idle
  <2> QED
    <3>1. drifted' \in BOOLEAN
      BY <1>9, Drift DEF FindActive, SyncTypeOK
    <3>2. boot' \in [Boots -> {Resting} \cup Repairing]
      BY <1>9, <2>1, DisturbedType DEF FindActive
    <3> QED
      BY <1>9, <3>1, <3>2, ChangeTypes DEF FindActive
<1>10. ASSUME NEW b \in Boots,
              UpsertActive(b) \/ ListSchedules(b) \/ Recheck(b) \/ DeleteOrphan(b) \/ RepairFails(b)
       PROVE  SyncTypeOK'
  <2>1. boot[b] \in Repairing
    BY <1>10, PlaceKinds
       DEF SyncTypeOK, UpsertActive, ListSchedules, Recheck, DeleteOrphan, RepairFails
  <2>2. /\ \A p \in {"list", "recheck", "delete"} : [boot[b] EXCEPT !.at = p] \in Repairing
        /\ [boot[b] EXCEPT !.at = "list", !.clean = FALSE] \in Repairing
        /\ boot[b].kept \in Specs \cup {NoSchedule} /\ boot[b].clean \in BOOLEAN
    BY <2>1 DEF Repairing
  <2>3. UpsertActive(b) => SyncTypeOK'
    BY <2>2 DEF SyncTypeOK, UpsertActive
  <2>4. ListSchedules(b) => SyncTypeOK'
    BY <2>2 DEF SyncTypeOK, ListSchedules, Repaired
  <2>5. Recheck(b) => SyncTypeOK'
    BY <2>2 DEF SyncTypeOK, Recheck, Repaired
  <2>6. DeleteOrphan(b) => SyncTypeOK'
    BY <2>2 DEF SyncTypeOK, DeleteOrphan, Repaired
  <2>7. RepairFails(b) => SyncTypeOK'
    BY <2>2 DEF SyncTypeOK, RepairFails
  <2> QED
    BY <1>10, <2>3, <2>4, <2>5, <2>6, <2>7
<1>11. ASSUME UNCHANGED syncVars PROVE SyncTypeOK'
  BY <1>11 DEF SyncTypeOK, syncVars
<1> QED
  BY <1>1, <1>2, <1>3, <1>4, <1>5, <1>6, <1>7, <1>8, <1>9, <1>10, <1>11
     DEF SyncNext, Change, Repair

--------------------------------------------------------------------------------
(* The row and its schedule *)

LEMMA BeginChange ==
  ASSUME SyncInv, NEW e \in Editors,
         (\E to \in Automation : LoadForUpdate(e, to)) \/ LoadForDelete(e)
  PROVE  AgreeInv'
<1>1. SyncTypeOK /\ AgreeInv /\ UNCHANGED <<automation, schedule>> /\ boot' = Disturbed
      /\ drifted' = (drifted \/ ~Idle) /\ editor[e] = Resting
  BY DEF SyncInv, LoadForUpdate, LoadForDelete
<1>2. PICK x \in Editing \cup Deleting :
          /\ editor' = [editor EXCEPT ![e] = x]
          /\ x.at \in {"sync", "unschedule"} /\ (x.at = "sync" => x.had = Wants(automation))
  <2>1. ASSUME NEW to \in Automation, LoadForUpdate(e, to)
        PROVE  [at |-> "sync", copy |-> to, had |-> Wants(automation), dirty |-> {}] \in Editing
    BY DEF Editing, Wants
  <2>2. [at |-> "unschedule"] \in Deleting
    BY DEF Deleting
  <2> QED
    BY <2>1, <2>2 DEF LoadForUpdate, LoadForDelete
<1>3. /\ editor'[e] = x /\ x # Resting /\ \A f \in Editors \ {e} : editor'[f] = editor[f]
  BY <1>1, <1>2, PlaceKinds DEF SyncTypeOK
<1>4. ASSUME ~drifted' PROVE Idle /\ ~drifted /\ boot' = boot
  <2>1. Idle /\ ~drifted
    BY <1>1, <1>4
  <2>2. \A b \in Boots : boot[b] = Resting
    BY <2>1 DEF Idle
  <2>3. boot \in [Boots -> {Resting} \cup Repairing]
    BY <1>1 DEF SyncTypeOK
  <2> QED
    BY <1>1, <2>1, <2>2, <2>3, DisturbedType DEF Disturbed
<1>5. ASSUME ~drifted'
      PROVE  (\A f \in Editors : ChangeInv(f)') /\ (EditorsRest' => schedule' = Wanted(automation)')
  <2>1. schedule = Wanted(automation) /\ \A f \in Editors : editor'[f] # Resting => f = e
    BY <1>1, <1>3, <1>4, <1>5 DEF AgreeInv, Idle, EditorsRest
  <2>2. BootsRest'
    BY <1>4, <1>5 DEF Idle, BootsRest
  <2>3. ChangeInv(e)'
    BY <1>1, <1>2, <1>3, <2>1, <2>2 DEF ChangeInv, Wanted, Wants
  <2>4. \A f \in Editors : ChangeInv(f)'
    BY <2>1, <2>3 DEF ChangeInv
  <2> QED
    BY <1>1, <2>1, <2>4 DEF Wanted, Wants
<1>6. ASSUME NEW b \in Boots PROVE RepairInv(b)'
  <2>1. boot'[b] # Resting => ~boot'[b].clean /\ drifted'
    BY <1>1, DisturbedType DEF Idle
  <2> QED
    BY <2>1 DEF RepairInv
<1> QED
  BY <1>5, <1>6 DEF AgreeInv

(* A step of a request that is already under way. *)
LEMMA GoOnChanging ==
  ASSUME SyncInv, NEW e \in Editors,
         SyncSchedule(e) \/ CompareAutomation(e) \/ SaveAutomation(e)
            \/ DeleteSchedule(e) \/ RemoveAutomation(e)
  PROVE  AgreeInv'
<1>1. /\ SyncTypeOK /\ AgreeInv /\ editor[e] \in Editing \cup Deleting /\ editor[e] # Resting
      /\ editor[e].at # "off"
  BY PlaceKinds
     DEF SyncInv, SyncTypeOK, SyncSchedule, CompareAutomation, SaveAutomation, DeleteSchedule,
         RemoveAutomation
<1>2. /\ UNCHANGED <<boot, drifted>>
      /\ \A f \in Editors \ {e} : editor'[f] = editor[f]
  BY <1>1 DEF SyncTypeOK, SyncSchedule, CompareAutomation, SaveAutomation, DeleteSchedule,
         RemoveAutomation
<1>3. ASSUME NEW b \in Boots PROVE RepairInv(b)'
  <2>1. boot[b] # Resting => drifted /\ ~boot[b].clean
    BY <1>1 DEF AgreeInv, RepairInv, EditorsRest
  <2> QED
    BY <1>2, <2>1 DEF RepairInv
<1>4. ASSUME ~drifted
      PROVE  (\A f \in Editors : ChangeInv(f)') /\ (EditorsRest' => schedule' = Wanted(automation)')
  <2>1. ChangeInv(e) /\ BootsRest' /\ \A f \in Editors \ {e} : editor'[f] = Resting
    BY <1>1, <1>2, <1>4 DEF AgreeInv, ChangeInv, BootsRest
  <2>2. CASE SyncSchedule(e)
    <3>1. /\ editor[e] \in Editing /\ editor'[e] = [editor[e] EXCEPT !.at = "compare"]
          /\ editor[e].copy \in Automation /\ automation' = automation
      BY <1>1, <2>2, PlaceKinds DEF SyncSchedule, SyncTypeOK
    <3>2. editor'[e].at = "compare" /\ editor'[e].copy = editor[e].copy /\ editor'[e] # Resting
      BY <3>1 DEF Editing, Resting
    <3>3. schedule' = Wanted(editor[e].copy)
      BY <1>1, <2>1, <2>2, <3>1, WantedType DEF SyncSchedule, ChangeInv, SyncTypeOK
    <3> QED
      BY <2>1, <3>2, <3>3 DEF ChangeInv, EditorsRest, Wanted, Wants
  <2>3. CASE CompareAutomation(e) /\ automation.status = "GONE"
    <3>1. /\ editor'[e] = Resting /\ automation' = editor[e].copy /\ schedule' = schedule
          /\ schedule = Wanted(editor[e].copy)
      BY <1>1, <2>1, <2>3 DEF CompareAutomation, SyncTypeOK, ChangeInv
    <3> QED
      BY <2>1, <3>1 DEF ChangeInv, EditorsRest, Wanted, Wants
  <2>4. CASE CompareAutomation(e) /\ automation.status # "GONE"
    <3> DEFINE x == [editor[e] EXCEPT !.at = "save", !.dirty = Dirty(editor[e].copy, automation)]
    <3>0. editor' = [editor EXCEPT ![e] = x]
      BY <2>4 DEF CompareAutomation
    <3>1. /\ editor[e] \in Editing /\ automation' = automation /\ schedule' = schedule
          /\ editor'[e] = x
          /\ editor[e].copy \in Automation /\ schedule = Wanted(editor[e].copy)
      <4> HIDE DEF x
      <4>1. editor[e].at = "compare" /\ automation' = automation /\ schedule' = schedule
        BY <2>4 DEF CompareAutomation
      <4>2. editor[e] \in Editing /\ editor[e].copy \in Automation
        BY <1>1, <4>1, PlaceKinds
      <4> QED
        BY <1>1, <2>1, <3>0, <4>1, <4>2 DEF SyncTypeOK, ChangeInv
    <3>2. /\ editor'[e].at = "save" /\ editor'[e].copy = editor[e].copy /\ editor'[e] # Resting
          /\ editor'[e].dirty = Dirty(editor[e].copy, automation)
      BY <3>1 DEF Editing, Resting
    <3>3. Saved(editor[e].copy, automation, Dirty(editor[e].copy, automation)) = editor[e].copy
      BY <1>1, <3>1, SavedAutomation DEF SyncTypeOK
    <3>4. ChangeInv(e)'
      BY <2>1, <2>4, <3>1, <3>2, <3>3 DEF ChangeInv, Wanted, Wants
    <3> QED
      BY <2>1, <3>2, <3>4 DEF ChangeInv, EditorsRest
  <2>5. CASE SaveAutomation(e)
    <3>1. /\ editor'[e] = Resting /\ schedule' = schedule
          /\ automation' = editor[e].copy /\ schedule = Wanted(editor[e].copy)
      BY <1>1, <2>1, <2>5 DEF SaveAutomation, SyncTypeOK, ChangeInv
    <3> QED
      BY <2>1, <3>1 DEF ChangeInv, EditorsRest, Wanted, Wants
  <2>6. CASE DeleteSchedule(e)
    <3>1. /\ editor[e] \in Deleting /\ editor'[e] = [editor[e] EXCEPT !.at = "remove"]
          /\ schedule' = NoSchedule
      BY <1>1, <2>6, PlaceKinds DEF DeleteSchedule, SyncTypeOK
    <3>2. editor'[e].at = "remove" /\ editor'[e] # Resting
      BY <3>1 DEF Deleting, Resting
    <3> QED
      BY <2>1, <3>1, <3>2 DEF ChangeInv, EditorsRest
  <2>7. CASE RemoveAutomation(e)
    <3>1. /\ editor'[e] = Resting /\ schedule' = NoSchedule /\ automation'.status = "GONE"
      BY <1>1, <2>1, <2>7 DEF RemoveAutomation, SyncTypeOK, ChangeInv, Automation
    <3> QED
      BY <2>1, <3>1 DEF ChangeInv, EditorsRest, Wanted, Wants
  <2> QED
    BY <2>2, <2>3, <2>4, <2>5, <2>6, <2>7
<1> QED
  BY <1>2, <1>3, <1>4 DEF AgreeInv

LEMMA FailToChange ==
  ASSUME SyncInv, NEW e \in Editors,
         SyncFails(e) \/ SaveFails(e) \/ DeleteScheduleFails(e)
  PROVE  AgreeInv'
<1>1. /\ SyncTypeOK /\ AgreeInv /\ editor[e] # Resting
  BY PlaceKinds DEF SyncInv, SyncFails, SaveFails, DeleteScheduleFails
<1>2. /\ UNCHANGED <<automation, boot>> /\ (drifted => drifted')
      /\ \A f \in Editors \ {e} : editor'[f] = editor[f]
      /\ editor'[e] = Resting
  BY <1>1 DEF SyncTypeOK, SyncFails, SaveFails, DeleteScheduleFails
<1>3. ASSUME NEW b \in Boots PROVE RepairInv(b)'
  <2>1. boot[b] # Resting => drifted /\ ~boot[b].clean
    BY <1>1 DEF AgreeInv, RepairInv, EditorsRest
  <2> QED
    BY <1>2, <2>1 DEF RepairInv
<1>4. ASSUME ~drifted'
      PROVE  (\A f \in Editors : ChangeInv(f)') /\ schedule' = Wanted(automation)'
  <2>1. ~drifted /\ schedule' = schedule /\ editor[e].at \in {"sync", "unschedule"}
    BY <1>2, <1>4 DEF SyncFails, SaveFails, DeleteScheduleFails
  <2>2. schedule = Wanted(automation) /\ \A f \in Editors \ {e} : editor'[f] = Resting
    BY <1>1, <1>2, <2>1 DEF AgreeInv, ChangeInv
  <2> QED
    BY <1>2, <2>1, <2>2 DEF ChangeInv, Wanted, Wants
<1> QED
  BY <1>3, <1>4 DEF AgreeInv

LEMMA BeginRepair ==
  ASSUME SyncInv, NEW b \in Boots, FindActive(b)
  PROVE  AgreeInv'
<1> DEFINE x == [at |-> IF Wants(automation) THEN "upsert" ELSE "list",
                 kept |-> Wanted(automation), clean |-> Idle]
<1>1. /\ SyncTypeOK /\ AgreeInv /\ UNCHANGED <<automation, schedule, editor>>
      /\ drifted' = (drifted \/ ~Idle) /\ boot' = [Disturbed EXCEPT ![b] = x] /\ boot[b] = Resting
  BY DEF SyncInv, FindActive
<1>2. /\ x.kept = Wanted(automation) /\ x.clean = Idle /\ x # Resting
      /\ x.at \notin {"recheck", "delete"}
      /\ x.at = "list" => x.kept = NoSchedule
  <2>1. x.kept = Wanted(automation) /\ x.clean = Idle
    OBVIOUS
  <2>2. x.at = IF Wants(automation) THEN "upsert" ELSE "list"
    OBVIOUS
  <2> QED
    BY <2>1, <2>2, <1>1, WantedType, PlaceKinds DEF SyncTypeOK
<1>3. boot'[b] = x /\ \A c \in Boots \ {b} : boot'[c] = Disturbed[c]
  BY <1>1, DisturbedType
<1> HIDE DEF x
<1>4. ASSUME ~drifted'
      PROVE  (\A f \in Editors : ChangeInv(f)') /\ (EditorsRest' => schedule' = Wanted(automation)')
  <2>1. Idle /\ ~drifted
    BY <1>1, <1>4
  <2> QED
    BY <1>1, <2>1 DEF Idle, AgreeInv, ChangeInv, EditorsRest, Wanted, Wants
<1>5. ASSUME NEW c \in Boots PROVE RepairInv(c)'
  <2>1. CASE Idle
    <3>1. /\ EditorsRest' /\ \A d \in Boots : boot'[d] # Resting => d = b
      BY <1>1, <1>3, <2>1, DisturbedType DEF Idle, EditorsRest
    <3> QED
      BY <1>1, <1>2, <1>3, <3>1 DEF RepairInv, Wanted, Wants
  <2>2. CASE ~Idle
    <3>1. drifted' /\ (boot'[c] # Resting => ~boot'[c].clean)
      BY <1>1, <1>2, <1>3, <2>2, DisturbedType
    <3> QED
      BY <3>1 DEF RepairInv
  <2> QED
    BY <2>1, <2>2
<1> QED
  BY <1>4, <1>5 DEF AgreeInv

(* What a step of a reconciliation that is under way has to show. *)
LEMMA RepairGoesOn ==
  ASSUME SyncInv, NEW b \in Boots, boot[b] # Resting,
         UNCHANGED <<automation, editor>>,
         boot' \in [Boots -> {Resting} \cup Repairing],
         \A c \in Boots \ {b} : boot'[c] = boot[c],
         boot'[b] # Resting =>
             /\ drifted' = drifted
             /\ boot'[b].kept = boot[b].kept /\ (boot'[b].clean => boot[b].clean)
             /\ boot'[b].at \in {"recheck", "delete"} /\ (boot[b].clean \/ ~drifted) =>
                    boot[b].kept = NoSchedule
             /\ boot'[b].clean /\ boot'[b].at = "list" => schedule' = boot[b].kept,
         drifted => drifted' \/ boot[b].clean,
         ~drifted \/ ~drifted' => schedule' = Wanted(automation)
  PROVE  AgreeInv'
<1>1. AgreeInv /\ RepairInv(b)
  BY DEF SyncInv, AgreeInv
<1>2. ASSUME ~drifted'
      PROVE  (\A f \in Editors : ChangeInv(f)') /\ (EditorsRest' => schedule' = Wanted(automation)')
  <2>1. EditorsRest'
    BY <1>1, <1>2 DEF RepairInv, EditorsRest
  <2> QED
    BY <1>2, <2>1 DEF ChangeInv, EditorsRest, Wanted, Wants
<1>3. ASSUME NEW c \in Boots \ {b}, boot'[c] # Resting
      PROVE  drifted' /\ ~boot[c].clean /\ drifted /\ ~boot[b].clean
  BY <1>1, <1>3 DEF AgreeInv, RepairInv
<1>4. ASSUME NEW c \in Boots \ {b} PROVE RepairInv(c)'
  BY <1>3 DEF RepairInv
<1>5. RepairInv(b)'
  <2> SUFFICES ASSUME boot'[b] # Resting, boot'[b].clean \/ ~drifted'
               PROVE  RepairInv(b)'
    BY DEF RepairInv
  <2>1. boot[b].clean \/ ~drifted
    OBVIOUS
  <2>2. EditorsRest' /\ boot'[b].kept = Wanted(automation)'
    BY <1>1, <2>1 DEF RepairInv, EditorsRest, Wanted, Wants
  <2>3. \A c \in Boots : boot'[c] # Resting => c = b
    BY <1>1, <2>1 DEF RepairInv
  <2> QED
    BY <2>1, <2>2, <2>3 DEF RepairInv
<1> QED
  BY <1>2, <1>4, <1>5 DEF AgreeInv

LEMMA GoOnRepairing ==
  ASSUME SyncInv, SyncTypeOK', NEW b \in Boots,
         UpsertActive(b) \/ ListSchedules(b) \/ Recheck(b) \/ DeleteOrphan(b) \/ RepairFails(b)
  PROVE  AgreeInv'
<1> DEFINE next(p) == [boot[b] EXCEPT !.at = p]
           failed == [boot[b] EXCEPT !.at = "list", !.clean = FALSE]
<1>1. /\ SyncTypeOK /\ boot[b] \in Repairing /\ boot[b] # Resting /\ RepairInv(b)
      /\ ~drifted => schedule = Wanted(automation)
  <2>1. boot[b] \in Repairing /\ boot[b] # Resting
    BY PlaceKinds
       DEF SyncInv, SyncTypeOK, UpsertActive, ListSchedules, Recheck, DeleteOrphan, RepairFails
  <2>2. RepairInv(b)
    BY DEF SyncInv, AgreeInv
  <2> QED
    BY <2>1, <2>2 DEF SyncInv, AgreeInv, RepairInv
<1>2. ASSUME NEW p \in {"list", "recheck", "delete"}
      PROVE  /\ next(p).kept = boot[b].kept /\ next(p).clean = boot[b].clean /\ next(p).at = p
  BY <1>1 DEF Repairing
<1>3. failed.kept = boot[b].kept /\ failed.clean = FALSE /\ failed.at = "list"
  BY <1>1 DEF Repairing
<1>4. ASSUME NEW x, boot' = [boot EXCEPT ![b] = x]
      PROVE  boot'[b] = x /\ \A c \in Boots \ {b} : boot'[c] = boot[c]
  BY <1>1, <1>4 DEF SyncTypeOK
<1>5. boot' \in [Boots -> {Resting} \cup Repairing]
  BY DEF SyncTypeOK
<1> HIDE DEF next, failed
<1>6. CASE UpsertActive(b)
  <2>1. /\ UNCHANGED <<automation, editor, drifted>> /\ schedule' = boot[b].kept
        /\ boot' = [boot EXCEPT ![b] = next("list")]
    BY <1>6 DEF UpsertActive, next
  <2>2. boot'[b] = next("list") /\ \A c \in Boots \ {b} : boot'[c] = boot[c]
    BY <1>4, <2>1
  <2>3. ~drifted => schedule' = Wanted(automation)
    BY <1>1, <2>1 DEF RepairInv
  <2> QED
    BY <1>1, <1>2, <1>5, <2>1, <2>2, <2>3, RepairGoesOn
<1>7. CASE ListSchedules(b)
  <2>1. /\ UNCHANGED <<automation, editor, schedule>> /\ boot[b].at = "list"
        /\ \/ /\ boot' = [boot EXCEPT ![b] = Resting]
              /\ schedule = NoSchedule \/ boot[b].kept # NoSchedule
              /\ drifted' = (drifted /\ ~boot[b].clean)
           \/ /\ boot' = [boot EXCEPT ![b] = next("recheck")]
              /\ boot[b].kept = NoSchedule /\ drifted' = drifted
    BY <1>7 DEF ListSchedules, Repaired, next
  <2>2. ~drifted \/ ~drifted' => schedule' = Wanted(automation)
    BY <1>1, <2>1 DEF RepairInv
  <2>3. \A c \in Boots \ {b} : boot'[c] = boot[c]
    BY <1>4, <2>1
  <2>4. \/ boot'[b] = Resting
        \/ boot'[b] = next("recheck") /\ drifted' = drifted /\ boot[b].kept = NoSchedule
    BY <1>4, <2>1
  <2>5. drifted => drifted' \/ boot[b].clean
    BY <2>1
  <2> QED
    BY <1>1, <1>2, <1>5, <2>1, <2>2, <2>3, <2>4, <2>5, RepairGoesOn
<1>8. CASE Recheck(b)
  <2>1. /\ UNCHANGED <<automation, editor, schedule>> /\ boot[b].at = "recheck"
        /\ \/ /\ boot' = [boot EXCEPT ![b] = Resting]
              /\ automation.status = "ACTIVE"
              /\ drifted' = (drifted /\ ~boot[b].clean)
           \/ boot' = [boot EXCEPT ![b] = next("delete")] /\ drifted' = drifted
    BY <1>8 DEF Recheck, Repaired, next, Wants
  <2>2. boot[b].clean \/ ~drifted => boot[b].kept = NoSchedule /\ automation.status # "ACTIVE"
    BY <1>1, <2>1, WantedType DEF RepairInv, SyncTypeOK, Wants
  <2>3. \A c \in Boots \ {b} : boot'[c] = boot[c]
    BY <1>4, <2>1
  <2>4. boot'[b] = Resting \/ (boot'[b] = next("delete") /\ drifted' = drifted)
    BY <1>4, <2>1
  <2>5. drifted => drifted' \/ boot[b].clean
    BY <2>1
  <2>6. ~drifted \/ ~drifted' => schedule' = Wanted(automation)
    BY <1>1, <2>1, <2>2, WantedType DEF Wants, SyncTypeOK
  <2> QED
    BY <1>1, <1>2, <1>5, <2>1, <2>2, <2>3, <2>4, <2>5, <2>6, RepairGoesOn
<1>9. CASE DeleteOrphan(b)
  <2>1. /\ UNCHANGED <<automation, editor>> /\ boot[b].at = "delete" /\ schedule' = NoSchedule
        /\ boot' = [boot EXCEPT ![b] = Resting] /\ drifted' = (drifted /\ ~boot[b].clean)
    BY <1>9 DEF DeleteOrphan, Repaired
  <2>2. boot'[b] = Resting /\ \A c \in Boots \ {b} : boot'[c] = boot[c]
    BY <1>4, <2>1
  <2>3. ~drifted \/ ~drifted' => schedule' = Wanted(automation)
    BY <1>1, <2>1 DEF RepairInv
  <2>4. drifted => drifted' \/ boot[b].clean
    BY <2>1
  <2> QED
    BY <1>1, <1>5, <2>1, <2>2, <2>3, <2>4, RepairGoesOn
<1>10. CASE RepairFails(b)
  <2>1. /\ UNCHANGED <<automation, editor, schedule, drifted>>
        /\ boot' = [boot EXCEPT ![b] = Resting] \/ boot' = [boot EXCEPT ![b] = failed]
    BY <1>10 DEF RepairFails, failed
  <2>2. boot'[b] = Resting \/ boot'[b] = failed
    BY <1>4, <2>1
  <2>3. \A c \in Boots \ {b} : boot'[c] = boot[c]
    BY <1>4, <2>1
  <2> QED
    BY <1>1, <1>3, <1>5, <2>1, <2>2, <2>3, RepairGoesOn
<1> QED
  BY <1>6, <1>7, <1>8, <1>9, <1>10

LEMMA SyncInvInit == SyncInit => SyncInv
<1> SUFFICES ASSUME SyncInit PROVE SyncInv
  OBVIOUS
<1>1. automation \in Automation /\ automation.status = "PAUSED"
  BY DEF SyncInit, Automation
<1>2. SyncTypeOK
  BY <1>1 DEF SyncInit, SyncTypeOK
<1>3. AgreeInv
  BY <1>1 DEF SyncInit, AgreeInv, ChangeInv, RepairInv, EditorsRest, Wanted, Wants
<1> QED
  BY <1>2, <1>3 DEF SyncInv

LEMMA SyncInvStep == SyncInv /\ [SyncNext]_syncVars => SyncInv'
<1> SUFFICES ASSUME SyncInv, [SyncNext]_syncVars PROVE SyncInv'
  OBVIOUS
<1>1. SyncTypeOK'
  BY SyncTypeStep DEF SyncInv
<1>2. ASSUME NEW e \in Editors, Change(e) PROVE AgreeInv'
  BY <1>2, BeginChange, GoOnChanging, FailToChange DEF Change
<1>3. ASSUME NEW b \in Boots, Repair(b) PROVE AgreeInv'
  BY <1>1, <1>3, BeginRepair, GoOnRepairing DEF Repair
<1>4. CASE UNCHANGED syncVars
  <2>1. (EditorsRest' <=> EditorsRest) /\ (BootsRest' <=> BootsRest) /\ Wanted(automation)' = Wanted(automation)
    BY <1>4 DEF EditorsRest, BootsRest, Wanted, Wants, syncVars
  <2>2. \A e \in Editors : ChangeInv(e) => ChangeInv(e)'
    BY <1>4, <2>1 DEF ChangeInv, Wanted, Wants, syncVars
  <2>3. \A b \in Boots : RepairInv(b) => RepairInv(b)'
    BY <1>4, <2>1 DEF RepairInv, syncVars
  <2>4. (drifted' <=> drifted) /\ schedule' = schedule
    BY <1>4 DEF syncVars
  <2> QED
    <3>1. ASSUME NEW b \in Boots PROVE RepairInv(b)'
      BY <2>3 DEF SyncInv, AgreeInv
    <3>2. ASSUME ~drifted'
          PROVE  /\ \A e \in Editors : ChangeInv(e)'
                 /\ EditorsRest' => schedule' = Wanted(automation)'
      BY <2>1, <2>2, <2>4, <3>2 DEF SyncInv, AgreeInv
    <3> QED
      BY <1>1, <3>1, <3>2 DEF SyncInv, AgreeInv
<1> QED
  BY <1>1, <1>2, <1>3, <1>4 DEF SyncNext, SyncInv

LEMMA SyncAlways == SyncSpec => []SyncInv
BY SyncInvInit, SyncInvStep, PTL DEF SyncSpec

(* The row, the schedule and what requests and reconciliations hold keep      *)
(* their types.                                                               *)
THEOREM SyncTypeCorrect == SyncSpec => []SyncTypeOK
<1>1. SyncInv => SyncTypeOK
  BY DEF SyncInv
<1> QED
  BY <1>1, SyncAlways, PTL

(* With nobody at work, the schedule is what the row asks for, unless         *)
(* requests met or a step failed and nobody has reconciled undisturbed since: *)
(* for any number of requests and of processes that reconcile.                *)
THEOREM ScheduleFollows == SyncSpec => []ScheduleTellsRow
<1>1. SyncInv => ScheduleTellsRow
  BY DEF SyncInv, AgreeInv, ScheduleTellsRow, Idle, EditorsRest
<1> QED
  BY <1>1, SyncAlways, PTL

--------------------------------------------------------------------------------
(* The runs of a tick or a webhook *)

USE TriggersAssumption

(* Calls that have a row of their key in hand. *)
Armed == {"release", "start", "started", "failed"}
Old(i) == day - recorded[i].since >= Window
CallInv(x) ==
    /\ x.at \in Armed => /\ x.row \in Execs /\ recorded[x.row].asked = x.key
                         /\ x.at = "release" => Old(x.row)
    /\ x.at # "off" /\ x.awaited => slot \in Slots

(* A row loses its key, if at all, when its window is over. *)
KeyInv ==
    /\ day \in 0..LastDay /\ recorded \in Seq(Exec)
    /\ begun \in Seq({0, 1}) /\ Len(begun) = Len(recorded)
    /\ call \in [Callers -> {Off} \cup Call] /\ slot \in 0..LastSlot
    /\ tick = "due" => slot \in Slots
    /\ \A i \in Execs : /\ recorded[i].since <= day
                        /\ recorded[i].key \in {recorded[i].asked, NoKey}
                        /\ recorded[i].key = NoKey => Old(i)
    /\ \A c \in Callers : CallInv(call[c])
    /\ \A i, j \in Execs : i < j /\ recorded[i].asked = recorded[j].asked =>
           recorded[j].since - recorded[i].since >= Window

--------------------------------------------------------------------------------
(* Types *)

LEMMA CallKinds ==
  /\ Off \notin Call /\ Off.at = "off"
  /\ \A x \in Call : /\ x.key \in TriggerKeys /\ x.row \in Nat /\ x.awaited \in BOOLEAN
                     /\ x.at \in {"check", "describe", "find", "release", "insert", "reread",
                                 "start", "started", "failed"}
BY DEF Off, Call

LEMMA KeyKinds ==
  /\ NoKey \notin TriggerKeys /\ SenderKeys \subseteq TriggerKeys /\ Slots \subseteq TriggerKeys
  /\ TriggerKeys \subseteq Nat /\ Slots \subseteq Nat
BY DEF TriggerKeys, Slots, NoKey

LEMMA RowKinds ==
  \A r \in Exec : /\ r.key \in TriggerKeys \cup {NoKey} /\ r.asked \in TriggerKeys
                  /\ r.named \in BOOLEAN /\ r.since \in 0..LastDay /\ r.since \in Nat
BY DEF Exec

LEMMA RowFacts ==
  ASSUME recorded \in Seq(Exec)
  PROVE  /\ Execs = 1..Len(recorded) /\ Len(recorded) \in Nat
         /\ \A i \in Execs : recorded[i] \in Exec
  BY DEF Execs

(* The greatest of a range: the least distance from its end. *)
LEMMA MaxIsIn ==
  ASSUME NEW n \in Nat, NEW S \in SUBSET (1..n), S # {}
  PROVE  Max(S) \in S
<1> DEFINE T == {n - x : x \in S}
           R == OpToRel(<, Nat)
<1>1. T \subseteq Nat /\ T # {}
  <2>1. \A x \in S : n - x \in Nat
    OBVIOUS
  <2>2. PICK x \in S : TRUE
    OBVIOUS
  <2>3. n - x \in T
    BY <2>2
  <2> QED
    BY <2>1, <2>3
<1>2. PICK t \in T : \A u \in T : ~(<<u, t>> \in R)
  <2> HIDE DEF T, R
  <2>1. IsWellFoundedOn(R, Nat)
    BY NatLessThanWellFounded DEF R
  <2> QED
    BY <1>1, <2>1, WFMin
<1>3. \A u \in T : u < t => <<u, t>> \in R
  BY <1>1 DEF OpToRel
<1>4. PICK x \in S : t = n - x
  OBVIOUS
<1>5. \A y \in S : x >= y
  <2> SUFFICES ASSUME NEW y \in S, x < y PROVE FALSE
    OBVIOUS
  <2>1. n - y \in T /\ n - y < t
    BY <1>4
  <2> QED
    BY <1>2, <1>3, <2>1
<1> QED
  BY <1>5 DEF Max

LEMMA LatestIsRow ==
  ASSUME recorded \in Seq(Exec), Scheduled # {}
  PROVE  Latest \in Execs /\ Latest \in Nat
<1>1. Len(recorded) \in Nat /\ Scheduled \in SUBSET (1..Len(recorded))
  BY RowFacts DEF Scheduled
<1>2. Latest \in Scheduled
  BY <1>1, MaxIsIn DEF Latest
<1> QED
  BY <1>1, <1>2 DEF Scheduled

--------------------------------------------------------------------------------
(* Steps *)

(* A caller moves on and the rows stay. *)
LEMMA CallMoves ==
  ASSUME KeyInv, NEW c \in Callers, NEW x \in {Off} \cup Call, CallInv(x),
         call' = [call EXCEPT ![c] = x],
         UNCHANGED <<day, recorded, slot>>,
         begun' \in Seq({0, 1}) /\ Len(begun') = Len(recorded),
         tick' \in {"closed", "waiting"} \/ UNCHANGED tick \/ slot \in Slots
  PROVE  KeyInv'
<1>1. ASSUME NEW d \in Callers PROVE CallInv(call[d])'
  <2>1. call'[d] = x \/ (call'[d] = call[d] /\ CallInv(call[d]))
    BY DEF KeyInv
  <2> QED
    BY <2>1 DEF CallInv, Execs, Old
<1>2. call' \in [Callers -> {Off} \cup Call]
  BY DEF KeyInv
<1>3. tick' = "due" => slot' \in Slots
  BY DEF KeyInv
<1> QED
  BY <1>1, <1>2, <1>3 DEF KeyInv, Execs, Old

(* A caller rewrites the key of the row in its hand. *)
LEMMA RowMoves ==
  ASSUME KeyInv, NEW c \in Callers, NEW x \in {Off} \cup Call, CallInv(x),
         call' = [call EXCEPT ![c] = x],
         NEW i \in Execs, NEW k \in TriggerKeys \cup {NoKey}, NEW n \in BOOLEAN,
         recorded' = [recorded EXCEPT ![i] = [key |-> k, asked |-> recorded[i].asked, named |-> n,
                                              since |-> recorded[i].since]],
         k \in {recorded[i].asked, NoKey}, k = NoKey => Old(i),
         UNCHANGED <<day, begun, slot>>,
         tick' \in {"closed", "waiting"} \/ UNCHANGED tick \/ slot \in Slots
  PROVE  KeyInv'
<1> DEFINE r == [key |-> k, asked |-> recorded[i].asked, named |-> n, since |-> recorded[i].since]
<1>1. /\ r \in Exec /\ r.asked = recorded[i].asked /\ r.since = recorded[i].since /\ r.key = k
      /\ recorded \in Seq(Exec)
  BY RowKinds, RowFacts DEF KeyInv, Exec
<1> HIDE DEF r
<1>2. /\ recorded' \in Seq(Exec) /\ Len(recorded') = Len(recorded) /\ Execs' = Execs
      /\ recorded'[i] = r /\ \A j \in Execs \ {i} : recorded'[j] = recorded[j]
  BY <1>1, RowFacts DEF Execs, r
<1>3. \A j \in Execs : /\ recorded'[j].asked = recorded[j].asked
                       /\ recorded'[j].since = recorded[j].since
  BY <1>1, <1>2
<1>4. ASSUME NEW j \in Execs
      PROVE  recorded'[j].key \in {recorded'[j].asked, NoKey} /\ (recorded'[j].key = NoKey => Old(j)')
  BY <1>1, <1>2, <1>3 DEF KeyInv, Old
<1>5. ASSUME NEW d \in Callers PROVE CallInv(call[d])'
  <2>1. call'[d] = x \/ (call'[d] = call[d] /\ CallInv(call[d]))
    BY DEF KeyInv
  <2>2. \A j \in Execs : Old(j)' <=> Old(j)
    BY <1>3 DEF Old
  <2>3. CASE call'[d] = x
    BY <1>2, <1>3, <2>2, <2>3 DEF CallInv
  <2>4. CASE call'[d] = call[d] /\ CallInv(call[d])
    BY <1>2, <1>3, <2>2, <2>4 DEF CallInv
  <2> QED
    BY <2>1, <2>3, <2>4
<1>6. call' \in [Callers -> {Off} \cup Call]
  BY DEF KeyInv
<1>7. tick' = "due" => slot' \in Slots
  BY DEF KeyInv
<1>8. \A j \in Execs : recorded'[j].since <= day
  BY <1>3 DEF KeyInv
<1>9. \A j, l \in Execs : j < l /\ recorded'[j].asked = recorded'[l].asked =>
         recorded'[l].since - recorded'[j].since >= Window
  BY <1>3 DEF KeyInv
<1>10. day' \in 0..LastDay /\ begun' \in Seq({0, 1}) /\ Len(begun') = Len(recorded') /\ slot' \in 0..LastSlot
  BY <1>2 DEF KeyInv
<1> QED
  BY <1>2, <1>4, <1>5, <1>6, <1>7, <1>8, <1>9, <1>10 DEF KeyInv

LEMMA InsertMoves ==
  ASSUME KeyInv, NEW c \in Callers, NEW x \in Call, call' = [call EXCEPT ![c] = x],
         Under(x.key) = {}, x.at = "start", x.row = Len(recorded) + 1,
         x.awaited => slot \in Slots,
         recorded' = Append(recorded, [key |-> x.key, asked |-> x.key, named |-> FALSE, since |-> day]),
         begun' = Append(begun, 0), UNCHANGED <<day, slot, tick>>
  PROVE  KeyInv'
<1> DEFINE r == [key |-> x.key, asked |-> x.key, named |-> FALSE, since |-> day]
           n == Len(recorded) + 1
<1>1. /\ r \in Exec /\ r.key = x.key /\ r.asked = x.key /\ r.since = day
      /\ recorded \in Seq(Exec) /\ begun \in Seq({0, 1}) /\ day \in Nat /\ x.key \in TriggerKeys
      /\ day \in 0..LastDay
  BY CallKinds DEF KeyInv, Exec
<1> HIDE DEF r
<1>2. /\ recorded' \in Seq(Exec) /\ Len(recorded') = n /\ n \in Nat
      /\ recorded'[n] = r /\ \A j \in Execs : recorded'[j] = recorded[j]
  BY <1>1, RowFacts DEF r
<1>3. /\ Execs' = Execs \cup {n} /\ \A j \in Execs : j < n /\ j \in Nat
  BY <1>1, <1>2, RowFacts DEF Execs
<1>4. begun' \in Seq({0, 1}) /\ Len(begun') = n
  BY <1>1 DEF KeyInv
<1>5. ASSUME NEW j \in Execs, recorded[j].asked = x.key PROVE day - recorded[j].since >= Window
  <2>1. recorded[j].key # x.key
    BY DEF Under
  <2> QED
    BY <1>5, <2>1 DEF KeyInv, Old
<1>6. ASSUME NEW j \in Execs'
      PROVE  /\ recorded'[j].since <= day'
             /\ recorded'[j].key \in {recorded'[j].asked, NoKey}
             /\ recorded'[j].key = NoKey => Old(j)'
  <2>1. CASE j = n
    BY <1>1, <1>2, <2>1, KeyKinds
  <2>2. CASE j \in Execs
    BY <1>2, <2>2 DEF KeyInv, Old
  <2> QED
    BY <1>3, <2>1, <2>2
<1>7. ASSUME NEW i \in Execs', NEW j \in Execs', i < j, recorded'[i].asked = recorded'[j].asked
      PROVE  recorded'[j].since - recorded'[i].since >= Window
  <2>1. i \in Execs
    BY <1>2, <1>3, <1>7
  <2>2. CASE j = n
    BY <1>1, <1>2, <1>5, <1>7, <2>1, <2>2
  <2>3. CASE j \in Execs
    BY <1>2, <1>7, <2>1, <2>3 DEF KeyInv
  <2> QED
    BY <1>3, <2>2, <2>3
<1>8. ASSUME NEW d \in Callers PROVE CallInv(call[d])'
  <2>1. call'[d] = x \/ (call'[d] = call[d] /\ CallInv(call[d]))
    BY DEF KeyInv
  <2>2. CASE call'[d] = x
    BY <1>1, <1>2, <1>3, <2>2 DEF CallInv
  <2>3. CASE call'[d] = call[d] /\ CallInv(call[d])
    <3>0. call'[d].at # "off" /\ call'[d].awaited => slot' \in Slots
      BY <2>3 DEF CallInv, Slots
    <3> SUFFICES ASSUME call[d].at \in Armed
                 PROVE  /\ call[d].row \in Execs' /\ recorded'[call[d].row].asked = call[d].key
                        /\ call[d].at = "release" => Old(call[d].row)'
      BY <2>3, <3>0 DEF CallInv, Old
    <3>1. call[d].row \in Execs /\ recorded'[call[d].row] = recorded[call[d].row]
      BY <1>2, <2>3 DEF CallInv
    <3> QED
      BY <1>3, <2>3, <3>1 DEF CallInv, Old
  <2> QED
    BY <2>1, <2>2, <2>3
<1>9. call' \in [Callers -> {Off} \cup Call] /\ slot' \in 0..LastSlot /\ (tick' = "due" => slot' \in Slots)
  BY DEF KeyInv
<1> QED
  BY <1>1, <1>2, <1>4, <1>6, <1>7, <1>8, <1>9 DEF KeyInv

(* The call is over; a failed attempt may be due again. *)
LEMMA CallEnds ==
  ASSUME KeyInv, NEW c \in Callers, call[c] # Off, Succeed(c) \/ Fail(c),
         UNCHANGED <<day, recorded, begun, slot>>
  PROVE  KeyInv'
<1>1. CallInv(Off) /\ call' = [call EXCEPT ![c] = Off]
  BY CallKinds DEF CallInv, Armed, Succeed, Fail
<1>2. begun' \in Seq({0, 1}) /\ Len(begun') = Len(recorded)
  BY DEF KeyInv
<1>3. call[c].awaited => slot \in Slots
  <2>1. call[c].at # "off" /\ CallInv(call[c])
    BY CallKinds DEF KeyInv
  <2> QED
    BY <2>1 DEF CallInv
<1>4. tick' \in {"closed", "waiting"} \/ UNCHANGED tick \/ slot \in Slots
  BY <1>3 DEF Succeed, Fail
<1> QED
  BY <1>1, <1>2, <1>4, CallMoves

LEMMA AttemptSteps ==
  ASSUME KeyInv, NEW c \in Callers,
         BeginAttempt(c) \/ AttemptTimesOut(c) \/ \E k \in SenderKeys : ReceiveWebhook(c, k)
  PROVE  KeyInv'
<1>1. /\ begun' \in Seq({0, 1}) /\ Len(begun') = Len(recorded) /\ UNCHANGED <<day, recorded, slot>>
  BY DEF KeyInv, BeginAttempt, AttemptTimesOut, ReceiveWebhook, execVars, tickVars
<1>2. CASE BeginAttempt(c)
  <2> DEFINE x == [at |-> "check", key |-> slot, row |-> 0, awaited |-> TRUE]
  <2>1. slot \in Slots
    BY <1>2 DEF BeginAttempt, KeyInv
  <2>2. x \in Call /\ CallInv(x)
    BY <2>1, KeyKinds DEF Call, CallInv, Armed
  <2>3. call' = [call EXCEPT ![c] = x] /\ tick' = "waiting"
    BY <1>2 DEF BeginAttempt
  <2> HIDE DEF x
  <2> QED
    BY <1>1, <2>2, <2>3, CallMoves
<1>3. CASE AttemptTimesOut(c)
  <2> DEFINE x == [call[c] EXCEPT !.awaited = FALSE]
  <2>1. call[c] \in Call /\ CallInv(call[c])
    BY <1>3, CallKinds DEF AttemptTimesOut, KeyInv
  <2>2. x \in Call /\ x.at = call[c].at /\ x.key = call[c].key /\ x.row = call[c].row /\ x.awaited = FALSE
    BY <2>1 DEF Call
  <2>3. call' = [call EXCEPT ![c] = x]
    BY <1>3 DEF AttemptTimesOut
  <2>4. slot \in Slots
    BY <1>3, <2>1, CallKinds DEF AttemptTimesOut, CallInv
  <2> HIDE DEF x
  <2>5. CallInv(x)
    BY <2>1, <2>2 DEF CallInv
  <2> QED
    BY <1>1, <2>2, <2>3, <2>4, <2>5, CallMoves
<1>4. ASSUME NEW k \in SenderKeys, ReceiveWebhook(c, k) PROVE KeyInv'
  <2> DEFINE x == [at |-> "find", key |-> k, row |-> 0, awaited |-> FALSE]
  <2>1. x \in Call /\ CallInv(x)
    BY KeyKinds DEF Call, CallInv, Armed
  <2>2. call' = [call EXCEPT ![c] = x] /\ UNCHANGED tick
    BY <1>4 DEF ReceiveWebhook, tickVars
  <2> HIDE DEF x
  <2> QED
    BY <1>1, <2>1, <2>2, CallMoves
<1> QED
  BY <1>2, <1>3, <1>4

(* The call goes on without a row of its own, or with one it has just found.  *)
LEMMA CallGoesOn ==
  ASSUME KeyInv, NEW c \in Callers, call[c] # Off,
         NEW p \in {"check", "describe", "find", "release", "insert", "reread", "start",
                   "started", "failed"}, NEW i \in Nat,
         \/ To(c, p) /\ i = call[c].row
         \/ With(c, p, i),
         p \in Armed => /\ i \in Execs /\ recorded[i].asked = call[c].key
                        /\ p = "release" => Old(i),
         UNCHANGED <<day, recorded, slot, tick>>,
         begun' \in Seq({0, 1}) /\ Len(begun') = Len(recorded)
  PROVE  KeyInv'
<1>1. call[c] \in Call /\ CallInv(call[c]) /\ call[c].at # "off"
  BY CallKinds DEF KeyInv
<1>2. PICK x \in Call : /\ call' = [call EXCEPT ![c] = x] /\ x.at = p /\ x.key = call[c].key
                        /\ x.row = i /\ x.awaited = call[c].awaited
  <2>1. /\ [call[c] EXCEPT !.at = p] \in Call /\ [call[c] EXCEPT !.at = p].at = p
        /\ [call[c] EXCEPT !.at = p].key = call[c].key /\ [call[c] EXCEPT !.at = p].row = call[c].row
        /\ [call[c] EXCEPT !.at = p].awaited = call[c].awaited
    BY <1>1 DEF Call
  <2>2. /\ [call[c] EXCEPT !.at = p, !.row = i] \in Call /\ [call[c] EXCEPT !.at = p, !.row = i].at = p
        /\ [call[c] EXCEPT !.at = p, !.row = i].key = call[c].key
        /\ [call[c] EXCEPT !.at = p, !.row = i].row = i
        /\ [call[c] EXCEPT !.at = p, !.row = i].awaited = call[c].awaited
    BY <1>1 DEF Call
  <2>3. \/ call' = [call EXCEPT ![c] = [call[c] EXCEPT !.at = p]] /\ i = call[c].row
        \/ call' = [call EXCEPT ![c] = [call[c] EXCEPT !.at = p, !.row = i]]
    BY DEF To, With
  <2> QED
    BY <2>1, <2>2, <2>3
<1>3. CallInv(x)
  BY <1>1, <1>2 DEF CallInv
<1> QED
  BY <1>2, <1>3, CallMoves

LEMMA Holds ==
  ASSUME KeyInv, NEW c \in Callers, call[c] # Off, NEW i \in Under(call[c].key),
         Hold(c, i), UNCHANGED <<day, recorded, begun, slot>>
  PROVE  KeyInv'
<1>1. i \in Execs /\ i \in Nat /\ recorded[i].asked = call[c].key
  <2>1. i \in Execs /\ recorded[i].key = call[c].key
    BY DEF Under
  <2>2. call[c].key # NoKey
    BY CallKinds, KeyKinds DEF KeyInv
  <2> QED
    BY <2>1, <2>2, RowFacts DEF KeyInv
<1>2. begun' \in Seq({0, 1}) /\ Len(begun') = Len(recorded)
  BY DEF KeyInv
<1>3. CASE Succeed(c)
  BY <1>3, CallEnds
<1>4. CASE With(c, "start", i) /\ UNCHANGED tick
  BY <1>1, <1>2, <1>4, CallGoesOn DEF Armed
<1> QED
  BY <1>3, <1>4 DEF Hold

LEMMA LookSteps ==
  ASSUME KeyInv, NEW c \in Callers,
         CheckPrevious(c) \/ Describe(c) \/ FindKeyed(c) \/ ReadRaced(c) \/ Breaks(c)
  PROVE  KeyInv'
<1>1. /\ call[c] # Off /\ UNCHANGED <<day, recorded, begun, slot>>
      /\ begun' \in Seq({0, 1}) /\ Len(begun') = Len(recorded)
  BY CallKinds
     DEF KeyInv, CheckPrevious, Describe, FindKeyed, ReadRaced, Breaks, execVars, tickVars
<1>2. call[c] \in Call /\ call[c].row \in Nat
  BY <1>1, CallKinds DEF KeyInv
<1>3. CASE CheckPrevious(c)
  <2>1. UNCHANGED tick
    BY <1>3 DEF CheckPrevious, tickVars
  <2>2. CASE To(c, "find")
    BY <1>1, <1>2, <2>1, <2>2, CallGoesOn DEF Armed
  <2>3. CASE /\ Scheduled # {}
             /\ With(c, "describe", IF recorded[Latest].named THEN Latest ELSE 0)
    <3> DEFINE i == IF recorded[Latest].named THEN Latest ELSE 0
    <3>1. i \in Nat
      BY <2>3, LatestIsRow DEF KeyInv
    <3> HIDE DEF i
    <3>2. With(c, "describe", i)
      BY <2>3 DEF i
    <3> QED
      BY <1>1, <2>1, <3>1, <3>2, CallGoesOn DEF Armed
  <2> QED
    BY <1>3, <2>2, <2>3 DEF CheckPrevious
<1>4. CASE Describe(c)
  <2>1. CASE Succeed(c)
    BY <1>1, <2>1, CallEnds
  <2>2. CASE With(c, "find", 0) /\ UNCHANGED tick
    BY <1>1, <2>2, CallGoesOn DEF Armed
  <2> QED
    BY <1>4, <2>1, <2>2 DEF Describe
<1>5. CASE FindKeyed(c)
  <2>1. CASE To(c, "insert") /\ UNCHANGED tick
    BY <1>1, <1>2, <2>1, CallGoesOn DEF Armed
  <2>2. ASSUME NEW i \in Under(call[c].key), Hold(c, i) PROVE KeyInv'
    BY <1>1, <2>2, Holds
  <2>3. ASSUME NEW i \in Under(call[c].key), With(c, "release", i), UNCHANGED tick,
               ~(day - recorded[i].since < Window)
        PROVE  KeyInv'
    <3>1. i \in Execs /\ i \in Nat /\ recorded[i].key = call[c].key
      BY RowFacts DEF Under, KeyInv
    <3>2. recorded[i].asked = call[c].key
      BY <1>2, <3>1, CallKinds, KeyKinds DEF KeyInv
    <3>3. Old(i)
      BY <2>3, <3>1, RowFacts, RowKinds DEF Old, KeyInv
    <3> QED
      BY <1>1, <2>3, <3>1, <3>2, <3>3, CallGoesOn
  <2> QED
    BY <1>5, <2>1, <2>2, <2>3 DEF FindKeyed
<1>6. CASE ReadRaced(c)
  <2>1. CASE Fail(c)
    BY <1>1, <2>1, CallEnds
  <2>2. ASSUME NEW i \in Under(call[c].key), Hold(c, i) PROVE KeyInv'
    BY <1>1, <2>2, Holds
  <2> QED
    BY <1>6, <2>1, <2>2 DEF ReadRaced
<1>7. CASE Breaks(c)
  BY <1>1, <1>7, CallEnds DEF Breaks
<1> QED
  BY <1>3, <1>4, <1>5, <1>6, <1>7

LEMMA StartSteps ==
  ASSUME KeyInv, NEW c \in Callers, StartKeyed(c) \/ StartKeyedFails(c)
  PROVE  KeyInv'
<1>1. /\ call[c] # Off /\ call[c] \in Call /\ UNCHANGED <<day, recorded, slot, tick>>
      /\ call[c].at = "start"
  BY CallKinds DEF KeyInv, StartKeyed, StartKeyedFails, tickVars
<1>2. /\ call[c].row \in Nat /\ call[c].row \in Execs /\ recorded[call[c].row].asked = call[c].key
  BY <1>1, CallKinds DEF KeyInv, CallInv, Armed
<1>3. begun' \in Seq({0, 1}) /\ Len(begun') = Len(recorded)
  <2>1. UNCHANGED begun \/ begun' = [begun EXCEPT ![call[c].row] = 1]
    BY DEF StartKeyed, StartKeyedFails, Started
  <2>2. begun \in Seq({0, 1}) /\ Len(begun) = Len(recorded) /\ call[c].row \in 1..Len(begun)
    BY <1>2, RowFacts DEF KeyInv
  <2> QED
    BY <2>1, <2>2
<1>4. To(c, "started") \/ To(c, "failed")
  BY DEF StartKeyed, StartKeyedFails
<1>5. CASE To(c, "started")
  BY <1>1, <1>2, <1>3, <1>5, CallGoesOn
<1>6. CASE To(c, "failed")
  BY <1>1, <1>2, <1>3, <1>6, CallGoesOn
<1> QED
  BY <1>4, <1>5, <1>6

LEMMA Rewritten ==
  ASSUME NEW r \in Exec, NEW k, NEW n
  PROVE  /\ [r EXCEPT !.key = k]
                = [key |-> k, asked |-> r.asked, named |-> r.named, since |-> r.since]
         /\ [r EXCEPT !.key = k, !.named = n]
                = [key |-> k, asked |-> r.asked, named |-> n, since |-> r.since]
<1>1. PICK q : q = [r EXCEPT !.key = k]
  OBVIOUS
<1>2. q = [key |-> k, asked |-> r.asked, named |-> r.named, since |-> r.since]
  BY <1>1 DEF Exec
<1>3. [r EXCEPT !.key = k, !.named = n] = [q EXCEPT !.named = n]
  BY <1>1
<1>4. [q EXCEPT !.named = n] = [key |-> k, asked |-> r.asked, named |-> n, since |-> r.since]
  BY <1>2
<1> QED
  BY <1>1, <1>2, <1>3, <1>4

LEMMA ReleaseStep ==
  ASSUME KeyInv, NEW c \in Callers, ReleaseKey(c)
  PROVE  KeyInv'
<1> DEFINE i == call[c].row
<1>1. /\ call[c] # Off /\ call[c] \in Call /\ UNCHANGED <<day, begun, slot, tick>>
      /\ call[c].at = "release" /\ With(c, "insert", 0)
      /\ recorded' = IF recorded[i].key = call[c].key
                     THEN [recorded EXCEPT ![i].key = NoKey] ELSE recorded
  BY CallKinds DEF KeyInv, ReleaseKey, tickVars
<1>2. /\ i \in Execs /\ Old(i) /\ CallInv(call[c])
      /\ recorded[i] \in Exec /\ begun' \in Seq({0, 1}) /\ Len(begun') = Len(recorded)
  BY <1>1, RowFacts DEF KeyInv, CallInv, Armed
<1>3. CASE recorded[i].key = call[c].key
  <2>1. PICK x \in Call : /\ call' = [call EXCEPT ![c] = x] /\ x.at = "insert"
                          /\ x.awaited = call[c].awaited
    <3>1. /\ [call[c] EXCEPT !.at = "insert", !.row = 0] \in Call
          /\ [call[c] EXCEPT !.at = "insert", !.row = 0].at = "insert"
          /\ [call[c] EXCEPT !.at = "insert", !.row = 0].awaited = call[c].awaited
      BY <1>1 DEF Call
    <3> QED
      BY <1>1, <3>1 DEF With
  <2>2. CallInv(x)
    BY <1>1, <1>2, <2>1 DEF CallInv, Armed
  <2>3. recorded' = [recorded EXCEPT ![i] = [key |-> NoKey, asked |-> recorded[i].asked,
                                             named |-> recorded[i].named,
                                             since |-> recorded[i].since]]
    <3>1. recorded' = [recorded EXCEPT ![i] = [recorded[i] EXCEPT !.key = NoKey]]
      BY <1>1, <1>3
    <3>2. [recorded[i] EXCEPT !.key = NoKey]
              = [key |-> NoKey, asked |-> recorded[i].asked, named |-> recorded[i].named,
                 since |-> recorded[i].since]
      BY <1>2, Rewritten
    <3> QED
      BY <3>1, <3>2
  <2>4. recorded[i].named \in BOOLEAN
    BY <1>2, RowKinds
  <2> HIDE DEF i
  <2> QED
    BY <1>1, <1>2, <2>1, <2>2, <2>3, <2>4, RowMoves
<1>4. CASE recorded[i].key # call[c].key
  BY <1>1, <1>2, <1>4, CallGoesOn DEF Armed
<1> QED
  BY <1>3, <1>4

LEMMA InsertStep ==
  ASSUME KeyInv, NEW c \in Callers, InsertKeyed(c)
  PROVE  KeyInv'
<1>1. /\ call[c] # Off /\ call[c] \in Call /\ UNCHANGED <<day, slot, tick>>
      /\ CallInv(call[c]) /\ call[c].at = "insert" /\ Len(recorded) \in Nat
  BY CallKinds, RowFacts DEF KeyInv, InsertKeyed, tickVars
<1>2. CASE Under(call[c].key) # {}
  <2>1. /\ To(c, "reread") /\ UNCHANGED recorded /\ call[c].row \in Nat
        /\ begun' \in Seq({0, 1}) /\ Len(begun') = Len(recorded)
    BY <1>1, <1>2, CallKinds DEF InsertKeyed, KeyInv
  <2> QED
    BY <1>1, <2>1, CallGoesOn DEF Armed
<1>3. CASE Under(call[c].key) = {}
  <2>1. PICK x \in Call : /\ call' = [call EXCEPT ![c] = x] /\ x.at = "start"
                          /\ x.key = call[c].key /\ x.row = Len(recorded) + 1
                          /\ x.awaited = call[c].awaited
    <3> DEFINE n == Len(recorded) + 1
    <3>1. n \in Nat /\ With(c, "start", n)
      BY <1>1, <1>3 DEF InsertKeyed
    <3> HIDE DEF n
    <3> DEFINE y == [call[c] EXCEPT !.at = "start", !.row = n]
    <3>2. /\ y \in Call /\ y.at = "start" /\ y.key = call[c].key /\ y.row = n
          /\ y.awaited = call[c].awaited
      BY <1>1, <3>1 DEF Call
    <3>3. call' = [call EXCEPT ![c] = y]
      BY <1>1, <3>1 DEF With
    <3> QED
      BY <3>2, <3>3 DEF n
  <2>2. /\ recorded' = Append(recorded, [key |-> x.key, asked |-> x.key, named |-> FALSE,
                                         since |-> day])
        /\ begun' = Append(begun, 0) /\ Under(x.key) = {}
    BY <1>3, <2>1 DEF InsertKeyed
  <2>3. x.awaited => slot \in Slots
    BY <1>1, <2>1 DEF CallInv
  <2> QED
    BY <1>1, <2>1, <2>2, <2>3, InsertMoves
<1> QED
  BY <1>2, <1>3

(* The key a save puts back is the one the row was recorded under. *)
LEMMA SaveSteps ==
  ASSUME KeyInv, NEW c \in Callers, SaveNamed(c) \/ SaveUnstarted(c)
  PROVE  KeyInv'
<1>1. /\ call[c] # Off /\ call[c] \in Call /\ UNCHANGED <<day, begun, slot>>
      /\ call[c].at \in {"started", "failed"} /\ call[c].key \in TriggerKeys
  BY CallKinds DEF KeyInv, SaveNamed, SaveUnstarted
<1>2. PICK n \in BOOLEAN : SaveKeyed(c, n)
  BY DEF SaveNamed, SaveUnstarted
<1> DEFINE i == call[c].row
<1>3. /\ i \in Execs /\ recorded[i].asked = call[c].key /\ recorded[i] \in Exec
      /\ CallInv(call[c])
  BY <1>1, RowFacts DEF KeyInv, CallInv, Armed
<1>4. CASE recorded[i].key = call[c].key \/ Under(call[c].key) = {}
  <2>1. /\ recorded' = [recorded EXCEPT ![i].key = call[c].key, ![i].named = n]
        /\ Succeed(c) \/ Fail(c)
    BY <1>2, <1>4 DEF SaveKeyed
  <2>2. recorded' = [recorded EXCEPT ![i] = [key |-> call[c].key, asked |-> recorded[i].asked,
                                             named |-> n, since |-> recorded[i].since]]
    <3>1. recorded' = [recorded EXCEPT ![i] = [recorded[i] EXCEPT !.key = call[c].key,
                                                                  !.named = n]]
      BY <1>3, <2>1, RowFacts DEF KeyInv
    <3>2. [recorded[i] EXCEPT !.key = call[c].key, !.named = n]
              = [key |-> call[c].key, asked |-> recorded[i].asked, named |-> n,
                 since |-> recorded[i].since]
      BY <1>3, Rewritten
    <3> QED
      BY <3>1, <3>2
  <2>3. CallInv(Off) /\ call' = [call EXCEPT ![c] = Off]
    BY <2>1, CallKinds DEF CallInv, Armed, Succeed, Fail
  <2>4. call[c].awaited => slot \in Slots
    BY <1>1, <1>3, CallKinds DEF CallInv
  <2>5. tick' \in {"closed", "waiting"} \/ UNCHANGED tick \/ slot \in Slots
    BY <2>1, <2>4 DEF Succeed, Fail
  <2>6. call[c].key # NoKey
    BY <1>1, KeyKinds
  <2> HIDE DEF i
  <2> QED
    BY <1>1, <1>3, <2>2, <2>3, <2>5, <2>6, RowMoves
<1>5. CASE ~(recorded[i].key = call[c].key \/ Under(call[c].key) = {})
  <2>1. Fail(c) /\ UNCHANGED recorded
    BY <1>2, <1>5 DEF SaveKeyed
  <2> QED
    BY <1>1, <2>1, CallEnds
<1> QED
  BY <1>4, <1>5

LEMMA ClockSteps ==
  ASSUME KeyInv, \/ \E s \in Slots : Fire(s)
                 \/ \E i \in going : EndKeyed(i)
                 \/ NextDay
                 \/ UNCHANGED triggerVars
  PROVE  KeyInv'
<1>1. /\ UNCHANGED <<recorded, begun, call>> /\ day' \in 0..LastDay /\ day' \in Nat /\ day \in Nat
      /\ day' >= day
  BY DEF KeyInv, Fire, EndKeyed, NextDay, execVars, tickVars, triggerVars
<1>2. /\ slot' \in 0..LastSlot /\ (tick' = "due" => slot' \in Slots)
      /\ (slot \in Slots => slot' \in Slots)
  BY DEF KeyInv, Fire, EndKeyed, NextDay, execVars, tickVars, triggerVars, Slots
<1>3. ASSUME NEW i \in Execs
      PROVE  recorded[i].since <= day' /\ (Old(i) => Old(i)')
  <2>1. recorded[i].since \in Nat /\ recorded[i].since <= day
    BY RowFacts, RowKinds DEF KeyInv
  <2> QED
    BY <1>1, <2>1 DEF Old
<1>4. ASSUME NEW c \in Callers PROVE CallInv(call[c])'
  <2>1. CallInv(call[c]) /\ UNCHANGED <<recorded, call>>
    BY <1>1 DEF KeyInv
  <2> QED
    BY <1>2, <1>3, <2>1 DEF CallInv, Execs
<1> QED
  BY <1>1, <1>2, <1>3, <1>4 DEF KeyInv, Execs

LEMMA KeyInvInit == TriggersInit => KeyInv
<1> SUFFICES ASSUME TriggersInit PROVE KeyInv
  OBVIOUS
<1>1. Execs = {} /\ recorded \in Seq(Exec) /\ begun \in Seq({0, 1}) /\ Len(begun) = Len(recorded)
  BY DEF TriggersInit, Execs
<1>2. CallInv(Off)
  BY CallKinds DEF CallInv, Armed
<1> QED
  BY <1>1, <1>2 DEF TriggersInit, KeyInv

LEMMA KeyInvStep == KeyInv /\ [TriggersNext]_triggerVars => KeyInv'
<1> SUFFICES ASSUME KeyInv, [TriggersNext]_triggerVars PROVE KeyInv'
  OBVIOUS
<1>1. ASSUME NEW c \in Callers, CallStep(c) PROVE KeyInv'
  BY <1>1, AttemptSteps, LookSteps, StartSteps, ReleaseStep, InsertStep, SaveSteps DEF CallStep
<1> QED
  BY <1>1, ClockSteps DEF TriggersNext

LEMMA KeyAlways == TriggersSpec => []KeyInv
<1> QED
  BY KeyInvInit, KeyInvStep, PTL DEF TriggersSpec

(* Within the window a key starts one execution, and an execution one workflow: *)
(* for every number of requests, attempts, slots, keys and any window.          *)
THEOREM OneRunPerKey == TriggersSpec => []KeyRunsOnce
<1>1. KeyInv => KeyRunsOnce
  <2> SUFFICES ASSUME KeyInv PROVE KeyRunsOnce
    OBVIOUS
  <2>1. \A i \in Execs : begun[i] \in {0, 1}
    BY RowFacts DEF KeyInv
  <2> QED
    BY <2>1 DEF KeyInv, KeyRunsOnce
<1> QED
  BY <1>1, KeyAlways, PTL

(* What the types need beyond KeyInv: an attempt is due only while one is left. *)
TickInv ==
    /\ going \subseteq Execs
    /\ tick \in {"closed", "due", "waiting"} /\ tries \in 0..Retries
    /\ tick = "due" => tries < Retries
    /\ doubts \in Nat

LEMMA TickInvStep == KeyInv /\ TickInv /\ [TriggersNext]_triggerVars => TickInv'
<1> SUFFICES ASSUME KeyInv, TickInv, [TriggersNext]_triggerVars PROVE TickInv'
  OBVIOUS
<1> USE DEF TickInv, execVars, tickVars, triggerVars
<1>1. ASSUME NEW s \in Slots, Fire(s) PROVE TickInv'
  BY <1>1 DEF Fire, Execs
<1>2. ASSUME NEW i \in going, EndKeyed(i) PROVE TickInv'
  BY <1>2 DEF EndKeyed, Execs
<1>3. CASE NextDay
  BY <1>3 DEF NextDay, Execs
<1>4. CASE UNCHANGED triggerVars
  BY <1>4 DEF Execs
<1>5. ASSUME NEW c \in Callers, CallStep(c) PROVE TickInv'
  <2>1. CASE BeginAttempt(c)
    BY <2>1 DEF BeginAttempt, Execs
  <2>2. CASE AttemptTimesOut(c)
    BY <2>2 DEF AttemptTimesOut, AfterFailure, Execs
  <2>3. ASSUME NEW k \in SenderKeys, ReceiveWebhook(c, k) PROVE TickInv'
    BY <2>3 DEF ReceiveWebhook, Execs
  <2>4. CASE CheckPrevious(c)
    BY <2>4 DEF CheckPrevious, Execs
  <2>5. CASE Describe(c)
    BY <2>5 DEF Describe, Succeed, Execs
  <2>6. CASE FindKeyed(c)
    BY <2>6 DEF FindKeyed, Hold, Succeed, Execs
  <2>7. CASE ReleaseKey(c)
    <3>1. Execs' = Execs
      BY <2>7, RowFacts DEF ReleaseKey, Execs, KeyInv
    <3> QED
      BY <2>7, <3>1 DEF ReleaseKey
  <2>8. CASE InsertKeyed(c)
    <3>1. Execs \subseteq Execs'
      BY <2>8, RowFacts DEF InsertKeyed, Execs, KeyInv
    <3> QED
      BY <2>8, <3>1 DEF InsertKeyed
  <2>9. CASE ReadRaced(c)
    BY <2>9 DEF ReadRaced, Hold, Succeed, Fail, AfterFailure, Execs
  <2>10. CASE StartKeyed(c) \/ StartKeyedFails(c)
    <3>1. call[c].row \in Execs /\ Execs' = Execs
      BY <2>10, CallKinds DEF StartKeyed, StartKeyedFails, KeyInv, CallInv, Armed, Execs
    <3>2. going' \subseteq going \cup {call[c].row}
      BY <2>10 DEF StartKeyed, StartKeyedFails, Started
    <3>3. doubts' \in Nat /\ UNCHANGED <<tick, tries>>
      BY <2>10 DEF StartKeyed, StartKeyedFails
    <3> QED
      BY <3>1, <3>2, <3>3
  <2>11. CASE SaveNamed(c) \/ SaveUnstarted(c)
    <3>1. Execs' = Execs
      BY <2>11, RowFacts DEF SaveNamed, SaveUnstarted, SaveKeyed, Execs, KeyInv
    <3>2. tick' \in {tick, "closed", AfterFailure} /\ UNCHANGED <<going, tries, doubts>>
      BY <2>11 DEF SaveNamed, SaveUnstarted, SaveKeyed, Succeed, Fail
    <3> QED
      BY <3>1, <3>2 DEF AfterFailure
  <2>12. CASE Breaks(c)
    BY <2>12 DEF Breaks, Fail, AfterFailure, Execs
  <2> QED
    BY <1>5, <2>1, <2>2, <2>3, <2>4, <2>5, <2>6, <2>7, <2>8, <2>9, <2>10, <2>11, <2>12 DEF CallStep
<1> QED
  BY <1>1, <1>2, <1>3, <1>4, <1>5 DEF TriggersNext

(* Executions, requests and ticks keep their types; an id is only running when *)
(* a row has it.                                                               *)
THEOREM TriggersTypeCorrect == TriggersSpec => []TriggersTypeOK
<1>1. TriggersInit => TickInv
  BY DEF TriggersInit, TickInv, Execs
<1>2. KeyInv /\ TickInv => TriggersTypeOK
  BY DEF KeyInv, TickInv, TriggersTypeOK
<1> QED
  BY <1>1, <1>2, TickInvStep, KeyAlways, PTL DEF TriggersSpec

--------------------------------------------------------------------------------
(* Ticks that take turns *)

(* What may still happen beside the tick: an attempt that was given up on      *)
(* records a row which is not named yet (Early), and starts its run or forgets *)
(* the name another attempt has given it (Unstarted).  Load counts these with  *)
(* the runs that go on, and Margin what the doubts leave for another run.      *)
EarlyPlaces == {"check", "describe", "find", "release", "insert", "reread"}
Early == {c \in Callers : call[c].at \in EarlyPlaces /\ ~call[c].awaited}
Unstarted == {c \in Callers : call[c].at \notin {"off", "started"} /\ ~call[c].awaited}
Load == Cardinality(going) + Cardinality(Early) + Cardinality(Unstarted)
Margin == doubts - Load

(* The attempt that is awaited, if there is one.                              *)
Awaited(c) == call[c].at # "off" /\ call[c].awaited
Naming == \E c \in Callers : Awaited(c) /\ call[c].at = "started"

(* A tick looks at the last row only, and would start a run beside the others  *)
(* when that row does not name one that goes on.                               *)
LastRow == Len(recorded)
Blind == Execs = {} \/ ~recorded[LastRow].named \/ LastRow \notin going

(* What the attempt has seen leaves a margin for the run it is about to start: *)
(* the last row was over, or had no name, or was that of its own slot.         *)
AttemptInv(x) ==
    /\ x.at = "describe" /\ Under(slot) = {} => Margin >= 0 \/ x.row = LastRow
    /\ x.at \in {"find", "insert"} /\ Under(slot) = {} => Margin >= 0
    /\ x.at \in {"start", "failed"} => Margin >= 0 /\ (x.row # LastRow => Margin >= 1)
    /\ x.at = "started" => Margin >= 0 \/ (x.row = LastRow /\ x.row \in going)

(* The margin is never more than one short, and not short while a tick could   *)
(* start another run or is about to.  A row of the slot that is not the last   *)
(* one was overtaken by an attempt that had been given up on, which has paid   *)
(* for it.                                                                     *)
MarginInv ==
    /\ Margin >= -1
    /\ Blind /\ ~Naming => Margin >= 0
    /\ \A i \in Under(slot) : i # LastRow =>
           /\ Margin >= 0
           /\ ~recorded[i].named /\ ~Naming => Margin >= 1
    /\ \A c \in Callers : Awaited(c) => AttemptInv(call[c])

(* A schedule fires slots in order; of a slot there is one row, which is named *)
(* only once its run was started, and one attempt is awaited at a time.        *)
ScheduleInv ==
    /\ day = 0
    /\ \A i \in Execs : /\ recorded[i].asked \in Slots /\ recorded[i].asked <= slot
                        /\ recorded[i].named => begun[i] = 1
                        /\ begun[i] = 0 => i \notin going
    /\ \A c \in Callers : call[c].at # "off" => /\ call[c].key \in Slots /\ call[c].key <= slot
                                                /\ call[c].at = "started" => begun[call[c].row] = 1
    /\ \A c \in Callers : Awaited(c) => call[c].key = slot /\ tick = "waiting"
    /\ \A c, d \in Callers : Awaited(c) /\ Awaited(d) => c = d
    /\ IsFiniteSet(going) /\ IsFiniteSet(Early) /\ IsFiniteSet(Unstarted)

TurnInv == trigger = "SCHEDULE" => ScheduleInv /\ MarginInv

--------------------------------------------------------------------------------
(* What a step weighs *)

Weight(x) ==
    IF x.at \in {"off", "started"} \/ x.awaited THEN 0
    ELSE IF x.at \in {"start", "failed"} THEN 1 ELSE 2

LEMMA SetMoves ==
  ASSUME NEW S, IsFiniteSet(S), NEW T, NEW c, T \ {c} = S \ {c}
  PROVE  /\ IsFiniteSet(T) /\ Cardinality(S) \in Nat /\ Cardinality(T) \in Nat
         /\ Cardinality(T) + (IF c \in S THEN 1 ELSE 0)
                = Cardinality(S) + (IF c \in T THEN 1 ELSE 0)
<1> DEFINE R == S \ {c}
<1>1. /\ IsFiniteSet(R) /\ Cardinality(R) = IF c \in S THEN Cardinality(S) - 1 ELSE Cardinality(S)
      /\ Cardinality(S) \in Nat
  BY FS_RemoveElement, FS_CardinalityType
<1>2. CASE c \in T
  <2>1. T = R \cup {c} /\ c \notin R
    BY <1>2
  <2>2. IsFiniteSet(T) /\ Cardinality(T) = Cardinality(R) + 1 /\ Cardinality(T) \in Nat
    BY <1>1, <2>1, FS_AddElement, FS_CardinalityType
  <2> QED
    BY <1>1, <1>2, <2>2
<1>3. CASE c \notin T
  <2>1. T = R
    BY <1>3
  <2> QED
    BY <1>1, <1>3, <2>1, FS_CardinalityType
<1> QED
  BY <1>2, <1>3

LEMMA CallWeighs ==
  ASSUME KeyInv, IsFiniteSet(Early), IsFiniteSet(Unstarted),
         NEW c \in Callers, NEW x \in {Off} \cup Call, call' = [call EXCEPT ![c] = x]
  PROVE  /\ IsFiniteSet(Early') /\ IsFiniteSet(Unstarted')
         /\ Cardinality(Early) \in Nat /\ Cardinality(Unstarted) \in Nat
         /\ Cardinality(Early') \in Nat /\ Cardinality(Unstarted') \in Nat
         /\ Cardinality(Early') + Cardinality(Unstarted') + Weight(call[c])
                = Cardinality(Early) + Cardinality(Unstarted) + Weight(x)
<1>1. /\ call \in [Callers -> {Off} \cup Call] /\ call[c] \in {Off} \cup Call
      /\ call'[c] = x /\ \A d \in Callers : d # c => call'[d] = call[d]
  BY DEF KeyInv
<1>2. Early' \ {c} = Early \ {c} /\ Unstarted' \ {c} = Unstarted \ {c}
  BY <1>1 DEF Early, Unstarted
<1> DEFINE InEarly(y) == y.at \in EarlyPlaces /\ ~y.awaited
           InUnstarted(y) == y.at \notin {"off", "started"} /\ ~y.awaited
<1>3. /\ c \in Early <=> InEarly(call[c])
      /\ c \in Unstarted <=> InUnstarted(call[c])
      /\ c \in Early' <=> InEarly(x)
      /\ c \in Unstarted' <=> InUnstarted(x)
  BY <1>1 DEF Early, Unstarted
<1>4. ASSUME NEW y \in {Off} \cup Call
      PROVE  Weight(y) = (IF InEarly(y) THEN 1 ELSE 0) + (IF InUnstarted(y) THEN 1 ELSE 0)
  <2>1. y.at \in {"off", "started"} \cup {"start", "failed"} \cup EarlyPlaces
    BY CallKinds DEF EarlyPlaces
  <2>2. CASE y.at \in {"off", "started"}
    BY <2>2 DEF Weight, EarlyPlaces
  <2>3. CASE y.at \in {"start", "failed"}
    BY <2>3 DEF Weight, EarlyPlaces
  <2>4. CASE y.at \in EarlyPlaces
    BY <2>4 DEF Weight, EarlyPlaces
  <2> QED
    BY <2>1, <2>2, <2>3, <2>4
<1>5. /\ Weight(x) = (IF c \in Early' THEN 1 ELSE 0) + (IF c \in Unstarted' THEN 1 ELSE 0)
      /\ Weight(call[c]) = (IF c \in Early THEN 1 ELSE 0) + (IF c \in Unstarted THEN 1 ELSE 0)
  <2> HIDE DEF InEarly, InUnstarted
  <2> QED
    BY <1>1, <1>3, <1>4
<1>6. /\ IsFiniteSet(Early') /\ Cardinality(Early) \in Nat /\ Cardinality(Early') \in Nat
      /\ Cardinality(Early') + (IF c \in Early THEN 1 ELSE 0)
             = Cardinality(Early) + (IF c \in Early' THEN 1 ELSE 0)
  BY <1>2, SetMoves
<1>7. /\ IsFiniteSet(Unstarted') /\ Cardinality(Unstarted) \in Nat /\ Cardinality(Unstarted') \in Nat
      /\ Cardinality(Unstarted') + (IF c \in Unstarted THEN 1 ELSE 0)
             = Cardinality(Unstarted) + (IF c \in Unstarted' THEN 1 ELSE 0)
  BY <1>2, SetMoves
<1> QED
  BY <1>5, <1>6, <1>7

LEMMA Weights ==
  /\ Weight(Off) = 0
  /\ \A x \in Call : /\ Weight(x) \in {0, 1, 2}
                     /\ x.awaited => Weight(x) = 0
                     /\ x.at \in {"start", "failed"} /\ ~x.awaited => Weight(x) = 1
                     /\ x.at = "started" => Weight(x) = 0
                     /\ x.at \in EarlyPlaces /\ ~x.awaited => Weight(x) = 2
BY CallKinds DEF Weight, EarlyPlaces

(* The margin shrinks with what goes on and with what may still be started.   *)
LEMMA MarginMoves ==
  ASSUME KeyInv, TickInv, TickInv', IsFiniteSet(Early), IsFiniteSet(Unstarted), IsFiniteSet(going),
         NEW c \in Callers, NEW x \in {Off} \cup Call, call' = [call EXCEPT ![c] = x],
         NEW i, going' = going \/ going' = going \cup {i}
  PROVE  /\ IsFiniteSet(Early') /\ IsFiniteSet(Unstarted') /\ IsFiniteSet(going')
         /\ Margin \in Int /\ Margin' \in Int
         /\ going' = going => Margin' = Margin + doubts' - doubts + Weight(call[c]) - Weight(x)
         /\ Margin' >= Margin + doubts' - doubts + Weight(call[c]) - Weight(x) - 1
<1>1. /\ IsFiniteSet(going') /\ Cardinality(going) \in Nat /\ Cardinality(going') \in Nat
      /\ going' = going => Cardinality(going') = Cardinality(going)
      /\ Cardinality(going') <= Cardinality(going) + 1
  <2>1. CASE going' = going
    BY <2>1, FS_CardinalityType
  <2>2. CASE going' = going \cup {i} /\ going' # going
    <3>1. IsFiniteSet(going') /\ Cardinality(going') = Cardinality(going) + 1
      BY <2>2, FS_AddElement
    <3> QED
      BY <2>2, <3>1, FS_CardinalityType
  <2> QED
    BY <2>1, <2>2
<1>2. /\ IsFiniteSet(Early') /\ IsFiniteSet(Unstarted')
      /\ Cardinality(Early) \in Nat /\ Cardinality(Unstarted) \in Nat
      /\ Cardinality(Early') \in Nat /\ Cardinality(Unstarted') \in Nat
      /\ Cardinality(Early') + Cardinality(Unstarted') + Weight(call[c])
             = Cardinality(Early) + Cardinality(Unstarted) + Weight(x)
  BY CallWeighs
<1>3. Weight(x) \in Nat /\ Weight(call[c]) \in Nat /\ doubts \in Nat /\ doubts' \in Nat
  <2>1. call[c] \in {Off} \cup Call
    BY DEF KeyInv
  <2>2. \A y \in {Off} \cup Call : Weight(y) \in Nat
    BY Weights
  <2>3. doubts \in Nat /\ doubts' \in Nat
    BY DEF TickInv
  <2> QED
    BY <2>1, <2>2, <2>3
<1>4. Margin = doubts - (Cardinality(going) + Cardinality(Early) + Cardinality(Unstarted))
  BY DEF Margin, Load
<1>5. Margin' = doubts' - (Cardinality(going') + Cardinality(Early') + Cardinality(Unstarted'))
  BY DEF Margin, Load
<1> QED
  BY <1>1, <1>2, <1>3, <1>4, <1>5

--------------------------------------------------------------------------------
(* What holds on the day of a schedule *)

LEMMA DayFacts ==
  ASSUME KeyInv, ScheduleInv
  PROVE  /\ \A i \in Execs : /\ recorded[i].key = recorded[i].asked /\ recorded[i].key \in Slots
                             /\ ~Old(i)
         /\ \A i, j \in Execs : recorded[i].key = recorded[j].key => i = j
         /\ \A c \in Callers : call[c].at # "release"
         /\ Scheduled = Execs
<1>1. ASSUME NEW i \in Execs PROVE recorded[i].since = 0 /\ ~Old(i)
  <2>1. recorded[i].since \in Nat /\ recorded[i].since <= 0
    BY RowFacts, RowKinds DEF KeyInv, ScheduleInv
  <2>2. recorded[i].since = 0 /\ ~(0 - 0 >= Window)
    BY <2>1
  <2>3. day = 0
    BY DEF ScheduleInv
  <2> QED
    BY <2>2, <2>3 DEF Old
<1>2. ASSUME NEW i \in Execs PROVE recorded[i].key = recorded[i].asked /\ recorded[i].key \in Slots
  BY <1>1 DEF KeyInv, ScheduleInv
<1>3. ASSUME NEW i \in Execs, NEW j \in Execs, recorded[i].key = recorded[j].key PROVE i = j
  <2>1. i \in Nat /\ j \in Nat
    BY RowFacts DEF KeyInv
  <2>2. ~(0 - 0 >= Window)
    OBVIOUS
  <2>3. ~(i < j) /\ ~(j < i)
    BY <1>1, <1>2, <1>3, <2>2 DEF KeyInv
  <2> QED
    BY <2>1, <2>3
<1>4. ASSUME NEW c \in Callers PROVE call[c].at # "release"
  BY <1>1 DEF KeyInv, CallInv, Armed
<1>5. Scheduled = Execs
  BY <1>2 DEF Scheduled
<1> QED
  BY <1>1, <1>2, <1>3, <1>4, <1>5

LEMMA MaxOfRange ==
  ASSUME NEW n \in Nat, n # 0
  PROVE  Max(1..n) = n
<1>1. n \in 1..n /\ \A y \in 1..n : n >= y
  OBVIOUS
<1>2. \A x \in 1..n : (\A y \in 1..n : x >= y) => x = n
  BY <1>1
<1> QED
  BY <1>1, <1>2 DEF Max

LEMMA LastIsLatest ==
  ASSUME KeyInv, ScheduleInv, Execs # {}
  PROVE  Scheduled # {} /\ Latest = LastRow /\ LastRow \in Execs /\ LastRow \in Nat
<1>1. Execs = 1..Len(recorded) /\ Len(recorded) \in Nat /\ Scheduled = Execs
  BY RowFacts, DayFacts DEF KeyInv
<1>2. Len(recorded) # 0
  BY <1>1
<1> QED
  BY <1>1, <1>2, MaxOfRange DEF Latest, LastRow

LEMMA OneAwaited ==
  ASSUME ScheduleInv, NEW c \in Callers, Awaited(c)
  PROVE  /\ \A d \in Callers : Awaited(d) => d = c
         /\ Naming <=> call[c].at = "started"
         /\ call[c].key = slot /\ tick = "waiting"
BY DEF ScheduleInv, Naming

(* A caller moves on, on the day of the schedule.                             *)
LEMMA CallKeepsSchedule ==
  ASSUME KeyInv, ScheduleInv, TickInv, TickInv', NEW c \in Callers, NEW x \in {Off} \cup Call,
         call' = [call EXCEPT ![c] = x], UNCHANGED <<day, slot>>,
         x.at # "off" => /\ x.key \in Slots /\ x.key <= slot
                         /\ x.at = "started" => begun'[x.row] = 1
                         /\ x.awaited => x.key = slot /\ tick' = "waiting",
         x.at # "off" /\ x.awaited => \A d \in Callers : Awaited(d) => d = c,
         tick' = tick \/ (\A d \in Callers : Awaited(d) => d = c),
         \A i \in Execs' : /\ recorded'[i].asked \in Slots /\ recorded'[i].asked <= slot
                           /\ recorded'[i].named => begun'[i] = 1
                           /\ begun'[i] = 0 => i \notin going',
         \A i \in Execs : begun[i] = 1 => begun'[i] = 1,
         NEW j, going' = going \/ going' = going \cup {j}
  PROVE  ScheduleInv'
<1>1. /\ call'[c] = x /\ \A d \in Callers : d # c => call'[d] = call[d]
  BY DEF KeyInv
<1>2. ASSUME NEW d \in Callers, call'[d].at # "off"
      PROVE  /\ call'[d].key \in Slots /\ call'[d].key <= slot
             /\ call'[d].at = "started" => begun'[call'[d].row] = 1
  <2>1. CASE d = c
    BY <1>1, <1>2, <2>1
  <2>2. CASE d # c
    <3>1. call'[d] = call[d] /\ CallInv(call[d])
      BY <1>1, <2>2 DEF KeyInv
    <3> QED
      BY <1>2, <3>1 DEF ScheduleInv, CallInv, Armed
  <2> QED
    BY <2>1, <2>2
<1>3. ASSUME NEW d \in Callers, Awaited(d)' PROVE call'[d].key = slot /\ tick' = "waiting"
  <2>1. CASE d = c
    BY <1>1, <1>3, <2>1 DEF Awaited
  <2>2. CASE d # c
    BY <1>1, <1>3, <2>2 DEF Awaited, ScheduleInv
  <2> QED
    BY <2>1, <2>2
<1>4. ASSUME NEW d \in Callers, NEW e \in Callers, Awaited(d)', Awaited(e)' PROVE d = e
  <2>1. (d # c => Awaited(d)) /\ (e # c => Awaited(e))
    BY <1>1, <1>4 DEF Awaited
  <2>2. d = c \/ e = c => x.at # "off" /\ x.awaited
    BY <1>1, <1>4 DEF Awaited
  <2> QED
    BY <2>1, <2>2 DEF ScheduleInv
<1>5. IsFiniteSet(going') /\ IsFiniteSet(Early') /\ IsFiniteSet(Unstarted')
  BY MarginMoves DEF ScheduleInv
<1>6. day' = 0 /\ slot' = slot
  BY DEF ScheduleInv
<1> QED
  BY <1>2, <1>3, <1>4, <1>5, <1>6 DEF ScheduleInv

--------------------------------------------------------------------------------
(* How the margin is kept *)

RowsKept == /\ Execs' = Execs /\ LastRow' = LastRow
            /\ \A i \in Execs : recorded'[i].key = recorded[i].key
RowAdded == /\ Execs' = Execs \cup {LastRow'}
            /\ \A i \in Execs : recorded'[i] = recorded[i]
AttemptsKept ==
    \A d \in Callers : /\ Awaited(d)' <=> Awaited(d)
                       /\ Awaited(d) => call'[d] = call[d]

LEMMA LastRowIsRow ==
  ASSUME KeyInv, Execs # {}
  PROVE  LastRow \in Execs /\ LastRow \in Nat
BY RowFacts DEF KeyInv, LastRow

(* Whatever others than the attempt do either leaves what a tick can see, or  *)
(* gives something up. *)
LEMMA OthersMove ==
  ASSUME KeyInv, ScheduleInv, MarginInv, AttemptsKept, UNCHANGED slot, Margin \in Int, Margin' \in Int,
         \/ /\ RowsKept /\ Margin' >= Margin /\ going \subseteq going'
            /\ \A i \in Execs : recorded[i].named => recorded'[i].named
         \/ (RowsKept \/ RowAdded) /\ Margin' >= Margin + 1
  PROVE  MarginInv'
<1>1. Naming' <=> Naming
  BY DEF AttemptsKept, Naming, Awaited
<1>2. CASE /\ RowsKept /\ Margin' >= Margin /\ going \subseteq going'
           /\ \A i \in Execs : recorded[i].named => recorded'[i].named
  <2>1. Under(slot)' = Under(slot) /\ Under(slot) \subseteq Execs
    BY <1>2 DEF Under, RowsKept
  <2>2. Margin' >= -1
    BY <1>2 DEF MarginInv
  <2>3. ASSUME Blind', ~Naming' PROVE Margin' >= 0
    <3>1. Blind \/ (Execs # {} /\ LastRow \notin Execs)
      BY <1>2, <2>3 DEF Blind, RowsKept
    <3>2. Execs # {} => LastRow \in Execs
      BY LastRowIsRow
    <3> QED
      BY <1>1, <1>2, <2>3, <3>1, <3>2 DEF MarginInv
  <2>4. ASSUME NEW i \in Under(slot)', i # LastRow'
        PROVE  Margin' >= 0 /\ (~recorded'[i].named /\ ~Naming' => Margin' >= 1)
    <3>1. i \in Under(slot) /\ i # LastRow /\ i \in Execs
      BY <1>2, <2>1, <2>4 DEF RowsKept
    <3>2. Margin >= 0 /\ (~recorded[i].named /\ ~Naming => Margin >= 1)
      BY <3>1 DEF MarginInv
    <3> QED
      BY <1>1, <1>2, <3>1, <3>2
  <2>5. ASSUME NEW d \in Callers, Awaited(d)' PROVE AttemptInv(call[d])'
    <3>1. PICK x : x = call[d] /\ call'[d] = x /\ AttemptInv(x)
      BY <2>5 DEF AttemptsKept, MarginInv
    <3>2. AttemptInv(x)'
      BY <1>2, <2>1, <3>1 DEF AttemptInv, RowsKept
    <3> QED
      BY <3>1, <3>2 DEF AttemptInv
  <2> QED
    BY <2>2, <2>3, <2>4, <2>5 DEF MarginInv
<1>3. CASE (RowsKept \/ RowAdded) /\ Margin' >= Margin + 1
  <2>1. Margin >= -1 /\ Margin' >= 0
    BY <1>3 DEF MarginInv
  <2>2. ASSUME NEW i \in Under(slot)', i # LastRow', ~Naming', ~recorded'[i].named
        PROVE  Margin' >= 1
    <3>1. i \in Execs' /\ recorded'[i].key = slot
      BY <2>2 DEF Under
    <3>2. CASE RowsKept
      <4>1. i \in Under(slot) /\ i # LastRow
        BY <2>2, <3>1, <3>2 DEF Under, RowsKept
      <4>2. Margin >= 0
        BY <4>1 DEF MarginInv
      <4> QED
        BY <1>3, <4>2
    <3>3. CASE RowAdded
      <4>1. i \in Under(slot) /\ recorded'[i] = recorded[i]
        BY <2>2, <3>1, <3>3 DEF Under, RowAdded
      <4>2. CASE i = LastRow
        <5>1. Blind
          BY <2>2, <4>1, <4>2 DEF Blind
        <5> QED
          BY <1>1, <1>3, <2>2, <5>1 DEF MarginInv
      <4>3. CASE i # LastRow
        <5>1. Margin >= 0
          BY <4>1, <4>3 DEF MarginInv
        <5> QED
          BY <1>3, <5>1
      <4> QED
        BY <4>2, <4>3
    <3> QED
      BY <1>3, <3>2, <3>3
  <2>3. ASSUME NEW d \in Callers, Awaited(d)' PROVE AttemptInv(call[d])'
    <3>1. PICK x : x = call[d] /\ call'[d] = x /\ AttemptInv(x)
      BY <2>3 DEF AttemptsKept, MarginInv
    <3>2. x.at \in {"start", "failed"} => Margin' >= 1
      BY <1>3, <3>1 DEF AttemptInv
    <3>3. AttemptInv(x)'
      BY <2>1, <3>2 DEF AttemptInv
    <3> QED
      BY <3>1, <3>3 DEF AttemptInv
  <2> QED
    BY <2>1, <2>2, <2>3 DEF MarginInv
<1> QED
  BY <1>2, <1>3

(* The attempt goes on, or another is made. *)
LEMMA AttemptMoves ==
  ASSUME KeyInv, ScheduleInv, MarginInv, NEW c \in Callers, NEW x \in Call,
         \A d \in Callers : Awaited(d) => d = c,
         call' = [call EXCEPT ![c] = x], x.at # "started", call[c].at # "started",
         UNCHANGED <<recorded, going, slot>>, Margin' = Margin, AttemptInv(x)
  PROVE  MarginInv'
<1>1. /\ call'[c] = x /\ \A d \in Callers : d # c => call'[d] = call[d]
  BY DEF KeyInv
<1>2. ~Naming /\ ~Naming'
  BY <1>1 DEF Naming, Awaited
<1>3. /\ Execs' = Execs /\ LastRow' = LastRow /\ (Blind' <=> Blind) /\ Under(slot)' = Under(slot)
  BY DEF Execs, LastRow, Blind, Under
<1>4. ASSUME NEW d \in Callers, Awaited(d)' PROVE AttemptInv(call[d])'
  <2>1. d = c /\ call'[d] = x
    BY <1>1, <1>4 DEF Awaited
  <2> QED
    BY <1>3, <2>1 DEF AttemptInv
<1>5. \A i \in Under(slot)' : i # LastRow' =>
           Margin' >= 0 /\ (~recorded'[i].named /\ ~Naming' => Margin' >= 1)
  BY <1>2, <1>3 DEF MarginInv
<1> QED
  BY <1>2, <1>3, <1>4, <1>5 DEF MarginInv

(* The attempt is over, or not awaited any more.                              *)
LEMMA AttemptIsOver ==
  ASSUME KeyInv, ScheduleInv, MarginInv, NEW c \in Callers, NEW x \in {Off} \cup Call,
         Awaited(c), call' = [call EXCEPT ![c] = x], ~(x.at # "off" /\ x.awaited),
         UNCHANGED <<recorded, going, slot>>, Margin \in Int, Margin' \in Int,
         Margin' >= Margin, call[c].at = "started" => Margin' >= Margin + 1
  PROVE  MarginInv'
<1>1. /\ call'[c] = x /\ \A d \in Callers : d # c => call'[d] = call[d]
  BY DEF KeyInv
<1>2. /\ \A d \in Callers : ~Awaited(d)'
      /\ ~Naming' /\ (Naming <=> call[c].at = "started")
  BY <1>1, OneAwaited DEF Naming, Awaited
<1>3. /\ Execs' = Execs /\ LastRow' = LastRow /\ (Blind' <=> Blind) /\ Under(slot)' = Under(slot)
  BY DEF Execs, LastRow, Blind, Under
<1>4. Margin >= -1 /\ AttemptInv(call[c])
  BY DEF MarginInv
<1>5. Margin' >= -1 /\ (Blind' => Margin' >= 0)
  BY <1>2, <1>3, <1>4 DEF MarginInv
<1>6. ASSUME NEW i \in Under(slot), i # LastRow
      PROVE  Margin' >= 0 /\ (~recorded[i].named => Margin' >= 1)
  <2>1. Margin >= 0 /\ (~recorded[i].named /\ ~Naming => Margin >= 1)
    BY <1>6 DEF MarginInv
  <2> QED
    BY <1>2, <2>1
<1>7. \A i \in Under(slot)' : i # LastRow' =>
           Margin' >= 0 /\ (~recorded'[i].named /\ ~Naming' => Margin' >= 1)
  BY <1>3, <1>6
<1> QED
  BY <1>2, <1>5, <1>7 DEF MarginInv

--------------------------------------------------------------------------------
(* Steps of a tick *)

LEMMA CallBecomes ==
  ASSUME KeyInv, NEW c \in Callers, call[c] # Off,
         NEW p \in {"check", "describe", "find", "release", "insert", "reread", "start",
                   "started", "failed"}, NEW i \in Nat,
         \/ To(c, p) /\ i = call[c].row
         \/ With(c, p, i)
  PROVE  \E x \in Call : /\ call' = [call EXCEPT ![c] = x] /\ x.at = p /\ x.key = call[c].key
                         /\ x.row = i /\ x.awaited = call[c].awaited
<1>1. call[c] \in Call
  BY DEF KeyInv
<1>2. /\ [call[c] EXCEPT !.at = p] \in Call /\ [call[c] EXCEPT !.at = p].at = p
      /\ [call[c] EXCEPT !.at = p].key = call[c].key /\ [call[c] EXCEPT !.at = p].row = call[c].row
      /\ [call[c] EXCEPT !.at = p].awaited = call[c].awaited
  BY <1>1 DEF Call
<1>3. /\ [call[c] EXCEPT !.at = p, !.row = i] \in Call /\ [call[c] EXCEPT !.at = p, !.row = i].at = p
      /\ [call[c] EXCEPT !.at = p, !.row = i].key = call[c].key
      /\ [call[c] EXCEPT !.at = p, !.row = i].row = i
      /\ [call[c] EXCEPT !.at = p, !.row = i].awaited = call[c].awaited
  BY <1>1 DEF Call
<1>4. \/ call' = [call EXCEPT ![c] = [call[c] EXCEPT !.at = p]] /\ i = call[c].row
      \/ call' = [call EXCEPT ![c] = [call[c] EXCEPT !.at = p, !.row = i]]
  BY DEF To, With
<1> QED
  BY <1>2, <1>3, <1>4

LEMMA OrphanKept ==
  ASSUME KeyInv, NEW c \in Callers, ~Awaited(c), NEW x, call' = [call EXCEPT ![c] = x],
         ~(x.at # "off" /\ x.awaited)
  PROVE  AttemptsKept
<1>1. /\ call'[c] = x /\ \A d \in Callers : d # c => call'[d] = call[d]
  BY DEF KeyInv
<1> QED
  BY <1>1 DEF AttemptsKept, Awaited

LEMMA RowsSame ==
  ASSUME UNCHANGED recorded
  PROVE  /\ RowsKept /\ \A i \in Execs : recorded[i].named => recorded'[i].named
BY DEF RowsKept, Execs, LastRow

(* A query that changes nothing but what the caller knows.                    *)
LEMMA CallLooks ==
  ASSUME KeyInv, TickInv, TickInv', ScheduleInv, MarginInv, NEW c \in Callers,
         call[c].at \in EarlyPlaces, NEW p \in EarlyPlaces \cup {"start"}, NEW i \in Nat,
         \/ To(c, p) /\ i = call[c].row
         \/ With(c, p, i),
         UNCHANGED <<day, recorded, begun, going, slot, tick, doubts>>,
         Awaited(c) => \A y \in Call : y.at = p /\ y.row = i => AttemptInv(y)
  PROVE  ScheduleInv' /\ MarginInv'
<1>1. call[c] # Off /\ call[c] \in Call
  BY CallKinds DEF KeyInv, EarlyPlaces
<1>2. PICK x \in Call : /\ call' = [call EXCEPT ![c] = x] /\ x.at = p /\ x.key = call[c].key
                        /\ x.row = i /\ x.awaited = call[c].awaited
  <2>1. p \in {"check", "describe", "find", "release", "insert", "reread", "start",
               "started", "failed"}
    BY DEF EarlyPlaces
  <2> QED
    BY <1>1, <2>1, CallBecomes
<1>3. /\ x.at \notin {"off", "started"} /\ call[c].at \notin {"off", "started"}
      /\ x.at \in EarlyPlaces \cup {"start", "failed"}
  BY <1>2 DEF EarlyPlaces
<1>4. Awaited(c) <=> x.awaited
  BY <1>2, <1>3 DEF Awaited
<1>5. ScheduleInv'
  <2>1. x.key \in Slots /\ x.key <= slot /\ (x.awaited => x.key = slot /\ tick' = "waiting")
    BY <1>2, <1>3, <1>4, OneAwaited DEF ScheduleInv
  <2>2. x.awaited => \A d \in Callers : Awaited(d) => d = c
    BY <1>4, OneAwaited
  <2>3. \A j \in Execs' : /\ recorded'[j].asked \in Slots /\ recorded'[j].asked <= slot
                          /\ recorded'[j].named => begun'[j] = 1
                          /\ begun'[j] = 0 => j \notin going'
    BY DEF ScheduleInv, Execs
  <2> QED
    BY <1>2, <1>3, <2>1, <2>2, <2>3, CallKeepsSchedule
<1>6. /\ Margin \in Int /\ Margin' \in Int
      /\ Margin' = Margin + doubts' - doubts + Weight(call[c]) - Weight(x)
  BY <1>2, MarginMoves DEF ScheduleInv
<1>7. /\ Weight(call[c]) \in Nat /\ Weight(x) \in Nat /\ Weight(x) <= Weight(call[c])
      /\ Awaited(c) => Weight(call[c]) = 0 /\ Weight(x) = 0
      /\ doubts \in Nat /\ doubts' = doubts
  <2>1. call[c].awaited \in BOOLEAN /\ doubts \in Nat
    BY <1>1, CallKinds DEF TickInv
  <2>2. CASE Awaited(c)
    <3>1. call[c].awaited /\ x.awaited
      BY <1>4, <2>2 DEF Awaited
    <3>2. Weight(call[c]) = 0 /\ Weight(x) = 0
      BY <1>1, <1>2, <3>1, Weights
    <3> QED
      BY <2>1, <3>2
  <2>3. CASE ~Awaited(c)
    <3>1. ~call[c].awaited /\ ~x.awaited
      BY <1>2, <1>4, <2>3
    <3>2. Weight(call[c]) = 2 /\ Weight(x) \in {0, 1, 2}
      BY <1>1, <1>2, <3>1, Weights
    <3> QED
      BY <2>1, <2>3, <3>2
  <2> QED
    BY <2>2, <2>3
<1>8. CASE Awaited(c)
  <2>1. Margin' = Margin
    BY <1>6, <1>7, <1>8
  <2>2. AttemptInv(x)
    BY <1>2, <1>8
  <2> QED
    BY <1>2, <1>3, <1>5, <1>8, <2>1, <2>2, OneAwaited, AttemptMoves
<1>9. CASE ~Awaited(c)
  <2>1. Margin' >= Margin
    BY <1>6, <1>7
  <2>2. AttemptsKept
    BY <1>2, <1>4, <1>9, OrphanKept
  <2> QED
    BY <1>5, <1>6, <2>1, <2>2, RowsSame, OthersMove
<1> QED
  BY <1>8, <1>9

(* The end of a call that leaves the rows as they are.                        *)
LEMMA CallIsOver ==
  ASSUME KeyInv, TickInv, TickInv', ScheduleInv, MarginInv, NEW c \in Callers,
         call[c] # Off, NEW x \in {Off} \cup Call, call' = [call EXCEPT ![c] = x],
         ~(x.at # "off" /\ x.awaited),
         x.at # "off" => x.at = call[c].at /\ x.key = call[c].key /\ x.row = call[c].row,
         Awaited(c) \/ UNCHANGED tick,
         UNCHANGED <<day, recorded, begun, going, slot>>,
         \/ x = Off /\ doubts' >= doubts /\ (call[c].at = "started" => doubts' >= doubts + 1)
         \/ x = Off /\ doubts' = doubts /\ call[c].at # "started"
         \/ doubts' = doubts + 2
  PROVE  ScheduleInv' /\ MarginInv'
<1>1. call[c] \in Call /\ call[c].at # "off"
  BY CallKinds DEF KeyInv
<1>2. ScheduleInv'
  <2>1. x.at # "off" => /\ x.key \in Slots /\ x.key <= slot
                        /\ x.at = "started" => begun'[x.row] = 1
                        /\ x.awaited => x.key = slot /\ tick' = "waiting"
    BY <1>1 DEF ScheduleInv
  <2>2. tick' = tick \/ (\A d \in Callers : Awaited(d) => d = c)
    BY OneAwaited
  <2>3. \A j \in Execs' : /\ recorded'[j].asked \in Slots /\ recorded'[j].asked <= slot
                          /\ recorded'[j].named => begun'[j] = 1
                          /\ begun'[j] = 0 => j \notin going'
    BY DEF ScheduleInv, Execs
  <2> QED
    BY <2>1, <2>2, <2>3, CallKeepsSchedule
<1>3. /\ Margin \in Int /\ Margin' \in Int
      /\ Margin' = Margin + doubts' - doubts + Weight(call[c]) - Weight(x)
  BY MarginMoves DEF ScheduleInv
<1>4. /\ Weight(call[c]) \in {0, 1, 2} /\ Weight(x) \in {0, 1, 2} /\ (x = Off => Weight(x) = 0)
      /\ call[c].at = "started" => Weight(call[c]) = 0 /\ Weight(x) = 0
      /\ doubts \in Nat /\ doubts' \in Nat
  <2>1. x # Off => x \in Call /\ x.at # "off"
    BY CallKinds
  <2>2. doubts \in Nat /\ doubts' \in Nat
    BY DEF TickInv
  <2>3. call[c].at = "started" => x = Off \/ x.at = "started"
    BY <2>1
  <2> QED
    BY <1>1, <2>1, <2>2, <2>3, Weights
<1>5. Margin' >= Margin /\ (call[c].at = "started" /\ (Awaited(c) \/ x # Off) => Margin' >= Margin + 1)
  BY <1>3, <1>4
<1>6. CASE Awaited(c)
  BY <1>2, <1>3, <1>5, <1>6, AttemptIsOver
<1>7. CASE ~Awaited(c)
  <2>1. AttemptsKept
    BY <1>7, OrphanKept
  <2> QED
    BY <1>2, <1>3, <1>5, <2>1, RowsSame, OthersMove
<1> QED
  BY <1>6, <1>7

LEMMA CallCloses ==
  ASSUME KeyInv, TickInv, TickInv', ScheduleInv, MarginInv, NEW c \in Callers, call[c] # Off,
         Succeed(c) \/ Fail(c), UNCHANGED <<day, recorded, begun, going, slot>>,
         \/ doubts' >= doubts /\ (call[c].at = "started" => doubts' >= doubts + 1)
         \/ doubts' = doubts /\ call[c].at # "started"
  PROVE  ScheduleInv' /\ MarginInv'
<1>1. call' = [call EXCEPT ![c] = Off] /\ Off.at = "off"
  BY CallKinds DEF Succeed, Fail
<1>2. Awaited(c) \/ UNCHANGED tick
  <2>1. call[c].at # "off"
    BY CallKinds DEF KeyInv
  <2> QED
    BY <2>1 DEF Succeed, Fail, Awaited
<1> QED
  BY <1>1, <1>2, CallIsOver

LEMMA AttemptTurns ==
  ASSUME KeyInv, TickInv, TickInv', ScheduleInv, MarginInv, NEW c \in Callers,
         BeginAttempt(c) \/ AttemptTimesOut(c)
  PROVE  ScheduleInv' /\ MarginInv'
<1>1. CASE BeginAttempt(c)
  <2> DEFINE x == [at |-> "check", key |-> slot, row |-> 0, awaited |-> TRUE]
  <2>1. slot \in Slots /\ slot \in Nat
    BY <1>1 DEF BeginAttempt, KeyInv, Slots
  <2>2. x \in Call /\ x.at = "check" /\ x.key = slot /\ x.awaited
    BY <2>1, KeyKinds DEF Call
  <2>3. call' = [call EXCEPT ![c] = x] /\ tick' = "waiting" /\ call[c] = Off /\ tick = "due"
    BY <1>1 DEF BeginAttempt
  <2>4. UNCHANGED <<day, recorded, begun, going, slot, doubts>>
    BY <1>1 DEF BeginAttempt, execVars
  <2> HIDE DEF x
  <2>5. \A d \in Callers : ~Awaited(d)
    BY <2>3 DEF ScheduleInv
  <2>6. ScheduleInv'
    <3>1. \A j \in Execs' : /\ recorded'[j].asked \in Slots /\ recorded'[j].asked <= slot
                            /\ recorded'[j].named => begun'[j] = 1
                            /\ begun'[j] = 0 => j \notin going'
      BY <2>4 DEF ScheduleInv, Execs
    <3>2. x \in {Off} \cup Call /\ slot <= slot
      BY <2>1, <2>2
    <3> QED
      BY <2>1, <2>2, <2>3, <2>4, <2>5, <3>1, <3>2, CallKeepsSchedule
  <2>7. Margin' = Margin
    <3>1. Weight(x) = 0 /\ Weight(call[c]) = 0 /\ doubts \in Nat /\ doubts' = doubts
      BY <2>2, <2>3, <2>4, Weights DEF TickInv
    <3>2. Margin \in Int /\ Margin' = Margin + doubts' - doubts + Weight(call[c]) - Weight(x)
      BY <2>2, <2>3, <2>4, MarginMoves DEF ScheduleInv
    <3> QED
      BY <3>1, <3>2
  <2>8. AttemptInv(x) /\ call[c].at # "started"
    BY <2>2, <2>3, CallKinds DEF AttemptInv
  <2> QED
    BY <2>2, <2>3, <2>4, <2>5, <2>6, <2>7, <2>8, AttemptMoves
<1>2. CASE AttemptTimesOut(c)
  <2> DEFINE x == [call[c] EXCEPT !.awaited = FALSE]
  <2>1. call[c] \in Call /\ call[c] # Off /\ Awaited(c)
    BY <1>2, CallKinds DEF AttemptTimesOut, KeyInv, Awaited
  <2>2. x \in Call /\ x.at = call[c].at /\ x.key = call[c].key /\ x.row = call[c].row /\ x.awaited = FALSE
    BY <2>1 DEF Call
  <2>3. call' = [call EXCEPT ![c] = x] /\ doubts' = doubts + 2
    BY <1>2 DEF AttemptTimesOut
  <2>4. UNCHANGED <<day, recorded, begun, going, slot>>
    BY <1>2 DEF AttemptTimesOut, execVars
  <2> HIDE DEF x
  <2> QED
    BY <2>1, <2>2, <2>3, <2>4, CallIsOver
<1> QED
  BY <1>1, <1>2

(* The row of the key, once it was read. *)
LEMMA HoldTurns ==
  ASSUME KeyInv, TickInv, TickInv', ScheduleInv, MarginInv, NEW c \in Callers,
         call[c].at \in {"find", "reread"}, NEW i \in Under(call[c].key),
         Hold(c, i), UNCHANGED <<day, recorded, begun, going, slot, doubts>>
  PROVE  ScheduleInv' /\ MarginInv'
<1>1. /\ call[c] # Off /\ call[c].at \in EarlyPlaces /\ call[c].at # "started"
      /\ doubts \in Nat /\ doubts' = doubts
  BY CallKinds DEF EarlyPlaces, TickInv
<1>2. i \in Execs /\ i \in Nat /\ Execs # {}
  BY RowFacts DEF Under, KeyInv
<1>3. CASE recorded[i].named
  BY <1>1, <1>3, CallCloses DEF Hold
<1>4. CASE ~recorded[i].named
  <2>1. With(c, "start", i) /\ UNCHANGED tick
    BY <1>4 DEF Hold
  <2>2. ASSUME Awaited(c), NEW y \in Call, y.at = "start", y.row = i PROVE AttemptInv(y)
    <3>1. ~Naming /\ i \in Under(slot)
      BY <1>1, <2>2, OneAwaited
    <3>2. CASE i = LastRow
      <4>1. Blind
        BY <1>4, <3>2 DEF Blind
      <4>2. Margin >= 0
        BY <3>1, <4>1 DEF MarginInv
      <4> QED
        BY <2>2, <3>2, <4>2 DEF AttemptInv
    <3>3. CASE i # LastRow
      <4>1. Margin >= 0 /\ Margin >= 1
        BY <1>4, <3>1, <3>3 DEF MarginInv
      <4> QED
        BY <2>2, <4>1 DEF AttemptInv
    <3> QED
      BY <3>2, <3>3
  <2> QED
    BY <1>1, <1>2, <2>1, <2>2, CallLooks
<1> QED
  BY <1>3, <1>4

LEMMA LookTurns ==
  ASSUME KeyInv, TickInv, TickInv', ScheduleInv, MarginInv, NEW c \in Callers,
         CheckPrevious(c) \/ Describe(c) \/ FindKeyed(c) \/ ReadRaced(c) \/ Breaks(c)
  PROVE  ScheduleInv' /\ MarginInv'
<1>1. /\ call[c] # Off /\ call[c] \in Call /\ UNCHANGED <<day, recorded, begun, going, slot>>
      /\ call[c].row \in Nat
  BY CallKinds
     DEF KeyInv, CheckPrevious, Describe, FindKeyed, ReadRaced, Breaks, execVars, tickVars
<1>2. doubts \in Nat
  BY DEF TickInv
<1>3. Awaited(c) /\ call[c].at # "started" => (Blind => Margin >= 0) /\ call[c].key = slot
  BY OneAwaited DEF MarginInv
<1>4. Awaited(c) => AttemptInv(call[c])
  BY DEF MarginInv
<1>5. CASE CheckPrevious(c)
  <2>1. call[c].at = "check" /\ call[c].at \in EarlyPlaces /\ UNCHANGED <<tick, doubts>>
    BY <1>5 DEF CheckPrevious, tickVars, EarlyPlaces
  <2>2. CASE Scheduled = {} \/ recorded[Latest].key = call[c].key
    <3>1. To(c, "find")
      BY <1>5, <2>2 DEF CheckPrevious
    <3>2. ASSUME Awaited(c) PROVE Under(slot) = {} => Margin >= 0
      <4>1. CASE Execs = {}
        BY <1>3, <2>1, <3>2, <4>1 DEF Blind
      <4>2. CASE Execs # {}
        <5>1. Latest \in Execs /\ recorded[Latest].key = slot
          BY <1>3, <2>1, <2>2, <3>2, <4>2, LastIsLatest
        <5> QED
          BY <5>1 DEF Under
      <4> QED
        BY <4>1, <4>2
    <3>3. Awaited(c) => \A y \in Call : y.at = "find" /\ y.row = call[c].row => AttemptInv(y)
      BY <3>2 DEF AttemptInv
    <3>4. "find" \in EarlyPlaces \cup {"start"}
      BY DEF EarlyPlaces
    <3> QED
      BY <1>1, <2>1, <3>1, <3>3, <3>4, CallLooks
  <2>3. CASE ~(Scheduled = {} \/ recorded[Latest].key = call[c].key)
    <3>1. PICK i \in Nat : With(c, "describe", i) /\ i = (IF recorded[Latest].named THEN Latest ELSE 0)
      <4>1. Latest \in Nat
        BY <2>3, LatestIsRow DEF KeyInv
      <4> QED
        BY <1>5, <2>3, <4>1 DEF CheckPrevious
    <3>2. Latest = LastRow
      BY <2>3, LastIsLatest, DayFacts
    <3>3. Awaited(c) => Margin >= 0 \/ i = LastRow
      BY <1>3, <2>1, <3>1, <3>2 DEF Blind
    <3>4. Awaited(c) => \A y \in Call : y.at = "describe" /\ y.row = i => AttemptInv(y)
      BY <3>3 DEF AttemptInv
    <3>5. "describe" \in EarlyPlaces \cup {"start"}
      BY DEF EarlyPlaces
    <3> QED
      BY <1>1, <2>1, <3>1, <3>4, <3>5, CallLooks
  <2> QED
    BY <2>2, <2>3
<1>6. CASE Describe(c)
  <2>1. call[c].at = "describe" /\ call[c].at \in EarlyPlaces /\ UNCHANGED doubts
    BY <1>6 DEF Describe, EarlyPlaces
  <2>2. CASE call[c].row \in going
    <3>1. Succeed(c)
      BY <1>6, <2>2 DEF Describe
    <3> QED
      BY <1>1, <1>2, <2>1, <3>1, CallCloses
  <2>3. CASE call[c].row \notin going
    <3>1. With(c, "find", 0) /\ UNCHANGED tick
      BY <1>6, <2>3 DEF Describe
    <3>2. ASSUME Awaited(c) PROVE Under(slot) = {} => Margin >= 0
      BY <1>3, <1>4, <2>1, <2>3, <3>2 DEF AttemptInv, Blind
    <3>3. Awaited(c) => \A y \in Call : y.at = "find" /\ y.row = 0 => AttemptInv(y)
      BY <3>2 DEF AttemptInv
    <3>4. "find" \in EarlyPlaces \cup {"start"}
      BY DEF EarlyPlaces
    <3> QED
      BY <1>1, <2>1, <3>1, <3>3, <3>4, CallLooks
  <2> QED
    BY <2>2, <2>3
<1>7. CASE FindKeyed(c)
  <2>1. call[c].at = "find" /\ call[c].at \in EarlyPlaces /\ UNCHANGED doubts
    BY <1>7 DEF FindKeyed, EarlyPlaces
  <2>2. CASE Under(call[c].key) = {} /\ To(c, "insert") /\ UNCHANGED tick
    <3>1. Awaited(c) => (Under(slot) = {} => Margin >= 0)
      BY <1>4, <2>1 DEF AttemptInv
    <3>2. Awaited(c) => \A y \in Call : y.at = "insert" /\ y.row = call[c].row => AttemptInv(y)
      BY <3>1 DEF AttemptInv
    <3>3. "insert" \in EarlyPlaces \cup {"start"}
      BY DEF EarlyPlaces
    <3> QED
      BY <1>1, <2>1, <2>2, <3>2, <3>3, CallLooks
  <2>3. ASSUME NEW i \in Under(call[c].key), Hold(c, i) PROVE ScheduleInv' /\ MarginInv'
    BY <1>1, <2>1, <2>3, HoldTurns
  <2>4. ASSUME NEW i \in Under(call[c].key), ~(day - recorded[i].since < Window) PROVE FALSE
    <3>1. i \in Execs /\ ~Old(i)
      BY DayFacts DEF Under
    <3>2. recorded[i].since \in Nat /\ day = 0
      BY <3>1, RowFacts, RowKinds DEF KeyInv, ScheduleInv
    <3> QED
      BY <2>4, <3>1, <3>2 DEF Old
  <2> QED
    BY <1>7, <2>2, <2>3, <2>4 DEF FindKeyed
<1>8. CASE ReadRaced(c)
  <2>1. call[c].at = "reread" /\ UNCHANGED doubts
    BY <1>8 DEF ReadRaced
  <2>2. CASE Fail(c)
    BY <1>1, <1>2, <2>1, <2>2, CallCloses
  <2>3. ASSUME NEW i \in Under(call[c].key), Hold(c, i) PROVE ScheduleInv' /\ MarginInv'
    BY <1>1, <2>1, <2>3, HoldTurns
  <2> QED
    BY <1>8, <2>2, <2>3 DEF ReadRaced
<1>9. CASE Breaks(c)
  <2>1. Fail(c) /\ doubts' = IF call[c].at = "started" THEN doubts + 1 ELSE doubts
    BY <1>9 DEF Breaks
  <2>2. doubts' >= doubts /\ (call[c].at = "started" => doubts' >= doubts + 1)
    BY <1>2, <2>1
  <2> QED
    BY <1>1, <2>1, <2>2, CallCloses
<1> QED
  BY <1>5, <1>6, <1>7, <1>8, <1>9

LEMMA InsertTurns ==
  ASSUME KeyInv, KeyInv', TickInv, TickInv', ScheduleInv, MarginInv, NEW c \in Callers, InsertKeyed(c)
  PROVE  ScheduleInv' /\ MarginInv'
<1>1. /\ call[c] # Off /\ call[c] \in Call /\ UNCHANGED <<day, slot, tick, going, doubts>>
      /\ call[c].at = "insert" /\ Len(recorded) \in Nat /\ call[c].at \in EarlyPlaces
      /\ call[c].row \in Nat
  BY CallKinds, RowFacts DEF KeyInv, InsertKeyed, tickVars, EarlyPlaces
<1>2. CASE Under(call[c].key) # {}
  <2>1. To(c, "reread") /\ UNCHANGED <<recorded, begun>> /\ "reread" \in EarlyPlaces \cup {"start"}
    BY <1>2 DEF InsertKeyed, EarlyPlaces
  <2>2. \A y \in Call : y.at = "reread" => AttemptInv(y)
    BY DEF AttemptInv
  <2> QED
    BY <1>1, <2>1, <2>2, CallLooks
<1>3. CASE Under(call[c].key) = {}
  <2>1. PICK n \in Nat : n = Len(recorded) + 1
    BY <1>1
  <2>2. PICK x \in Call : /\ call' = [call EXCEPT ![c] = x] /\ x.at = "start"
                          /\ x.key = call[c].key /\ x.row = n /\ x.awaited = call[c].awaited
    <3>1. With(c, "start", n)
      BY <1>3, <2>1 DEF InsertKeyed
    <3> QED
      BY <1>1, <3>1, CallBecomes
  <2>3. PICK r : r = [key |-> call[c].key, asked |-> call[c].key, named |-> FALSE, since |-> day]
    OBVIOUS
  <2>4. recorded' = Append(recorded, r) /\ begun' = Append(begun, 0)
    BY <1>3, <2>3 DEF InsertKeyed
  <2>5. r.key = call[c].key /\ r.asked = call[c].key /\ r.named = FALSE
    BY <2>3
  <2>6. /\ Execs' = Execs \cup {n} /\ LastRow' = n /\ n \notin Execs
        /\ recorded'[n] = r /\ begun'[n] = 0
        /\ \A j \in Execs : recorded'[j] = recorded[j] /\ begun'[j] = begun[j]
    <3>1. /\ recorded \in Seq(Exec) /\ begun \in Seq({0, 1}) /\ Len(begun) = Len(recorded)
          /\ Execs = 1..Len(recorded)
      BY RowFacts DEF KeyInv
    <3>2. /\ Len(recorded') = n /\ recorded'[n] = r
          /\ \A j \in Execs : recorded'[j] = recorded[j]
      BY <2>1, <2>4, <3>1
    <3>3. begun'[n] = 0 /\ \A j \in Execs : begun'[j] = begun[j]
      BY <2>1, <2>4, <3>1
    <3>4. Execs' = 1..Len(recorded')
      <4>1. recorded' \in Seq(Exec)
        BY DEF KeyInv
      <4> QED
        BY <4>1 DEF Execs
    <3> QED
      BY <2>1, <3>1, <3>2, <3>3, <3>4 DEF LastRow
  <2>7. Awaited(c) <=> x.awaited
    BY <1>1, <2>2 DEF Awaited
  <2>8. ScheduleInv'
    <3>1. x.key \in Slots /\ x.key <= slot /\ (x.awaited => x.key = slot /\ tick' = "waiting")
      BY <1>1, <2>2, <2>7, OneAwaited DEF ScheduleInv
    <3>2. x.awaited => \A d \in Callers : Awaited(d) => d = c
      BY <2>7, OneAwaited
    <3>3. going \subseteq Execs
      BY DEF TickInv
    <3>4. ASSUME NEW j \in Execs'
          PROVE  /\ recorded'[j].asked \in Slots /\ recorded'[j].asked <= slot
                 /\ recorded'[j].named => begun'[j] = 1
                 /\ begun'[j] = 0 => j \notin going'
      <4>1. CASE j = n
        BY <1>1, <2>2, <2>5, <2>6, <3>1, <3>3, <4>1
      <4>2. CASE j \in Execs
        BY <1>1, <2>6, <4>2 DEF ScheduleInv
      <4> QED
        BY <2>6, <4>1, <4>2
    <3>5. \A j \in Execs : begun[j] = 1 => begun'[j] = 1
      BY <2>6
    <3> QED
      BY <1>1, <2>2, <3>1, <3>2, <3>4, <3>5, CallKeepsSchedule
  <2>9. /\ Margin \in Int /\ Margin' \in Int
        /\ Margin' = Margin + doubts' - doubts + Weight(call[c]) - Weight(x)
    BY <1>1, <2>2, MarginMoves DEF ScheduleInv
  <2>10. doubts \in Nat /\ doubts' = doubts /\ call[c].awaited \in BOOLEAN
    BY <1>1, CallKinds DEF TickInv
  <2>11. RowAdded
    BY <2>6 DEF RowAdded
  <2>12. CASE ~Awaited(c)
    <3>1. Weight(call[c]) = 2 /\ Weight(x) = 1
      BY <1>1, <2>2, <2>7, <2>10, <2>12, Weights
    <3>2. Margin' >= Margin + 1
      BY <2>9, <2>10, <3>1
    <3>3. AttemptsKept
      BY <2>2, <2>7, <2>12, OrphanKept
    <3> QED
      BY <1>1, <2>8, <2>9, <2>11, <3>2, <3>3, OthersMove
  <2>13. CASE Awaited(c)
    <3>1. Weight(call[c]) = 0 /\ Weight(x) = 0
      BY <1>1, <2>2, <2>7, <2>13, Weights
    <3>2. Margin' = Margin
      BY <2>9, <2>10, <3>1
    <3>3. Margin >= 0
      <4>1. AttemptInv(call[c]) /\ call[c].key = slot
        BY <2>13, OneAwaited DEF MarginInv
      <4> QED
        BY <1>1, <1>3, <4>1 DEF AttemptInv
    <3>4. ASSUME NEW i \in Under(slot)', i # LastRow' PROVE FALSE
      <4>1. i \in Execs' /\ recorded'[i].key = slot
        BY <1>1, <3>4 DEF Under
      <4>2. i \in Execs /\ recorded[i].key = call[c].key
        BY <2>6, <2>13, <3>4, <4>1, OneAwaited
      <4> QED
        BY <1>3, <4>2 DEF Under
    <3>5. ASSUME NEW d \in Callers, Awaited(d)' PROVE AttemptInv(call[d])'
      <4>1. call'[c] = x /\ \A e \in Callers : e # c => call'[e] = call[e]
        BY <2>2 DEF KeyInv
      <4>2. d = c
        BY <2>13, <3>5, <4>1, OneAwaited DEF Awaited
      <4>3. call'[d].at = "start" /\ call'[d].row = LastRow' /\ Margin' >= 0
        BY <2>2, <2>6, <3>2, <3>3, <4>1, <4>2
      <4> QED
        BY <4>3 DEF AttemptInv
    <3> QED
      BY <2>8, <2>9, <3>2, <3>3, <3>4, <3>5 DEF MarginInv
  <2> QED
    BY <2>12, <2>13
<1> QED
  BY <1>2, <1>3

(* A start that is heard of, or not. *)
LEMMA StartTurns ==
  ASSUME KeyInv, TickInv, TickInv', ScheduleInv, MarginInv, NEW c \in Callers,
         StartKeyed(c) \/ StartKeyedFails(c)
  PROVE  ScheduleInv' /\ MarginInv'
<1>1. /\ call[c] # Off /\ call[c] \in Call /\ UNCHANGED <<day, recorded, slot, tick>>
      /\ call[c].at = "start" /\ call[c].row \in Nat /\ call[c].awaited \in BOOLEAN
  BY CallKinds DEF KeyInv, StartKeyed, StartKeyedFails, tickVars
<1>2. PICK i \in Execs : i = call[c].row
  BY <1>1 DEF KeyInv, CallInv, Armed
<1>3. /\ begun \in Seq({0, 1}) /\ i \in 1..Len(begun) /\ Execs' = Execs /\ LastRow' = LastRow
      /\ DOMAIN begun = Execs
  BY <1>1, <1>2, RowFacts DEF KeyInv, Execs, LastRow
<1>4. PICK p \in {"started", "failed"} : To(c, p) /\ (p = "started" <=> StartKeyed(c))
  BY DEF StartKeyed, StartKeyedFails
<1>5. PICK x \in Call : /\ call' = [call EXCEPT ![c] = x] /\ x.at = p
                        /\ x.key = call[c].key /\ x.row = i /\ x.awaited = call[c].awaited
  BY <1>1, <1>2, <1>4, CallBecomes
<1>6. doubts \in Nat /\ doubts' \in Nat
  BY DEF TickInv
<1>7. /\ begun' = begun \/ begun' = [begun EXCEPT ![i] = 1]
      /\ going' = going \/ (going' = going \cup {i} /\ begun[i] = 0 /\ begun'[i] = 1)
      /\ p = "started" => begun'[i] = 1 /\ doubts' = doubts
      /\ p = "failed" => \/ going' = going /\ doubts' >= doubts
                         \/ doubts' = doubts + 1
  <2>1. ASSUME Started(i)
        PROVE  /\ begun' = begun \/ begun' = [begun EXCEPT ![i] = 1]
               /\ going' = going \/ (going' = going \cup {i} /\ begun[i] = 0 /\ begun'[i] = 1)
               /\ begun'[i] = 1
    <3>1. CASE begun[i] = 0
      BY <1>3, <2>1, <3>1 DEF Started
    <3>2. CASE begun[i] = 1
      BY <2>1, <3>2 DEF Started
    <3>3. begun[i] \in {0, 1}
      BY <1>3
    <3> QED
      BY <3>1, <3>2, <3>3
  <2>2. CASE StartKeyed(c)
    <3>1. Started(i) /\ doubts' = doubts /\ p = "started"
      BY <1>2, <1>4, <2>2 DEF StartKeyed
    <3> QED
      BY <2>1, <3>1
  <2>3. CASE StartKeyedFails(c) /\ ~StartKeyed(c)
    <3>1. p = "failed"
      BY <1>4, <2>3
    <3>2. CASE UNCHANGED <<begun, going, doubts>>
      BY <1>6, <3>1, <3>2
    <3>3. CASE Started(i) /\ doubts' = doubts + 1
      BY <2>1, <3>1, <3>3
    <3> QED
      BY <1>2, <2>3, <3>2, <3>3 DEF StartKeyedFails
  <2> QED
    BY <2>2, <2>3
<1>8. begun'[i] \in {0, 1} /\ \A j \in Execs : begun[j] = 1 => begun'[j] = 1
  BY <1>3, <1>7
<1>9. Awaited(c) <=> x.awaited
  BY <1>1, <1>5 DEF Awaited
<1>10. ScheduleInv'
  <2>1. x.key \in Slots /\ x.key <= slot /\ (x.awaited => x.key = slot /\ tick' = "waiting")
    BY <1>1, <1>5, <1>9, OneAwaited DEF ScheduleInv
  <2>2. x.awaited => \A d \in Callers : Awaited(d) => d = c
    BY <1>9, OneAwaited
  <2>3. ASSUME NEW j \in Execs'
        PROVE  /\ recorded'[j].asked \in Slots /\ recorded'[j].asked <= slot
               /\ recorded'[j].named => begun'[j] = 1
               /\ begun'[j] = 0 => j \notin going'
    <3>1. j \in Execs /\ recorded'[j] = recorded[j]
      BY <1>1, <1>3
    <3>2. begun'[j] = 0 => begun[j] = 0
      BY <1>3, <1>7, <3>1
    <3>3. begun'[j] = 0 => j \notin going'
      BY <1>7, <3>1, <3>2 DEF ScheduleInv
    <3> QED
      BY <1>8, <3>1, <3>3 DEF ScheduleInv
  <2>4. x.at = "started" => begun'[x.row] = 1
    BY <1>5, <1>7
  <2> QED
    BY <1>1, <1>5, <1>7, <1>8, <2>1, <2>2, <2>3, <2>4, CallKeepsSchedule
<1>11. /\ Margin \in Int /\ Margin' \in Int
       /\ going' = going => Margin' = Margin + doubts' - doubts + Weight(call[c]) - Weight(x)
       /\ Margin' >= Margin + doubts' - doubts + Weight(call[c]) - Weight(x) - 1
  BY <1>5, <1>7, MarginMoves DEF ScheduleInv
<1>15. PICK before \in Nat, after \in Nat : before = doubts /\ after = doubts'
  BY <1>6
<1>16. PICK grown \in Int : grown = after - before
  OBVIOUS
<1>18. /\ going' = going => Margin' = Margin + grown + Weight(call[c]) - Weight(x)
       /\ Margin' >= Margin + grown + Weight(call[c]) - Weight(x) - 1
  <2>1. PICK w \in Int : w = Weight(call[c])
    BY <1>1, Weights
  <2>2. PICK v \in Int : v = Weight(x)
    BY Weights
  <2>3. /\ going' = going => Margin' = Margin + after - before + w - v
        /\ Margin' >= Margin + after - before + w - v - 1
    BY <1>11, <1>15, <2>1, <2>2
  <2>4. Margin + after - before + w - v = Margin + grown + w - v
    BY <1>11, <1>16
  <2>5. /\ going' = going => Margin' = Margin + grown + w - v
        /\ Margin' >= Margin + grown + w - v - 1
    BY <1>11, <1>16, <2>3, <2>4
  <2> QED
    BY <2>1, <2>2, <2>5
<1>17. /\ p = "started" => grown = 0
       /\ p = "failed" => (going' = going /\ grown >= 0) \/ grown = 1
  <2>1. /\ p = "started" => after = before
        /\ p = "failed" => (going' = going /\ after >= before) \/ after = before + 1
    BY <1>7, <1>15
  <2> QED
    BY <1>16, <2>1
<1>12. going \subseteq going'
  BY <1>7
<1>13. CASE ~Awaited(c)
  <2>1. ~x.awaited /\ ~call[c].awaited
    BY <1>5, <1>9, <1>13
  <2>2. Weight(call[c]) = 1 /\ (p = "started" => Weight(x) = 0) /\ (p = "failed" => Weight(x) = 1)
    BY <1>1, <1>5, <2>1, Weights
  <2>3. Margin' >= Margin
    <3>1. CASE p = "started"
      BY <1>11, <1>17, <1>18, <2>2, <3>1
    <3>2. CASE p = "failed"
      BY <1>11, <1>17, <1>18, <2>2, <3>2
    <3> QED
      BY <3>1, <3>2
  <2>4. AttemptsKept
    BY <1>5, <1>13, <2>1, OrphanKept
  <2> QED
    BY <1>1, <1>10, <1>11, <1>12, <2>3, <2>4, RowsSame, OthersMove
<1>14. CASE Awaited(c)
  <2>1. Weight(call[c]) = 0 /\ Weight(x) = 0
    BY <1>1, <1>5, <1>9, <1>14, Weights
  <2>2. Margin >= 0 /\ (i # LastRow => Margin >= 1) /\ call[c].key = slot
    BY <1>1, <1>2, <1>14, OneAwaited DEF MarginInv, AttemptInv
  <2>3. call'[c] = x /\ \A d \in Callers : d # c => call'[d] = call[d]
    BY <1>5 DEF KeyInv
  <2>4. Naming' <=> p = "started"
    BY <1>5, <1>9, <1>14, <2>3, OneAwaited DEF Naming, Awaited
  <2>5. \A j \in Under(slot)' : j = i
    <3>1. recorded[i].key = slot
      <4>1. recorded[i].asked = slot
        BY <1>1, <1>2, <2>2 DEF KeyInv, CallInv, Armed
      <4> QED
        BY <1>2, <4>1, DayFacts
    <3>2. Under(slot)' = Under(slot)
      BY <1>1, <1>3 DEF Under
    <3> QED
      BY <1>2, <3>1, <3>2, DayFacts DEF Under
  <2>6. /\ Margin' >= Margin - 1
        /\ p = "failed" => Margin' >= Margin
        /\ p = "started" /\ going' = going => Margin' = Margin
    BY <1>4, <1>11, <1>17, <1>18, <2>1
  <2>7. Margin' >= -1 /\ (Blind' /\ ~Naming' => Margin' >= 0)
    BY <1>4, <1>11, <2>2, <2>4, <2>6
  <2>8. ASSUME NEW j \in Under(slot)', j # LastRow'
        PROVE  Margin' >= 0 /\ (~recorded'[j].named /\ ~Naming' => Margin' >= 1)
    <3>1. Margin >= 1
      BY <1>3, <2>2, <2>5, <2>8
    <3> QED
      BY <1>4, <1>11, <2>4, <2>6, <3>1
  <2>9. ASSUME NEW d \in Callers, Awaited(d)' PROVE AttemptInv(call[d])'
    <3>1. d = c
      BY <1>14, <2>3, <2>9, OneAwaited DEF Awaited
    <3>2. call'[d] = x
      BY <2>3, <3>1
    <3>3. CASE p = "failed"
      <4>1. Margin' >= 0 /\ (x.row # LastRow' => Margin' >= 1)
        BY <1>3, <1>5, <1>11, <2>2, <2>6, <3>3
      <4> QED
        BY <1>5, <3>2, <3>3, <4>1 DEF AttemptInv
    <3>4. CASE p = "started"
      <4>1. Margin' >= 0 \/ (x.row = LastRow' /\ x.row \in going')
        <5>1. CASE going' = going
          BY <1>11, <2>2, <2>6, <3>4, <5>1
        <5>2. CASE i \in going'
          BY <1>3, <1>5, <1>11, <2>2, <2>6, <5>2
        <5> QED
          BY <1>7, <5>1, <5>2
      <4> QED
        BY <1>5, <3>2, <3>4, <4>1 DEF AttemptInv
    <3> QED
      BY <3>3, <3>4
  <2> QED
    BY <1>10, <2>7, <2>8, <2>9 DEF MarginInv
<1> QED
  BY <1>13, <1>14

(* A save names the row, or forgets that another caller has named it.         *)
LEMMA SaveTurns ==
  ASSUME KeyInv, KeyInv', TickInv, TickInv', ScheduleInv, MarginInv, NEW c \in Callers,
         SaveNamed(c) \/ SaveUnstarted(c)
  PROVE  ScheduleInv' /\ MarginInv'
<1>1. /\ call[c] # Off /\ call[c] \in Call /\ UNCHANGED <<day, begun, going, slot, doubts>>
      /\ call[c].at \in {"started", "failed"} /\ call[c].awaited \in BOOLEAN
      /\ CallInv(call[c])
  BY CallKinds DEF KeyInv, SaveNamed, SaveUnstarted
<1>2. PICK i \in Execs : i = call[c].row /\ recorded[i].key = call[c].key
  <2>1. call[c].row \in Execs /\ recorded[call[c].row].asked = call[c].key
    BY <1>1 DEF CallInv, Armed
  <2> QED
    BY <2>1, DayFacts
<1>3. PICK n \in BOOLEAN : /\ SaveKeyed(c, n) /\ (n <=> call[c].at = "started")
  BY DEF SaveNamed, SaveUnstarted
<1>4. /\ recorded' = [recorded EXCEPT ![i].key = call[c].key, ![i].named = n]
      /\ Succeed(c) \/ Fail(c)
  BY <1>2, <1>3 DEF SaveKeyed
<1>5. /\ recorded \in Seq(Exec) /\ i \in DOMAIN recorded /\ recorded[i] \in Exec
  BY <1>2, RowFacts DEF KeyInv, Execs
<1>6. PICK r : /\ r = [recorded[i] EXCEPT !.key = call[c].key, !.named = n]
               /\ recorded' = [recorded EXCEPT ![i] = r]
  <2>1. recorded' = [recorded EXCEPT ![i] = [recorded[i] EXCEPT !.key = call[c].key, !.named = n]]
    BY <1>4, <1>5
  <2> QED
    BY <2>1
<1>7. r.key = recorded[i].key /\ r.asked = recorded[i].asked /\ r.named = n
  <2>1. r = [key |-> call[c].key, asked |-> recorded[i].asked, named |-> n,
             since |-> recorded[i].since]
    BY <1>5, <1>6, Rewritten
  <2> QED
    BY <1>2, <2>1
<1>8. /\ Execs' = Execs /\ LastRow' = LastRow /\ recorded'[i] = r
      /\ \A j \in Execs : j # i => recorded'[j] = recorded[j]
  <2>1. DOMAIN recorded' = DOMAIN recorded /\ Len(recorded') = Len(recorded)
    BY <1>5, <1>6
  <2>2. recorded'[i] = r /\ \A j \in Execs : j # i => recorded'[j] = recorded[j]
    BY <1>5, <1>6 DEF Execs
  <2> QED
    BY <2>1, <2>2 DEF Execs, LastRow
<1>9. \A j \in Execs : recorded'[j].key = recorded[j].key /\ recorded'[j].asked = recorded[j].asked
  BY <1>7, <1>8
<1>10. RowsKept
  BY <1>8, <1>9 DEF RowsKept
<1>11. /\ call' = [call EXCEPT ![c] = Off] /\ Off.at = "off"
       /\ call[c].at # "off" /\ (Awaited(c) \/ UNCHANGED tick)
  BY <1>1, <1>4, CallKinds DEF Succeed, Fail, Awaited
<1>12. /\ call'[c] = Off /\ \A d \in Callers : d # c => call'[d] = call[d]
  BY <1>11 DEF KeyInv
<1>13. n => begun[i] = 1
  BY <1>1, <1>2, <1>3 DEF ScheduleInv
<1>14. ScheduleInv'
  <2>1. ASSUME NEW j \in Execs'
        PROVE  /\ recorded'[j].asked \in Slots /\ recorded'[j].asked <= slot
               /\ recorded'[j].named => begun'[j] = 1
               /\ begun'[j] = 0 => j \notin going'
    <3>1. j \in Execs
      BY <1>8
    <3>2. recorded'[j].named => begun[j] = 1
      BY <1>7, <1>8, <1>13, <3>1 DEF ScheduleInv
    <3> QED
      BY <1>1, <1>9, <3>1, <3>2 DEF ScheduleInv
  <2>2. tick' = tick \/ (\A d \in Callers : Awaited(d) => d = c)
    BY <1>11, OneAwaited
  <2>3. \A j \in Execs : begun[j] = 1 => begun'[j] = 1
    BY <1>1
  <2> QED
    BY <1>1, <1>11, <2>1, <2>2, <2>3, CallKeepsSchedule
<1>15. /\ Margin \in Int /\ Margin' \in Int
       /\ Margin' = Margin + doubts' - doubts + Weight(call[c]) - Weight(Off)
  BY <1>1, <1>11, MarginMoves DEF ScheduleInv
<1>16. doubts \in Nat /\ doubts' = doubts /\ Weight(Off) = 0
  BY <1>1, Weights DEF TickInv
<1>17. CASE ~Awaited(c)
  <2>1. AttemptsKept
    BY <1>11, <1>17, OrphanKept
  <2>2. CASE n
    <3>1. Weight(call[c]) = 0
      BY <1>1, <1>3, <2>2, Weights
    <3>2. Margin' >= Margin
      BY <1>15, <1>16, <3>1
    <3>3. \A j \in Execs : recorded[j].named => recorded'[j].named
      BY <1>7, <1>8, <2>2
    <3> QED
      BY <1>1, <1>10, <1>14, <1>15, <2>1, <3>2, <3>3, OthersMove
  <2>3. CASE ~n
    <3>1. Weight(call[c]) = 1
      BY <1>1, <1>3, <1>11, <1>17, <2>3, Weights DEF Awaited
    <3>2. Margin' >= Margin + 1
      BY <1>15, <1>16, <3>1
    <3> QED
      BY <1>1, <1>10, <1>14, <1>15, <2>1, <3>2, OthersMove
  <2> QED
    BY <2>2, <2>3
<1>18. CASE Awaited(c)
  <2>1. call[c].key = slot /\ AttemptInv(call[c]) /\ \A d \in Callers : Awaited(d) => d = c
    BY <1>18, OneAwaited DEF MarginInv
  <2>2. \A d \in Callers : ~Awaited(d)'
    BY <1>11, <1>12, <2>1 DEF Awaited
  <2>3. ~Naming' /\ (Naming <=> call[c].at = "started")
    BY <1>18, <2>2, OneAwaited DEF Naming
  <2>4. Margin' = Margin
    <3>1. Weight(call[c]) = 0
      BY <1>1, <1>18, Weights DEF Awaited
    <3> QED
      BY <1>15, <1>16, <3>1
  <2>5. \A j \in Under(slot)' : j = i
    <3>1. \A j \in Execs : recorded[j].key = slot => j = i
      BY <1>2, <2>1, DayFacts
    <3> QED
      BY <1>1, <1>8, <1>9, <3>1 DEF Under
  <2>6. i \in Under(slot) /\ recorded'[i].named = n
    BY <1>2, <1>7, <1>8, <2>1 DEF Under
  <2>7. CASE n
    <3>1. Margin >= 0 \/ (i = LastRow /\ i \in going)
      BY <1>2, <1>3, <2>1, <2>7 DEF AttemptInv
    <3>2. Margin' >= -1
      BY <2>4 DEF MarginInv
    <3>3. Blind' => Margin' >= 0
      <4>1. i = LastRow /\ i \in going => ~Blind'
        BY <1>1, <1>2, <1>8, <2>6, <2>7 DEF Blind
      <4> QED
        BY <2>4, <3>1, <4>1
    <3>4. i # LastRow => Margin' >= 0
      BY <2>4, <3>1
    <3>5. \A j \in Under(slot)' : j # LastRow' =>
             /\ Margin' >= 0
             /\ ~recorded'[j].named /\ ~Naming' => Margin' >= 1
      BY <1>8, <2>5, <2>6, <2>7, <3>4
    <3> QED
      BY <1>14, <2>2, <3>2, <3>3, <3>5 DEF MarginInv
  <2>8. CASE ~n
    <3>1. Margin >= 0 /\ (i # LastRow => Margin >= 1)
      BY <1>1, <1>2, <1>3, <2>1, <2>8 DEF AttemptInv
    <3>2. \A j \in Under(slot)' : j # LastRow' => Margin' >= 1 /\ Margin' >= 0
      BY <1>8, <1>15, <2>4, <2>5, <3>1
    <3>3. Margin' >= -1 /\ Margin' >= 0
      BY <1>15, <2>4, <3>1
    <3> QED
      BY <1>14, <2>2, <3>2, <3>3 DEF MarginInv
  <2> QED
    BY <2>7, <2>8
<1> QED
  BY <1>17, <1>18

--------------------------------------------------------------------------------
(* Steps of the schedule and of the runs *)

LEMMA FireTurns ==
  ASSUME KeyInv, KeyInv', TickInv, ScheduleInv, MarginInv, NEW s \in Slots, Fire(s)
  PROVE  ScheduleInv' /\ MarginInv'
<1>1. /\ UNCHANGED <<day, recorded, begun, going, call, doubts>> /\ tick = "closed"
      /\ slot' = s /\ s > slot /\ s \in Nat /\ slot \in Nat
  BY DEF Fire, execVars, KeyInv, Slots
<1>2. \A d \in Callers : ~Awaited(d) /\ ~Awaited(d)'
  BY <1>1 DEF ScheduleInv, Awaited
<1>3. /\ Early' = Early /\ Unstarted' = Unstarted /\ Execs' = Execs /\ LastRow' = LastRow
      /\ (Blind' <=> Blind)
  BY <1>1 DEF Early, Unstarted, Execs, LastRow, Blind
<1>4. Margin' = Margin
  BY <1>1, <1>3 DEF Margin, Load
<1>5. ScheduleInv'
  <2>1. ASSUME NEW i \in Execs'
        PROVE  /\ recorded'[i].asked \in Slots /\ recorded'[i].asked <= slot'
               /\ recorded'[i].named => begun'[i] = 1
               /\ begun'[i] = 0 => i \notin going'
    <3>1. recorded[i].asked \in Slots /\ recorded[i].asked <= slot /\ recorded[i].asked \in Nat
      BY <1>3 DEF ScheduleInv, Slots
    <3> QED
      BY <1>1, <1>3, <3>1 DEF ScheduleInv
  <2>2. ASSUME NEW d \in Callers, call'[d].at # "off"
        PROVE  /\ call'[d].key \in Slots /\ call'[d].key <= slot'
               /\ call'[d].at = "started" => begun'[call'[d].row] = 1
    <3>1. call[d].key \in Slots /\ call[d].key <= slot /\ call[d].key \in Nat
      BY <1>1, <2>2 DEF ScheduleInv, Slots
    <3> QED
      BY <1>1, <2>2, <3>1 DEF ScheduleInv
  <2>3. day' = 0 /\ IsFiniteSet(going') /\ IsFiniteSet(Early') /\ IsFiniteSet(Unstarted')
    BY <1>1, <1>3 DEF ScheduleInv
  <2> QED
    BY <1>2, <2>1, <2>2, <2>3 DEF ScheduleInv
<1>6. \A i \in Under(slot)' : FALSE
  <2> SUFFICES ASSUME NEW i \in Execs, recorded[i].key = s PROVE FALSE
    BY <1>1, <1>3 DEF Under
  <2>1. recorded[i].key = recorded[i].asked /\ recorded[i].asked <= slot
    BY DayFacts DEF ScheduleInv
  <2> QED
    BY <1>1, <2>1
<1>7. ~Naming /\ ~Naming'
  BY <1>2 DEF Naming
<1> QED
  BY <1>2, <1>3, <1>4, <1>5, <1>6, <1>7 DEF MarginInv

LEMMA EndTurns ==
  ASSUME KeyInv, TickInv, TickInv', ScheduleInv, MarginInv, NEW i \in going, EndKeyed(i)
  PROVE  ScheduleInv' /\ MarginInv'
<1>1. /\ UNCHANGED <<day, recorded, begun, call, slot, tick, doubts>> /\ going' = going \ {i}
  BY DEF EndKeyed, tickVars
<1>2. Early' = Early /\ Unstarted' = Unstarted /\ Execs' = Execs
  BY <1>1 DEF Early, Unstarted, Execs
<1>3. /\ IsFiniteSet(going') /\ Cardinality(going') = Cardinality(going) - 1
      /\ Cardinality(going) \in Nat /\ Cardinality(Early) \in Nat /\ Cardinality(Unstarted) \in Nat
  BY <1>1, FS_RemoveElement, FS_CardinalityType DEF ScheduleInv
<1>4. Margin \in Int /\ Margin' \in Int /\ Margin' >= Margin + 1
  <2>1. doubts \in Nat /\ doubts' = doubts
    BY <1>1 DEF TickInv
  <2>2. Margin = doubts - (Cardinality(going) + Cardinality(Early) + Cardinality(Unstarted))
    BY DEF Margin, Load
  <2>3. Margin' = doubts - (Cardinality(going) - 1 + Cardinality(Early) + Cardinality(Unstarted))
    BY <1>2, <1>3, <2>1 DEF Margin, Load
  <2> QED
    BY <1>3, <2>1, <2>2, <2>3
<1>5. ScheduleInv'
  <2>1. \A d \in Callers : Awaited(d)' <=> Awaited(d)
    BY <1>1 DEF Awaited
  <2> QED
    BY <1>1, <1>2, <1>3, <2>1 DEF ScheduleInv
<1>6. AttemptsKept /\ RowsKept
  BY <1>1, RowsSame DEF AttemptsKept, Awaited
<1> QED
  BY <1>1, <1>4, <1>5, <1>6, OthersMove

--------------------------------------------------------------------------------
LEMMA TurnInit == TriggersInit => TurnInv
<1> SUFFICES ASSUME TriggersInit PROVE ScheduleInv /\ MarginInv
  BY DEF TurnInv
<1>1. /\ Execs = {} /\ \A c \in Callers : call[c] = Off /\ call[c].at = "off"
      /\ day = 0 /\ going = {} /\ doubts = 0
  BY CallKinds DEF TriggersInit, Execs
<1>2. Early = {} /\ Unstarted = {} /\ \A c \in Callers : ~Awaited(c)
  BY <1>1 DEF Early, Unstarted, EarlyPlaces, Awaited
<1>3. Margin = 0
  <2>1. Load = 0
    BY <1>1, <1>2, FS_EmptySet DEF Load
  <2> QED
    BY <1>1, <2>1 DEF Margin
<1>4. ScheduleInv
  BY <1>1, <1>2, FS_EmptySet DEF ScheduleInv
<1>5. MarginInv
  BY <1>1, <1>2, <1>3 DEF MarginInv, Under
<1> QED
  BY <1>4, <1>5

LEMMA TurnStep ==
  KeyInv /\ KeyInv' /\ TickInv /\ TickInv' /\ TurnInv /\ [TriggersNext]_triggerVars => TurnInv'
<1> SUFFICES ASSUME KeyInv, KeyInv', TickInv, TickInv', TurnInv, [TriggersNext]_triggerVars,
                    trigger' = "SCHEDULE"
             PROVE  ScheduleInv' /\ MarginInv'
  BY DEF TurnInv
<1>1. trigger' = trigger
  BY DEF TriggersNext, Fire, CallStep, BeginAttempt, AttemptTimesOut, ReceiveWebhook,
         CheckPrevious, Describe, FindKeyed, ReleaseKey, InsertKeyed, ReadRaced, StartKeyed,
         StartKeyedFails, SaveNamed, SaveUnstarted, Breaks, EndKeyed, NextDay, triggerVars
<1>2. trigger = "SCHEDULE" /\ ScheduleInv /\ MarginInv
  BY <1>1 DEF TurnInv
<1>3. ASSUME NEW s \in Slots, Fire(s) PROVE ScheduleInv' /\ MarginInv'
  BY <1>2, <1>3, FireTurns
<1>4. ASSUME NEW i \in going, EndKeyed(i) PROVE ScheduleInv' /\ MarginInv'
  BY <1>2, <1>4, EndTurns
<1>5. CASE NextDay
  BY <1>2, <1>5 DEF NextDay
<1>6. ASSUME NEW c \in Callers, CallStep(c) PROVE ScheduleInv' /\ MarginInv'
  <2>1. CASE BeginAttempt(c) \/ AttemptTimesOut(c)
    BY <1>2, <2>1, AttemptTurns
  <2>2. ASSUME NEW k \in SenderKeys, ReceiveWebhook(c, k) PROVE FALSE
    BY <1>2, <2>2 DEF ReceiveWebhook
  <2>3. CASE CheckPrevious(c) \/ Describe(c) \/ FindKeyed(c) \/ ReadRaced(c) \/ Breaks(c)
    BY <1>2, <2>3, LookTurns
  <2>4. CASE ReleaseKey(c)
    BY <1>2, <2>4, DayFacts DEF ReleaseKey
  <2>5. CASE InsertKeyed(c)
    BY <1>2, <2>5, InsertTurns
  <2>6. CASE StartKeyed(c) \/ StartKeyedFails(c)
    BY <1>2, <2>6, StartTurns
  <2>7. CASE SaveNamed(c) \/ SaveUnstarted(c)
    BY <1>2, <2>7, SaveTurns
  <2> QED
    BY <1>6, <2>1, <2>2, <2>3, <2>4, <2>5, <2>6, <2>7 DEF CallStep
<1>7. CASE UNCHANGED triggerVars
  <2>1. UNCHANGED <<day, recorded, begun, going, call, slot, tick, doubts>>
    BY <1>7 DEF triggerVars, execVars, tickVars
  <2>2. ScheduleInv'
    BY <1>2, <2>1 DEF ScheduleInv, Execs, Awaited, Early, Unstarted
  <2>3. MarginInv'
    BY <1>2, <2>1 DEF MarginInv, Margin, Load, Blind, Naming, Awaited, AttemptInv, LastRow,
                      Under, Execs, Early, Unstarted
  <2> QED
    BY <2>2, <2>3
<1> QED
  BY <1>3, <1>4, <1>5, <1>6, <1>7 DEF TriggersNext

(* One scheduled run goes on at a time, and one more for each start whose row *)
(* does not tell of it, two for each attempt that was given up on: for any    *)
(* number of slots, attempts, retries and runs that never end.                *)
THEOREM TurnsAreTaken == TriggersSpec => []TicksTakeTurns
<1>1. TriggersInit => TickInv
  BY DEF TriggersInit, TickInv, Execs
<1>2. TickInv /\ TurnInv => TicksTakeTurns
  <2> SUFFICES ASSUME TickInv, ScheduleInv, MarginInv PROVE Cardinality(going) <= 1 + doubts
    BY DEF TurnInv, TicksTakeTurns
  <2>1. /\ Cardinality(going) \in Nat /\ Cardinality(Early) \in Nat /\ Cardinality(Unstarted) \in Nat
        /\ doubts \in Nat
    BY FS_CardinalityType DEF ScheduleInv, TickInv
  <2>2. doubts - (Cardinality(going) + Cardinality(Early) + Cardinality(Unstarted)) >= -1
    BY DEF MarginInv, Margin, Load
  <2> QED
    BY <2>1, <2>2
<1> QED
  BY <1>1, <1>2, TickInvStep, KeyAlways, TurnInit, TurnStep, PTL DEF TriggersSpec
================================================================================
