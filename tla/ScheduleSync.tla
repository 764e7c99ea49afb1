------------------------------ MODULE ScheduleSync ------------------------------
(* The Temporal schedule of one automation, kept in step with its row.  A     *)
(* change loads the row, brings the schedule in line with what is about to be *)
(* saved, and saves; a deletion removes the schedule and then the row; every  *)
(* API process that boots reconciles in the background.  All of them take     *)
(* several statements and calls, and none holds a lock.                       *)
EXTENDS Naturals, EntitySave

CONSTANTS
    Editors,     \* requests that may be changing the automation at once
    Boots,       \* reconciliations that may be in progress at once
    Specs,       \* what a schedule can say
    NoSchedule,
    MaxChanges,  \* bound: changes and deletions begun
    MaxRepairs,  \* bound: reconciliations begun
    MaxSlips     \* bound: calls and statements that fail

ASSUME ScheduleAssumption ==
    /\ NoSchedule \notin Specs
    /\ MaxChanges \in Nat /\ MaxRepairs \in Nat /\ MaxSlips \in Nat

VARIABLES
    automation,  \* the row: its status and the schedule of its trigger
    schedule,    \* the schedule in Temporal
    editor,      \* what a request is doing
    boot,        \* what a reconciliation is doing
    changes, repairs, slips,   \* bounded counters
    drifted      \* ghost: requests met or failed since the last undisturbed repair

syncVars == <<automation, schedule, editor, boot, changes, repairs, slips, drifted>>

--------------------------------------------------------------------------------

(* PAUSED stands for every row that wants no schedule: paused, a draft, or of *)
(* another trigger.                                                           *)
Automation == [status : {"ACTIVE", "PAUSED", "GONE"}, spec : Specs]
Wants(a) == a.status = "ACTIVE"
Wanted(a) == IF Wants(a) THEN a.spec ELSE NoSchedule

Resting == [at |-> "off"]
Editing == [at : {"sync", "compare", "save"}, copy : Automation, had : BOOLEAN,
            dirty : SUBSET {"status", "spec"}]
Deleting == [at : {"unschedule", "remove"}]
Repairing == [at : {"upsert", "list", "recheck", "delete"}, kept : Specs \cup {NoSchedule},
              clean : BOOLEAN]

Idle == (\A e \in Editors : editor[e] = Resting) /\ (\A b \in Boots : boot[b] = Resting)

SyncInit ==
    /\ automation \in [status : {"PAUSED"}, spec : Specs]
    /\ schedule = NoSchedule
    /\ editor = [e \in Editors |-> Resting] /\ boot = [b \in Boots |-> Resting]
    /\ changes = 0 /\ repairs = 0 /\ slips = 0
    /\ drifted = FALSE

(* Somebody else has begun, or a call has failed: what is being repaired may  *)
(* change behind its back.                                                    *)
Disturbed == [b \in Boots |-> IF boot[b] = Resting THEN Resting
                              ELSE [boot[b] EXCEPT !.clean = FALSE]]

Slip == slips < MaxSlips /\ slips' = slips + 1

--------------------------------------------------------------------------------
(* updateWorkflow: a change of the status, of the schedule, or of both. *)

LoadForUpdate(e, to) ==
    /\ editor[e] = Resting /\ changes < MaxChanges
    /\ automation.status # "GONE" /\ to.status # "GONE"
    /\ editor' = [editor EXCEPT ![e] =
           [at |-> "sync", copy |-> to, had |-> Wants(automation), dirty |-> {}]]
    /\ boot' = Disturbed
    /\ changes' = changes + 1
    /\ drifted' = (drifted \/ ~Idle)
    /\ UNCHANGED <<automation, schedule, repairs, slips>>

(* Variant: an automation that is switched off keeps its schedule. *)
SyncScheduleOnlyCreates(e) ==
    /\ editor[e].at = "sync"
    /\ schedule' = IF Wants(editor[e].copy) THEN editor[e].copy.spec ELSE schedule
    /\ editor' = [editor EXCEPT ![e].at = "compare"]
    /\ UNCHANGED <<automation, boot, changes, repairs, slips, drifted>>

(* sync: create or update, delete if present, or ask Temporal for nothing.    *)
SyncSchedule(e) ==
    /\ editor[e].at = "sync"
    /\ schedule' = IF Wants(editor[e].copy) \/ editor[e].had THEN Wanted(editor[e].copy)
                   ELSE schedule
    /\ editor' = [editor EXCEPT ![e].at = "compare"]
    /\ UNCHANGED <<automation, boot, changes, repairs, slips, drifted>>

(* A refused call is a 503 and nothing is saved.  One whose answer is lost    *)
(* may have been carried out.                                                 *)
SyncFails(e) ==
    /\ editor[e].at = "sync" /\ (Wants(editor[e].copy) \/ editor[e].had)
    /\ Slip
    /\ \/ UNCHANGED <<schedule, drifted>>
       \/ schedule' = Wanted(editor[e].copy) /\ drifted' = TRUE
    /\ editor' = [editor EXCEPT ![e] = Resting]
    /\ UNCHANGED <<automation, boot, changes, repairs>>

(* save(wf) reads the row again, and inserts it if it is gone. *)
CompareAutomation(e) ==
    /\ editor[e].at = "compare"
    /\ IF automation.status = "GONE"
       THEN /\ automation' = editor[e].copy
            /\ editor' = [editor EXCEPT ![e] = Resting]
       ELSE /\ editor' = [editor EXCEPT ![e].at = "save",
                                        ![e].dirty = Dirty(editor[e].copy, automation)]
            /\ UNCHANGED automation
    /\ UNCHANGED <<schedule, boot, changes, repairs, slips, drifted>>

SaveAutomation(e) ==
    /\ editor[e].at = "save"
    /\ automation' = IF automation.status = "GONE" THEN automation
                     ELSE Saved(editor[e].copy, automation, editor[e].dirty)
    /\ editor' = [editor EXCEPT ![e] = Resting]
    /\ UNCHANGED <<schedule, boot, changes, repairs, slips, drifted>>

(* The save fails, or the process dies first: the two differ until a repair.  *)
SaveFails(e) ==
    /\ editor[e].at \in {"compare", "save", "remove"}
    /\ Slip
    /\ editor' = [editor EXCEPT ![e] = Resting]
    /\ drifted' = TRUE
    /\ UNCHANGED <<automation, schedule, boot, changes, repairs>>

--------------------------------------------------------------------------------
(* deleteWorkflow: the schedule first. *)

LoadForDelete(e) ==
    /\ editor[e] = Resting /\ changes < MaxChanges
    /\ automation.status # "GONE"
    /\ editor' = [editor EXCEPT ![e] = [at |-> "unschedule"]]
    /\ boot' = Disturbed
    /\ changes' = changes + 1
    /\ drifted' = (drifted \/ ~Idle)
    /\ UNCHANGED <<automation, schedule, repairs, slips>>

DeleteSchedule(e) ==
    /\ editor[e].at = "unschedule"
    /\ schedule' = NoSchedule
    /\ editor' = [editor EXCEPT ![e].at = "remove"]
    /\ UNCHANGED <<automation, boot, changes, repairs, slips, drifted>>

DeleteScheduleFails(e) ==
    /\ editor[e].at = "unschedule"
    /\ Slip
    /\ \/ UNCHANGED <<schedule, drifted>>
       \/ schedule' = NoSchedule /\ drifted' = TRUE
    /\ editor' = [editor EXCEPT ![e] = Resting]
    /\ UNCHANGED <<automation, boot, changes, repairs>>

RemoveAutomation(e) ==
    /\ editor[e].at = "remove"
    /\ automation' = [automation EXCEPT !.status = "GONE"]
    /\ editor' = [editor EXCEPT ![e] = Resting]
    /\ UNCHANGED <<schedule, boot, changes, repairs, slips, drifted>>

--------------------------------------------------------------------------------
(* reconcileWith: write the schedules of the active automations, then delete  *)
(* the ones listed that none of them has.                                     *)

FindActive(b) ==
    /\ boot[b] = Resting /\ repairs < MaxRepairs
    /\ boot' = [Disturbed EXCEPT ![b] =
           [at |-> IF Wants(automation) THEN "upsert" ELSE "list",
            kept |-> Wanted(automation), clean |-> Idle]]
    /\ repairs' = repairs + 1
    /\ drifted' = (drifted \/ ~Idle)
    /\ UNCHANGED <<automation, schedule, editor, changes, slips>>

UpsertActive(b) ==
    /\ boot[b].at = "upsert"
    /\ schedule' = boot[b].kept
    /\ boot' = [boot EXCEPT ![b].at = "list"]
    /\ UNCHANGED <<automation, editor, changes, repairs, slips, drifted>>

(* Done: what drifted is repaired if nobody interfered and nothing failed.    *)
Repaired(b) ==
    /\ boot' = [boot EXCEPT ![b] = Resting]
    /\ drifted' = (drifted /\ ~boot[b].clean)

ListSchedules(b) ==
    /\ boot[b].at = "list"
    /\ IF schedule = NoSchedule \/ boot[b].kept # NoSchedule
       THEN Repaired(b)
       ELSE boot' = [boot EXCEPT ![b].at = "recheck"] /\ UNCHANGED drifted
    /\ UNCHANGED <<automation, schedule, editor, changes, repairs, slips>>

(* isActiveOnSchedule *)
Recheck(b) ==
    /\ boot[b].at = "recheck"
    /\ IF Wants(automation)
       THEN Repaired(b)
       ELSE boot' = [boot EXCEPT ![b].at = "delete"] /\ UNCHANGED drifted
    /\ UNCHANGED <<automation, schedule, editor, changes, repairs, slips>>

DeleteOrphan(b) ==
    /\ boot[b].at = "delete"
    /\ schedule' = NoSchedule
    /\ Repaired(b)
    /\ UNCHANGED <<automation, editor, changes, repairs, slips>>

(* A failed call is logged and the rest goes on; a failed find or list, or    *)
(* the death of the process, ends it.                                         *)
RepairFails(b) ==
    /\ boot[b] # Resting
    /\ Slip
    /\ \/ boot[b].at = "upsert" /\ boot' = [boot EXCEPT ![b].at = "list", ![b].clean = FALSE]
       \/ boot' = [boot EXCEPT ![b] = Resting]
    /\ UNCHANGED <<automation, schedule, editor, changes, repairs, drifted>>

--------------------------------------------------------------------------------
Change(e) == \/ \E to \in Automation : LoadForUpdate(e, to)
             \/ SyncSchedule(e) \/ SyncFails(e)
             \/ CompareAutomation(e) \/ SaveAutomation(e) \/ SaveFails(e)
             \/ LoadForDelete(e) \/ DeleteSchedule(e) \/ DeleteScheduleFails(e)
             \/ RemoveAutomation(e)
Repair(b) == \/ FindActive(b) \/ UpsertActive(b) \/ ListSchedules(b)
             \/ Recheck(b) \/ DeleteOrphan(b) \/ RepairFails(b)

SyncNext == (\E e \in Editors : Change(e)) \/ (\E b \in Boots : Repair(b))
SyncSpec == SyncInit /\ [][SyncNext]_syncVars

--------------------------------------------------------------------------------
(* Properties *)

(* Rows, schedules and requests keep their types.                             *)
SyncTypeOK ==
    /\ automation \in Automation /\ schedule \in Specs \cup {NoSchedule}
    /\ editor \in [Editors -> {Resting} \cup Editing \cup Deleting]
    /\ boot \in [Boots -> {Resting} \cup Repairing]
    /\ changes \in Nat /\ repairs \in Nat /\ slips \in Nat
    /\ drifted \in BOOLEAN

(* "If it refuses, nothing is saved and the stored automation still matches   *)
(* its schedule", and whatever drifted when requests met or a save failed is  *)
(* put right by the next boot that nobody disturbs.                           *)
ScheduleTellsRow == Idle /\ ~drifted => schedule = Wanted(automation)

(* "An automation activated since (by another API instance, say) has a fresh  *)
(* schedule that must not be taken for an orphan": with nobody at work, an    *)
(* active automation has a schedule.                                          *)
ActiveIsScheduled == Idle /\ Wants(automation) => schedule # NoSchedule
================================================================================
