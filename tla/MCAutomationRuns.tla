--------------------------- MODULE MCAutomationRuns ---------------------------
(* Small instances of the event-triggered runs; deliveries and automations   *)
(* are interchangeable where only safety is checked.                         *)
EXTENDS AutomationRuns, TLC

Interchangeable == Permutations(Handlers) \cup Permutations(Automations)
================================================================================
