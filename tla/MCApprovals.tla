------------------------------ MODULE MCApprovals ------------------------------
(* Small instances of the approval step; people are interchangeable. *)
EXTENDS Approvals, TLC

Interchangeable == Permutations(Users)
================================================================================
