------------------------------ MODULE EntitySave ------------------------------
(***************************************************************************)
(* Repository.save of an entity that was loaded earlier.  TypeORM reads    *)
(* the row again, compares it with the entity, and updates the columns     *)
(* that differ: a column the program never touched is written back at its  *)
(* stale value when another transaction has changed it in between.         *)
(***************************************************************************)

(* The columns an UPDATE will set, decided when the row is read again. *)
Dirty(copy, stored) == {c \in DOMAIN copy : copy[c] # stored[c]}

(* The row after that UPDATE. *)
Saved(copy, stored, dirty) ==
    [c \in DOMAIN stored |-> IF c \in dirty THEN copy[c] ELSE stored[c]]
================================================================================
