---------------------------- MODULE DurableStore ----------------------------
(***************************************************************************)
(* What the storage of one named database promises, whatever the module    *)
(* does to its files: rows come to rest when a statement commits or when a *)
(* database is installed, and they leave only when the application removes *)
(* the database.  Opening, migrating, failing and crashing are stutters.   *)
(***************************************************************************)
EXTENDS Integers

CONSTANT Rows

VARIABLES stored,    \* the rows at rest
          removals   \* how many times the application has removed the database

Init ==
    /\ stored \subseteq Rows
    /\ removals = 0

Commit == \E R \in SUBSET Rows :
    /\ stored' = stored \cup R
    /\ UNCHANGED removals

Remove ==
    /\ stored' \subseteq stored
    /\ removals' = removals + 1

Next == Commit \/ Remove

Spec == Init /\ [][Next]_<<stored, removals>>
=============================================================================
