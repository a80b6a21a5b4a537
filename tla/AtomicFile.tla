----------------------------- MODULE AtomicFile -----------------------------
(***************************************************************************)
(* The state file as the sync engine uses it (`file` in SyncEngine): a     *)
(* register holding the last record saved.  A save takes effect at one     *)
(* instant or not at all.  It reports Ok only if it did and an error only  *)
(* if it did not; a process that ends in between leaves either case.  A    *)
(* load returns what the register holds, or fails, or takes a file it      *)
(* cannot look up for a missing one.  Only a blackout of the machine       *)
(* changes the register by itself, possibly to what no load can read.      *)
(***************************************************************************)
EXTENDS Naturals

CONSTANTS Record, None, Torn, Error

VARIABLES
    value,   \* the record in the file, or None, or Torn
    saving,  \* the record being saved, or None
    took,    \* this save has taken effect
    loaded,  \* the answer to the last load: a record, None or Error
    blackouts  \* how often the machine has lost power

vars == <<value, saving, took, loaded, blackouts>>

Init == value = None /\ saving = None /\ took = FALSE /\ loaded = None /\ blackouts = 0

Begin ==
    /\ saving = None
    /\ saving' \in Record
    /\ took' = FALSE
    /\ UNCHANGED <<value, loaded, blackouts>>

\* The effect and the Ok are one: nobody looks in between.
Take ==
    /\ saving # None /\ ~took
    /\ value' = saving
    /\ took' = TRUE
    /\ saving' = None
    /\ UNCHANGED <<loaded, blackouts>>

Fail ==
    /\ saving # None
    /\ saving' = None /\ took' = FALSE
    /\ UNCHANGED <<value, loaded, blackouts>>

Load ==
    /\ saving = None
    /\ loaded' \in {value, None, Error} \ {Torn}
    /\ UNCHANGED <<value, saving, took, blackouts>>

\* The process ended and its files are gone: a new container.
Wipe ==
    /\ saving = None
    /\ value' = None
    /\ UNCHANGED <<saving, took, loaded, blackouts>>

Blackout ==
    /\ value' \in Record \cup {None, Torn}
    /\ saving' = None
    /\ blackouts' = blackouts + 1
    /\ UNCHANGED <<took, loaded>>

Next == Begin \/ Take \/ Fail \/ Load \/ Wipe \/ Blackout

Spec == Init /\ [][Next]_vars
=============================================================================
