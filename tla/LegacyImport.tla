---------------------------- MODULE LegacyImport ----------------------------
(***************************************************************************)
(* What migrating a directory of legacy memory files promises, whatever    *)
(* happens on the way: files arrive; a run looks at what has arrived;      *)
(* files are imported and stay imported; the directory is retired, once    *)
(* and for good, when everything that the run saw has been imported.       *)
(***************************************************************************)
CONSTANT Files

VARIABLES arrived,   \* the files that exist, in the directory or its archive
          due,       \* what the latest run found
          imported,  \* the files whose text is in the memory home
          retired

vars == <<arrived, due, imported, retired>>

Init ==
    /\ arrived \in SUBSET Files
    /\ due = {}
    /\ imported = {}
    /\ retired = FALSE

Arrive ==
    /\ \E f \in Files : arrived' = arrived \union {f}
    /\ UNCHANGED <<due, imported, retired>>

Look ==
    /\ ~retired
    /\ due' = arrived
    /\ UNCHANGED <<arrived, imported, retired>>

Import ==
    /\ \E S \in SUBSET Files : imported' = imported \union S
    /\ UNCHANGED <<arrived, due, retired>>

Retire ==
    /\ ~retired /\ retired' = TRUE
    /\ due \subseteq imported
    /\ UNCHANGED <<arrived, due, imported>>

Next == Arrive \/ Look \/ Import \/ Retire

Spec == Init /\ [][Next]_vars
=============================================================================
