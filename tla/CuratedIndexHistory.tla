------------------------ MODULE CuratedIndexHistory ------------------------
(***************************************************************************)
(* The curated index as an implementation of MemoryIndex.  A history       *)
(* variable records what each memory file has held since the walk of each  *)
(* command began; no step depends on it.                                   *)
(***************************************************************************)
EXTENDS CuratedIndex

VARIABLE seen

historyVars == <<vars, seen>>

Walking == {"walk", "parse", "commit", "report"}

Nothing == [f \in Files |-> {}]

HistoryInit ==
    /\ Init
    /\ seen = [p \in Procs |-> Nothing]

\* A walk begins with what the files hold, and notes what they hold after each step.
Record ==
    seen' = [p \in Procs |->
               IF run'[p].phase \notin Walking THEN Nothing
               ELSE [f \in Files |-> seen[p][f] \union {disk'[f]}]]

HistoryNext == Next /\ Record

HistorySpec == HistoryInit /\ [][HistoryNext]_historyVars

-----------------------------------------------------------------------------
(* What the index promises *)

\* What each search under way reads.
View == [p \in {q \in Procs : run[q].phase = "query"} |-> db[run[p].att].rows]

Promise == INSTANCE MemoryIndex
             WITH Commands <- Procs, index <- db[live].rows, view <- View

\* However commands overlap, die and find the files changed under them, the index
\* changes by an entry or as a whole, and every change follows from what the files held
\* during the walk that made it: no search reads a half-built index, an entry of a file
\* that nobody touched is what the file holds, and no other entry is made up
\* (Indexer.update, Indexer.rebuild).
ImplementsMemoryIndex == Promise!Spec
=============================================================================
