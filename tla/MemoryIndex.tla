----------------------------- MODULE MemoryIndex -----------------------------
(***************************************************************************)
(* What the curated memory index promises to those who search it, however  *)
(* it is kept: commands walk the memory files; while it walks, a command   *)
(* may replace the entry of one file, or all entries at once, and whatever *)
(* it puts there follows from what the files held since its walk began.  A *)
(* search starts from the index of that moment.                            *)
(***************************************************************************)
CONSTANTS Files, Outside, Contents, Invalid, Models, Commands, Absent, None

VARIABLES disk,   \* Files -> what the file holds
          index,  \* Files -> its entry, or None
          seen,   \* what each file held since the command's walk began, if it walks
          view    \* the index that each search under way reads

vars == <<disk, index, seen, view>>

Entries == [hash: Contents, text: Contents \ Invalid, model: Models]

Nothing == [f \in Files |-> {}]

\* The command may make e the entry of f.
Justified(p, f, e) ==
    IF e = None THEN f \in Outside \/ seen[p][f] \intersect (Invalid \union {Absent}) # {}
    ELSE f \notin Outside /\ e.hash \in seen[p][f] /\ e.text \in seen[p][f] \ Invalid

Init ==
    /\ disk \in [Files -> Contents \union {Absent}]
    /\ index \in [Files -> Entries \union {None}]
    /\ seen = [p \in Commands |-> Nothing]
    /\ DOMAIN view = {}

\* A memory file is written, replaced or deleted.
Edit(f, c) ==
    /\ disk' = [disk EXCEPT ![f] = c]
    /\ seen' = [p \in Commands |->
                  [seen[p] EXCEPT ![f] = IF @ = {} THEN {} ELSE @ \union {c}]]
    /\ UNCHANGED <<index, view>>

BeginWalk(p) ==
    /\ seen' = [seen EXCEPT ![p] = [f \in Files |-> {disk[f]}]]
    /\ UNCHANGED <<disk, index, view>>

\* A command enters, replaces or removes one file, in the index, or in a former one
\* that searches still read, or in both.
Write(p, f, e) ==
    /\ UNCHANGED <<disk, seen>>
    /\ Justified(p, f, e)
    /\ index' \in {index, [index EXCEPT ![f] = e]}
    /\ DOMAIN view' = DOMAIN view
    /\ \A q \in DOMAIN view : view'[q] \in {view[q], [view[q] EXCEPT ![f] = e]}

\* All entries are replaced at once; searches go on with the index they had.
Publish(p) ==
    /\ UNCHANGED <<disk, seen, view>>
    /\ DOMAIN index' = Files
    /\ \A f \in Files : Justified(p, f, index'[f])

BeginSearch(p) ==
    /\ view' = [q \in DOMAIN view \union {p} |-> IF q = p THEN index ELSE view[q]]
    /\ seen' = [seen EXCEPT ![p] = Nothing]
    /\ UNCHANGED <<disk, index>>

\* The walk or the search of the command is over.
End(p) ==
    /\ view' = [q \in DOMAIN view \ {p} |-> view[q]]
    /\ seen' = [seen EXCEPT ![p] = Nothing]
    /\ UNCHANGED <<disk, index>>

Next ==
    \/ \E f \in Files, c \in Contents \union {Absent} : Edit(f, c)
    \/ \E p \in Commands :
         \/ BeginWalk(p) \/ BeginSearch(p) \/ End(p) \/ Publish(p)
         \/ \E f \in Files, e \in Entries \union {None} : Write(p, f, e)

Spec == Init /\ [][Next]_vars
=============================================================================
