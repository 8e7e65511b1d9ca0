------------------------------ MODULE Migration ------------------------------
(***************************************************************************)
(* `rekol migrate`: one directory of legacy memory files is imported into  *)
(* the memory home, file by file; each original is moved to the archive,   *)
(* and the directory is marked .MIGRATED so that no later run looks at it. *)
(* A run may fail on any file and may be killed anywhere; the next one     *)
(* starts over.  Files whose bodies are equal are imported once.           *)
(***************************************************************************)
EXTENDS Naturals, FiniteSets

CONSTANTS Files, Bodies, Stems,
          Body,                \* Files -> Bodies
          MigrationFaults,     \* what may go wrong
          MaxCopies,           \* bound on the files written under one stem
          MaxMigrationFaults,  \* bound on the faults
          Torn, NoFile

ASSUME MigrationAssumption ==
    /\ Body \in [Files -> Bodies]
    /\ MigrationFaults \subseteq {"kill", "classify", "write", "move"}
    /\ MaxCopies \in Nat /\ MaxMigrationFaults \in Nat
    /\ Torn \notin Bodies /\ NoFile \notin Files

VARIABLES legacy,      \* the files still in the directory
          archived,    \* the originals in old-memory-archive
          home,        \* the memory files: stem, -N suffix and text
          marked,      \* .MIGRATED exists
          pointer,     \* MEMORY.md: "none", "here" or "archived"
          migrator,    \* the run in progress
          discovered,  \* history: what existed when the latest run began
          failedMoves, \* history: how often a move to the archive failed
          migrationFaults

migrationVars == <<legacy, archived, home, marked, pointer, migrator, discovered,
                   failedMoves, migrationFaults>>

Slots == 1..MaxCopies

MemoryFiles == [stem: Stems, n: Slots, text: Bodies \union {Torn}]

Migrators ==
    [phase: {"idle", "file", "write", "move", "retire", "pointer"},
     todo: SUBSET Files, seen: SUBSET Bodies, file: Files \union {NoFile},
     target: MemoryFiles \union {NoFile}, duplicate: BOOLEAN,
     errors: BOOLEAN, progressed: BOOLEAN]

NoRun == [phase |-> "idle", todo |-> {}, seen |-> {}, file |-> NoFile, target |-> NoFile,
          duplicate |-> FALSE, errors |-> FALSE, progressed |-> FALSE]

\* The bodies in the memory home; a torn file holds none.
HomeBodies == {m.text : m \in home} \ {Torn}

Imported == {f \in Files : Body[f] \in HomeBodies}

\* _resolve_target_path: the first name that is free.
IsFree(stem, n) == \A m \in home : ~(m.stem = stem /\ m.n = n)

IsTarget(stem, n) ==
    IsFree(stem, n) /\ \A k \in 1..(n - 1) : ~IsFree(stem, k)

-----------------------------------------------------------------------------

\* Claude's own memory feature writes a file that it finds missing.
WriteLegacy ==
    /\ \E f \in Files \ (legacy \union archived) : legacy' = legacy \union {f}
    /\ UNCHANGED <<archived, home, marked, pointer, migrator, discovered, failedMoves,
                   migrationFaults>>

\* As if only the bodies of this run were remembered.
StartForgetful ==
    /\ migrator.phase = "idle"
    /\ ~marked
    /\ migrator' = [NoRun EXCEPT !.phase = IF legacy = {} THEN "retire" ELSE "file",
                                 !.todo = legacy]
    /\ discovered' = legacy \union archived
    /\ UNCHANGED <<legacy, archived, home, marked, pointer, failedMoves, migrationFaults>>

\* migrate_dir up to its loop.  An empty directory is retired at once.
StartMigration ==
    /\ migrator.phase = "idle"
    /\ ~marked
    /\ migrator' = [NoRun EXCEPT !.phase = IF legacy = {} THEN "retire" ELSE "file",
                                 !.todo = legacy, !.seen = HomeBodies]
    /\ discovered' = legacy \union archived
    /\ UNCHANGED <<legacy, archived, home, marked, pointer, failedMoves, migrationFaults>>

Fault(kind) ==
    /\ kind \in MigrationFaults /\ migrationFaults < MaxMigrationFaults
    /\ migrationFaults' = migrationFaults + 1

\* classify_file raises: the file cannot be read.
FailClassify ==
    /\ migrator.phase = "file" /\ Fault("classify")
    /\ \E f \in migrator.todo :
         migrator' = [migrator EXCEPT !.todo = @ \ {f}, !.errors = TRUE]
    /\ UNCHANGED <<legacy, archived, home, marked, pointer, discovered, failedMoves>>

\* The body is there already: archive the original only.
SkipDuplicate ==
    /\ migrator.phase = "file"
    /\ \E f \in migrator.todo :
         /\ Body[f] \in migrator.seen
         /\ migrator' = [migrator EXCEPT !.todo = @ \ {f}, !.phase = "move", !.file = f,
                                         !.duplicate = TRUE, !.progressed = TRUE]
    /\ UNCHANGED <<legacy, archived, home, marked, pointer, discovered, failedMoves,
                   migrationFaults>>

\* write_text opens the target, empty.  The stem is the classifier's choice.
OpenTarget ==
    /\ migrator.phase = "file"
    /\ \E f \in migrator.todo, stem \in Stems, n \in Slots :
         LET target == [stem |-> stem, n |-> n, text |-> Torn] IN
         /\ Body[f] \notin migrator.seen
         /\ IsTarget(stem, n)
         /\ home' = {m \in home : ~(m.stem = stem /\ m.n = n)} \union {target}
         /\ migrator' = [migrator EXCEPT !.todo = @ \ {f}, !.phase = "write", !.file = f,
                                         !.target = target, !.duplicate = FALSE]
    /\ UNCHANGED <<legacy, archived, marked, pointer, discovered, failedMoves,
                   migrationFaults>>

WriteTarget ==
    /\ migrator.phase = "write"
    /\ home' = (home \ {migrator.target})
                 \union {[migrator.target EXCEPT !.text = Body[migrator.file]]}
    /\ migrator' = [migrator EXCEPT !.phase = "move", !.target = NoFile]
    /\ UNCHANGED <<legacy, archived, marked, pointer, discovered, failedMoves,
                   migrationFaults>>

\* The disk is full: part of a file stays behind and the loop goes on.
FailWrite ==
    /\ migrator.phase = "write" /\ Fault("write")
    /\ migrator' = [migrator EXCEPT !.phase = "file", !.file = NoFile, !.target = NoFile,
                                    !.errors = TRUE]
    /\ UNCHANGED <<legacy, archived, home, marked, pointer, discovered, failedMoves>>

\* archive_file, then the bookkeeping.
MoveOriginal ==
    /\ migrator.phase = "move"
    /\ legacy' = legacy \ {migrator.file}
    /\ archived' = archived \union {migrator.file}
    /\ migrator' = [migrator EXCEPT !.phase = "file", !.file = NoFile, !.progressed = TRUE,
                                    !.seen = @ \union {Body[migrator.file]}]
    /\ UNCHANGED <<home, marked, pointer, discovered, failedMoves, migrationFaults>>

\* The move fails: the body is in the memory home but not among those seen.
FailMove ==
    /\ migrator.phase = "move" /\ Fault("move")
    /\ failedMoves' = failedMoves + 1
    /\ migrator' = [migrator EXCEPT !.phase = "file", !.file = NoFile, !.errors = TRUE]
    /\ UNCHANGED <<legacy, archived, home, marked, pointer, discovered>>

\* As it was before #166: any progress retires.
HastyFinish ==
    /\ migrator.phase = "file" /\ migrator.todo = {}
    /\ migrator' = IF migrator.progressed THEN [migrator EXCEPT !.phase = "retire"] ELSE NoRun
    /\ UNCHANGED <<legacy, archived, home, marked, pointer, discovered, failedMoves,
                   migrationFaults>>

\* A single file that was not imported keeps the directory from being retired.
FinishFiles ==
    /\ migrator.phase = "file" /\ migrator.todo = {}
    /\ migrator' = IF migrator.progressed /\ ~migrator.errors
                   THEN [migrator EXCEPT !.phase = "retire"] ELSE NoRun
    /\ UNCHANGED <<legacy, archived, home, marked, pointer, discovered, failedMoves,
                   migrationFaults>>

\* write_retirement_pointer: the marker first ...
Mark ==
    /\ migrator.phase = "retire"
    /\ marked' = TRUE
    /\ migrator' = [migrator EXCEPT !.phase = "pointer"]
    /\ UNCHANGED <<legacy, archived, home, pointer, discovered, failedMoves, migrationFaults>>

\* ... then MEMORY.md goes to the archive.
MovePointer ==
    /\ migrator.phase = "pointer"
    /\ pointer' = IF pointer = "here" THEN "archived" ELSE pointer
    /\ migrator' = NoRun
    /\ UNCHANGED <<legacy, archived, home, marked, discovered, failedMoves, migrationFaults>>

KillMigration ==
    /\ migrator.phase # "idle" /\ Fault("kill")
    /\ migrator' = NoRun
    /\ UNCHANGED <<legacy, archived, home, marked, pointer, discovered, failedMoves>>

-----------------------------------------------------------------------------

MigrationInit ==
    /\ legacy \in SUBSET Files
    /\ archived = {} /\ home = {}
    /\ marked = FALSE
    /\ pointer \in {"none", "here"}
    /\ migrator = NoRun
    /\ discovered = {}
    /\ failedMoves = 0 /\ migrationFaults = 0

MigrationNext ==
    \/ WriteLegacy \/ StartMigration
    \/ FailClassify \/ SkipDuplicate \/ OpenTarget \/ WriteTarget \/ FailWrite
    \/ MoveOriginal \/ FailMove \/ FinishFiles \/ Mark \/ MovePointer \/ KillMigration

MigrationSpec == MigrationInit /\ [][MigrationNext]_migrationVars

-----------------------------------------------------------------------------

\* The state of a migration is well formed.
MigrationTypeOK ==
    /\ legacy \subseteq Files /\ archived \subseteq Files
    /\ home \subseteq MemoryFiles
    /\ marked \in BOOLEAN /\ pointer \in {"none", "here", "archived"}
    /\ migrator \in Migrators
    /\ discovered \subseteq Files
    /\ failedMoves \in Nat /\ migrationFaults \in Nat

\* Equal bodies are imported once, however often a run is cut off between the
\* write and the move and started again (migrator.py:69-96, 184-232).  A move that fails
\* is the exception: the body it leaves behind is not remembered.
ImportedOnce ==
    \A b \in Bodies : Cardinality({m \in home : m.text = b}) <= 1 + failedMoves

\* A migration keeps the promise: it retires a directory for good only when every
\* file that the run found is imported, and loses neither an original nor an
\* imported body (migrator.py:243-297).
Promise == INSTANCE LegacyImport
             WITH arrived <- legacy \union archived, due <- discovered,
                  imported <- Imported, retired <- marked

ImplementsImport == Promise!Spec
=============================================================================
