---------------------------- MODULE MigrationProofs ----------------------------
(***************************************************************************)
(* Theorems about Migration, for every set of legacy files, bodies, stems  *)
(* and faults and any number of them: a migration keeps the promise of     *)
(* LegacyImport, and equal bodies are imported once.                       *)
(*                                                                         *)
(* The invariant behind both says where each file that the run found is:   *)
(* imported, to do, or in hand; that what was archived or seen is in the   *)
(* memory home; and that the file being written holds nothing yet.         *)
(***************************************************************************)
EXTENDS Migration, FiniteSetTheorems, TLAPS

Arrived == legacy \union archived

InLoop == migrator.phase \in {"file", "write", "move"}

\* The file in hand, and the target opened for it.
HandOK ==
    /\ migrator.phase \in {"write", "move"} => migrator.file \in Arrived
    /\ migrator.phase = "write" => migrator.target \in home /\ migrator.target.text = Torn
    /\ migrator.phase = "move" => Body[migrator.file] \in HomeBodies

\* Nothing that the run found is forgotten, unless an error was noted.
Accounted ==
    (InLoop /\ ~migrator.errors)
      => \A f \in discovered :
           \/ f \in Imported \/ f \in migrator.todo
           \/ migrator.phase = "write" /\ f = migrator.file

MigrationInv ==
    /\ MigrationTypeOK
    /\ migrator.todo \subseteq Arrived
    /\ migrator.seen \subseteq HomeBodies
    /\ archived \subseteq Imported
    /\ HandOK
    /\ Accounted
    /\ InLoop \/ migrator.phase = "retire" => ~marked
    /\ migrator.phase = "retire" => discovered \subseteq Imported

-----------------------------------------------------------------------------
(* What a step does to the bodies in the memory home *)

\* A target is opened under a free name, and holds nothing.
LEMMA OpenKeepsBodies ==
    ASSUME MigrationInv, OpenTarget
    PROVE  /\ HomeBodies' = HomeBodies
           /\ home \subseteq home'
           /\ home' \subseteq MemoryFiles
           /\ migrator'.target \in home' /\ migrator'.target.text = Torn
           /\ migrator'.target \in MemoryFiles
           /\ home' = home \union {migrator'.target}
<1>1. PICK f \in migrator.todo, stem \in Stems, n \in Slots :
        /\ IsTarget(stem, n)
        /\ home' = {m \in home : ~(m.stem = stem /\ m.n = n)}
                     \union {[stem |-> stem, n |-> n, text |-> Torn]}
        /\ migrator' = [migrator EXCEPT !.todo = @ \ {f}, !.phase = "write", !.file = f,
                                        !.target = [stem |-> stem, n |-> n, text |-> Torn],
                                        !.duplicate = FALSE]
  BY DEF OpenTarget
<1> DEFINE t == [stem |-> stem, n |-> n, text |-> Torn]
<1>2. t \in MemoryFiles /\ t.text = Torn
  BY DEF MemoryFiles
<1>3. migrator'.target = t
  BY <1>1 DEF MigrationInv, MigrationTypeOK, Migrators
<1>4. home' = home \union {t}
  BY <1>1 DEF IsTarget, IsFree
<1> HIDE DEF t
<1> QED BY <1>2, <1>3, <1>4 DEF HomeBodies, MigrationInv, MigrationTypeOK

\* Writing the target adds the body of the file in hand, and only it.
LEMMA WriteAddsBody ==
    ASSUME MigrationInv, WriteTarget
    PROVE  /\ HomeBodies' = HomeBodies \union {Body[migrator.file]}
           /\ home' \subseteq MemoryFiles
           /\ Body[migrator.file] \in Bodies
<1> DEFINE b == Body[migrator.file]
           t == migrator.target
           w == [t EXCEPT !.text = b]
<1>1. migrator.file \in Files /\ t \in MemoryFiles /\ t.text = Torn
  BY DEF MigrationInv, MigrationTypeOK, Migrators, HandOK, Arrived, WriteTarget
<1>2. b \in Bodies /\ b # Torn
  BY <1>1, MigrationAssumption
<1>3. w \in MemoryFiles /\ w.text = b
  BY <1>1, <1>2 DEF MemoryFiles
<1>4. home' = (home \ {t}) \union {w}
  BY DEF WriteTarget
<1> HIDE DEF b, t, w
<1>5. HomeBodies' = HomeBodies \union {b}
  BY <1>1, <1>2, <1>3, <1>4 DEF HomeBodies
<1> QED BY <1>2, <1>3, <1>4, <1>5 DEF b, MigrationInv, MigrationTypeOK

-----------------------------------------------------------------------------
(* The invariant *)

\* It holds at the start.
LEMMA MigrationInitInv == MigrationInit => MigrationInv
<1> SUFFICES ASSUME MigrationInit PROVE MigrationInv
  OBVIOUS
<1>1. /\ migrator.phase = "idle" /\ migrator.todo = {} /\ migrator.seen = {}
      /\ archived = {} /\ migrator = NoRun
  BY DEF MigrationInit, NoRun
<1>2. migrator \in Migrators
  BY <1>1 DEF NoRun, Migrators
<1>3. MigrationTypeOK
  BY <1>2 DEF MigrationInit, MigrationTypeOK
<1> QED BY <1>1, <1>3 DEF MigrationInv, HandOK, Accounted, InLoop

\* No run is in progress: nothing is claimed of it.
LEMMA IdleKeepsInv ==
    ASSUME MigrationInv, migrator' = NoRun,
           UNCHANGED <<legacy, archived, home, discovered, failedMoves>>,
           marked' \in BOOLEAN, pointer' \in {"none", "here", "archived"},
           migrationFaults' \in Nat
    PROVE  MigrationInv'
BY DEF MigrationInv, MigrationTypeOK, Migrators, NoRun, HandOK, Accounted, InLoop, Arrived,
       Imported, HomeBodies

\* A fault is counted.
LEMMA FaultCounted ==
    ASSUME MigrationInv, NEW kind, Fault(kind)
    PROVE  migrationFaults' \in Nat
BY DEF MigrationInv, MigrationTypeOK, Migrators, Fault

\* A new legacy file was not found by the last run.
LEMMA WriteLegacyInv ==
    ASSUME MigrationInv, WriteLegacy
    PROVE  MigrationInv'
BY DEF MigrationInv, MigrationTypeOK, Migrators, HandOK, Accounted, InLoop, Arrived,
       Imported, HomeBodies, WriteLegacy

\* A run that starts has copied nothing: what is recorded is of earlier runs.
LEMMA StartMigrationInv ==
    ASSUME MigrationInv, StartMigration
    PROVE  MigrationInv'
<1>1. /\ migrator' = [NoRun EXCEPT !.phase = IF legacy = {} THEN "retire" ELSE "file",
                                   !.todo = legacy, !.seen = HomeBodies]
      /\ ~marked /\ discovered' = legacy \union archived
      /\ UNCHANGED <<legacy, archived, home, marked, pointer, failedMoves, migrationFaults>>
  BY DEF StartMigration
<1>2. HomeBodies' = HomeBodies /\ Imported' = Imported
  BY <1>1 DEF HomeBodies, Imported
<1>3. HomeBodies \subseteq Bodies
  BY DEF HomeBodies, MigrationInv, MigrationTypeOK, Migrators, MemoryFiles
<1>4. MigrationTypeOK'
  BY <1>1, <1>3 DEF NoRun, MigrationInv, MigrationTypeOK, Migrators
<1>5. /\ migrator'.phase = (IF legacy = {} THEN "retire" ELSE "file")
      /\ migrator'.todo = legacy /\ migrator'.seen = HomeBodies
  BY <1>1 DEF NoRun
<1> QED BY <1>1, <1>2, <1>4, <1>5 DEF MigrationInv, HandOK, Accounted, InLoop, Arrived

\* A file that cannot be read is left where it is.
LEMMA FailClassifyInv ==
    ASSUME MigrationInv, FailClassify
    PROVE  MigrationInv'
<1>1. PICK f \in migrator.todo :
        migrator' = [migrator EXCEPT !.todo = @ \ {f}, !.errors = TRUE]
  BY DEF FailClassify
<1>2. /\ migrator.phase = "file" /\ migrationFaults' \in Nat
      /\ UNCHANGED <<legacy, archived, home, marked, pointer, discovered, failedMoves>>
  BY FaultCounted DEF FailClassify
<1>3. HomeBodies' = HomeBodies /\ Imported' = Imported
  BY <1>2 DEF HomeBodies, Imported
<1>4. MigrationTypeOK'
  BY <1>1, <1>2 DEF MigrationInv, MigrationTypeOK, Migrators
<1>5. /\ migrator'.todo = migrator.todo \ {f} /\ migrator'.phase = "file"
      /\ migrator'.seen = migrator.seen /\ migrator'.errors = TRUE
  BY <1>1, <1>2 DEF MigrationInv, MigrationTypeOK, Migrators
<1> QED BY <1>2, <1>3, <1>4, <1>5 DEF MigrationInv, HandOK, Accounted, InLoop, Arrived

\* A duplicate is skipped without being moved.
LEMMA SkipDuplicateInv ==
    ASSUME MigrationInv, SkipDuplicate
    PROVE  MigrationInv'
<1>1. PICK f \in migrator.todo :
        /\ Body[f] \in migrator.seen
        /\ migrator' = [migrator EXCEPT !.todo = @ \ {f}, !.phase = "move", !.file = f,
                                        !.duplicate = TRUE, !.progressed = TRUE]
  BY DEF SkipDuplicate
<1>2. /\ migrator.phase = "file"
      /\ UNCHANGED <<legacy, archived, home, marked, pointer, discovered, failedMoves,
                     migrationFaults>>
  BY DEF SkipDuplicate
<1>3. HomeBodies' = HomeBodies /\ Imported' = Imported
  BY <1>2 DEF HomeBodies, Imported
<1>4. f \in Files /\ f \in Imported
  BY <1>1 DEF MigrationInv, MigrationTypeOK, Migrators, Imported
<1>5. MigrationTypeOK'
  BY <1>1, <1>2, <1>4 DEF MigrationInv, MigrationTypeOK, Migrators
<1>6. /\ migrator'.todo = migrator.todo \ {f} /\ migrator'.phase = "move"
      /\ migrator'.file = f /\ migrator'.seen = migrator.seen
      /\ migrator'.errors = migrator.errors
  BY <1>1 DEF MigrationInv, MigrationTypeOK, Migrators
<1> QED BY <1>1, <1>2, <1>3, <1>4, <1>5, <1>6
        DEF MigrationInv, HandOK, Accounted, InLoop, Arrived

\* The target is created empty and is in hand until it is written.
LEMMA OpenTargetInv ==
    ASSUME MigrationInv, OpenTarget
    PROVE  MigrationInv'
<1>1. PICK f \in migrator.todo, target \in MemoryFiles :
        migrator' = [migrator EXCEPT !.todo = @ \ {f}, !.phase = "write", !.file = f,
                                     !.target = target, !.duplicate = FALSE]
  BY DEF OpenTarget, MemoryFiles
<1>2. /\ migrator.phase = "file"
      /\ UNCHANGED <<legacy, archived, marked, pointer, discovered, failedMoves,
                     migrationFaults>>
  BY DEF OpenTarget
<1>3. /\ HomeBodies' = HomeBodies /\ home' \subseteq MemoryFiles
      /\ migrator'.target \in home' /\ migrator'.target.text = Torn
  BY OpenKeepsBodies
<1>4. Imported' = Imported
  BY <1>3 DEF Imported
<1>5. f \in Files
  BY DEF MigrationInv, MigrationTypeOK, Migrators
<1>6. MigrationTypeOK'
  BY <1>1, <1>2, <1>3, <1>5 DEF MigrationInv, MigrationTypeOK, Migrators
<1>7. /\ migrator'.todo = migrator.todo \ {f} /\ migrator'.phase = "write"
      /\ migrator'.file = f /\ migrator'.seen = migrator.seen
      /\ migrator'.errors = migrator.errors
  BY <1>1 DEF MigrationInv, MigrationTypeOK, Migrators
<1> QED BY <1>2, <1>3, <1>4, <1>6, <1>7 DEF MigrationInv, HandOK, Accounted, InLoop, Arrived

\* The copy holds the content that was classified.
LEMMA WriteTargetInv ==
    ASSUME MigrationInv, WriteTarget
    PROVE  MigrationInv'
<1>1. /\ migrator.phase = "write"
      /\ migrator' = [migrator EXCEPT !.phase = "move", !.target = NoFile]
      /\ UNCHANGED <<legacy, archived, marked, pointer, discovered, failedMoves,
                     migrationFaults>>
  BY DEF WriteTarget
<1>2. /\ HomeBodies' = HomeBodies \union {Body[migrator.file]}
      /\ home' \subseteq MemoryFiles
  BY WriteAddsBody
<1>3. migrator.file \in Files
  BY <1>1 DEF MigrationInv, MigrationTypeOK, Migrators, HandOK, Arrived
<1>4. Imported \subseteq Imported' /\ migrator.file \in Imported'
  BY <1>2, <1>3 DEF Imported
<1>5. MigrationTypeOK'
  BY <1>1, <1>2 DEF MigrationInv, MigrationTypeOK, Migrators
<1>6. /\ migrator'.todo = migrator.todo /\ migrator'.phase = "move"
      /\ migrator'.file = migrator.file /\ migrator'.seen = migrator.seen
      /\ migrator'.errors = migrator.errors
  BY <1>1 DEF MigrationInv, MigrationTypeOK, Migrators
<1> QED BY <1>1, <1>2, <1>4, <1>5, <1>6 DEF MigrationInv, HandOK, Accounted, InLoop, Arrived

\* A write that fails leaves its source in place.
LEMMA FailWriteInv ==
    ASSUME MigrationInv, FailWrite
    PROVE  MigrationInv'
BY FaultCounted
   DEF MigrationInv, MigrationTypeOK, Migrators, HandOK, Accounted, InLoop, Arrived,
       Imported, HomeBodies, FailWrite

\* A source is moved only when its copy is whole.
LEMMA MoveOriginalInv ==
    ASSUME MigrationInv, MoveOriginal
    PROVE  MigrationInv'
<1>1. /\ migrator.phase = "move"
      /\ legacy' = legacy \ {migrator.file} /\ archived' = archived \union {migrator.file}
      /\ migrator' = [migrator EXCEPT !.phase = "file", !.file = NoFile, !.progressed = TRUE,
                                      !.seen = @ \union {Body[migrator.file]}]
      /\ UNCHANGED <<home, marked, pointer, discovered, failedMoves, migrationFaults>>
  BY DEF MoveOriginal
<1>2. HomeBodies' = HomeBodies /\ Imported' = Imported
  BY <1>1 DEF HomeBodies, Imported
<1>3. /\ migrator.file \in Files /\ migrator.file \in Arrived
      /\ Body[migrator.file] \in HomeBodies
  BY <1>1 DEF MigrationInv, MigrationTypeOK, Migrators, HandOK, Arrived
<1>4. migrator.file \in Imported /\ Body[migrator.file] \in Bodies
  BY <1>3, MigrationAssumption DEF Imported
<1>5. Arrived' = Arrived
  BY <1>1, <1>3 DEF Arrived
<1>6. MigrationTypeOK'
  BY <1>1, <1>3, <1>4 DEF MigrationInv, MigrationTypeOK, Migrators
<1>7. /\ migrator'.todo = migrator.todo /\ migrator'.phase = "file"
      /\ migrator'.seen = migrator.seen \union {Body[migrator.file]}
      /\ migrator'.errors = migrator.errors
  BY <1>1 DEF MigrationInv, MigrationTypeOK, Migrators
<1> QED BY <1>1, <1>2, <1>3, <1>4, <1>5, <1>6, <1>7
        DEF MigrationInv, HandOK, Accounted, InLoop

\* A move that fails leaves a source with a copy.
LEMMA FailMoveInv ==
    ASSUME MigrationInv, FailMove
    PROVE  MigrationInv'
<1>1. /\ migrationFaults' \in Nat /\ failedMoves' = failedMoves + 1
      /\ migrator' = [migrator EXCEPT !.phase = "file", !.file = NoFile, !.errors = TRUE]
      /\ UNCHANGED <<legacy, archived, home, marked, pointer, discovered>>
  BY FaultCounted DEF FailMove
<1>2. HomeBodies' = HomeBodies /\ Imported' = Imported
  BY <1>1 DEF HomeBodies, Imported
<1>3. MigrationTypeOK'
  <2>1. failedMoves' \in Nat
    BY <1>1 DEF MigrationInv, MigrationTypeOK
  <2>2. migrator' \in Migrators
    BY <1>1 DEF MigrationInv, MigrationTypeOK, Migrators
  <2> QED BY <1>1, <2>1, <2>2 DEF MigrationInv, MigrationTypeOK
<1>4. /\ migrator'.todo = migrator.todo /\ migrator'.phase = "file"
      /\ migrator'.seen = migrator.seen /\ migrator'.errors = TRUE
  BY <1>1 DEF MigrationInv, MigrationTypeOK, Migrators
<1>5. migrator.phase = "move"
  BY DEF FailMove
<1> QED BY <1>1, <1>2, <1>3, <1>4, <1>5 DEF MigrationInv, HandOK, Accounted, InLoop, Arrived

\* The end of the file loop touches no file.
LEMMA FinishFilesInv ==
    ASSUME MigrationInv, FinishFiles
    PROVE  MigrationInv'
<1>1. /\ migrator.phase = "file" /\ migrator.todo = {}
      /\ UNCHANGED <<legacy, archived, home, marked, pointer, discovered, failedMoves,
                     migrationFaults>>
  BY DEF FinishFiles
<1>2. CASE migrator.progressed /\ ~migrator.errors
  <2>1. migrator' = [migrator EXCEPT !.phase = "retire"]
    BY <1>2 DEF FinishFiles
  <2>2. discovered \subseteq Imported
    BY <1>1, <1>2 DEF MigrationInv, Accounted, InLoop
  <2> QED BY <1>1, <2>1, <2>2
          DEF MigrationInv, MigrationTypeOK, Migrators, HandOK, Accounted, InLoop, Arrived,
              Imported, HomeBodies
<1>3. CASE ~(migrator.progressed /\ ~migrator.errors)
  <2>1. migrator' = NoRun
    BY <1>3 DEF FinishFiles
  <2> QED BY <1>1, <2>1, IdleKeepsInv DEF MigrationInv, MigrationTypeOK, Migrators
<1> QED BY <1>2, <1>3

\* The marker is written after the files.
LEMMA MarkInv ==
    ASSUME MigrationInv, Mark
    PROVE  MigrationInv'
BY DEF MigrationInv, MigrationTypeOK, Migrators, HandOK, Accounted, InLoop, Arrived,
       Imported, HomeBodies, Mark

\* Replacing the pointer touches no memory file.
LEMMA MovePointerInv ==
    ASSUME MigrationInv, MovePointer
    PROVE  MigrationInv'
BY IdleKeepsInv DEF MigrationInv, MigrationTypeOK, Migrators, MovePointer

\* A kill drops what the run had in hand.
LEMMA KillMigrationInv ==
    ASSUME MigrationInv, KillMigration
    PROVE  MigrationInv'
BY IdleKeepsInv, FaultCounted DEF MigrationInv, MigrationTypeOK, Migrators, KillMigration

\* A step that changes nothing keeps the invariant.
LEMMA StutterInv ==
    ASSUME MigrationInv, UNCHANGED migrationVars
    PROVE  MigrationInv'
BY DEF MigrationInv, MigrationTypeOK, Migrators, HandOK, Accounted, InLoop, Arrived,
       Imported, HomeBodies, migrationVars

\* Every step preserves the invariant.
LEMMA MigrationStepInv ==
    ASSUME MigrationInv, [MigrationNext]_migrationVars
    PROVE  MigrationInv'
BY WriteLegacyInv, StartMigrationInv, FailClassifyInv, SkipDuplicateInv, OpenTargetInv,
   WriteTargetInv, FailWriteInv, MoveOriginalInv, FailMoveInv, FinishFilesInv, MarkInv,
   MovePointerInv, KillMigrationInv, StutterInv
   DEF MigrationNext

\* The invariant holds of every migration.
THEOREM MigrationInvariant == MigrationSpec => []MigrationInv
<1>1. MigrationInit => MigrationInv
  BY MigrationInitInv
<1>2. MigrationInv /\ [MigrationNext]_migrationVars => MigrationInv'
  BY MigrationStepInv
<1> QED BY <1>1, <1>2, PTL DEF MigrationSpec

\* The state of a migration is always well formed.
THEOREM MigrationTypeCorrect == MigrationSpec => []MigrationTypeOK
<1>1. MigrationInv => MigrationTypeOK
  BY DEF MigrationInv
<1> QED BY <1>1, MigrationInvariant, PTL

-----------------------------------------------------------------------------
(* The promise *)

\* A step that changes neither the files that exist, nor what the run found, nor
\* the bodies in the memory home, nor the marker stutters.
LEMMA SilentStep ==
    ASSUME Arrived' = Arrived, HomeBodies' = HomeBodies,
           UNCHANGED <<discovered, marked>>
    PROVE  UNCHANGED Promise!vars
BY DEF Promise!vars, Imported, Arrived

\* Every step is one of the promise, or stutters.
LEMMA StepKeepsPromise ==
    ASSUME MigrationInv, [MigrationNext]_migrationVars
    PROVE  [Promise!Next]_(Promise!vars)
<1>1. CASE WriteLegacy
  <2>1. Promise!Arrive
    BY <1>1 DEF WriteLegacy, Promise!Arrive, Imported, HomeBodies
  <2> QED BY <2>1 DEF Promise!Next
<1>2. CASE StartMigration
  <2>1. Promise!Look
    BY <1>2 DEF StartMigration, Promise!Look, Imported, HomeBodies
  <2> QED BY <2>1 DEF Promise!Next
<1>3. CASE WriteTarget
  <2>1. Imported \subseteq Imported' /\ Imported' \in SUBSET Files
    BY <1>3, WriteAddsBody DEF Imported
  <2>2. Promise!Import
    <3>1. Imported' = Imported \union Imported'
      BY <2>1
    <3>2. UNCHANGED <<legacy, archived, discovered, marked>>
      BY <1>3 DEF WriteTarget
    <3> QED BY <2>1, <3>1, <3>2 DEF Promise!Import
  <2> QED BY <2>2 DEF Promise!Next
<1>4. CASE Mark
  <2>1. Promise!Retire
    BY <1>4 DEF Mark, Promise!Retire, Imported, HomeBodies, MigrationInv
  <2> QED BY <2>1 DEF Promise!Next
<1>5. CASE OpenTarget
  <2>1. HomeBodies' = HomeBodies
    BY <1>5, OpenKeepsBodies
  <2>2. Arrived' = Arrived /\ UNCHANGED <<discovered, marked>>
    BY <1>5 DEF OpenTarget, Arrived
  <2> QED BY <2>1, <2>2, SilentStep
<1>6. CASE MoveOriginal
  <2>1. migrator.file \in Arrived
    BY <1>6 DEF MoveOriginal, MigrationInv, HandOK
  <2>2. Arrived' = Arrived
    BY <1>6, <2>1 DEF MoveOriginal, Arrived
  <2>3. HomeBodies' = HomeBodies /\ UNCHANGED <<discovered, marked>>
    BY <1>6 DEF MoveOriginal, HomeBodies
  <2> QED BY <2>2, <2>3, SilentStep
<1>7. CASE FailClassify \/ SkipDuplicate \/ FailWrite \/ FailMove \/ FinishFiles
           \/ MovePointer \/ KillMigration \/ UNCHANGED migrationVars
  <2>1. Arrived' = Arrived /\ HomeBodies' = HomeBodies /\ UNCHANGED <<discovered, marked>>
    BY <1>7
       DEF FailClassify, SkipDuplicate, FailWrite, FailMove, FinishFiles, MovePointer,
           KillMigration, migrationVars, Arrived, HomeBodies
  <2> QED BY <2>1, SilentStep
<1> QED BY <1>1, <1>2, <1>3, <1>4, <1>5, <1>6, <1>7 DEF MigrationNext

\* A migration retires the directory only when every file that the run found is
\* imported, and never loses an original or an imported body.
THEOREM MigrationKeepsPromise == MigrationSpec => ImplementsImport
<1>1. MigrationInit => Promise!Init
  BY DEF MigrationInit, Promise!Init, Imported, HomeBodies
<1>2. MigrationInv /\ [MigrationNext]_migrationVars => [Promise!Next]_(Promise!vars)
  BY StepKeepsPromise
<1> QED BY <1>1, <1>2, MigrationInvariant, PTL
        DEF MigrationSpec, ImplementsImport, Promise!Spec

-----------------------------------------------------------------------------
(* Equal bodies are imported once *)

\* The memory files that hold b.
Copies(b) == {m \in home : m.text = b}

\* A body that the run has not seen has at most a copy for every move that failed;
\* any other has one more, and so has the one in hand.
FewCopies(b) ==
    /\ Cardinality(Copies(b)) <= 1 + failedMoves
    /\ (InLoop /\ b \notin migrator.seen /\ ~(migrator.phase = "move" /\ b = Body[migrator.file]))
         => Cardinality(Copies(b)) <= failedMoves
    /\ (migrator.phase = "write" /\ b = Body[migrator.file]) => b \notin migrator.seen

CopiesInv == IsFiniteSet(home) /\ \A b \in Bodies : FewCopies(b)

\* The number of copies is a number.
LEMMA CopiesCounted ==
    ASSUME CopiesInv, NEW b \in Bodies
    PROVE  Cardinality(Copies(b)) \in Nat
<1>1. IsFiniteSet(Copies(b))
  BY FS_Subset DEF Copies, CopiesInv
<1> QED BY <1>1, FS_CardinalityType

\* A body that is not in the memory home has no copy.
LEMMA NoCopies ==
    ASSUME NEW b \in Bodies, b \notin HomeBodies
    PROVE  Cardinality(Copies(b)) = 0
<1>1. Copies(b) = {}
  BY MigrationAssumption DEF Copies, HomeBodies
<1> QED BY <1>1, FS_EmptySet

\* A step that leaves the memory home and what was seen alone, and neither enters
\* the loop nor counts a failed move down, leaves the copies alone.
LEMMA CopiesKept ==
    ASSUME MigrationInv, CopiesInv, home' = home, failedMoves' = failedMoves,
           ~InLoop' \/ (InLoop /\ migrator'.seen = migrator.seen
                        /\ migrator'.phase # "write"
                        /\ (migrator.phase = "move"
                              => migrator'.phase = "move" /\ migrator'.file = migrator.file))
    PROVE  CopiesInv'
<1>1. \A b \in Bodies : Copies(b)' = Copies(b)
  BY DEF Copies
<1> QED BY <1>1 DEF CopiesInv, FewCopies, InLoop

\* A run starts with the copies of the runs before.
LEMMA StartCopies ==
    ASSUME MigrationInv, CopiesInv, StartMigration
    PROVE  CopiesInv'
<1>1. /\ migrator'.seen = HomeBodies /\ migrator'.phase \in {"file", "retire"}
      /\ UNCHANGED <<home, failedMoves>>
  BY DEF StartMigration, NoRun
<1> SUFFICES ASSUME NEW b \in Bodies PROVE FewCopies(b)'
  BY <1>1 DEF CopiesInv
<1>2. Copies(b)' = Copies(b)
  BY <1>1 DEF Copies
<1>3. Cardinality(Copies(b)) <= 1 + failedMoves
  BY DEF CopiesInv, FewCopies
<1>4. b \notin HomeBodies => Cardinality(Copies(b)) <= failedMoves
  BY NoCopies DEF MigrationInv, MigrationTypeOK
<1> QED BY <1>1, <1>2, <1>3, <1>4 DEF FewCopies, InLoop

\* An opened target is new.
LEMMA OpenCopies ==
    ASSUME MigrationInv, CopiesInv, OpenTarget
    PROVE  CopiesInv'
<1>1. PICK f \in migrator.todo, target \in MemoryFiles :
        /\ Body[f] \notin migrator.seen
        /\ migrator' = [migrator EXCEPT !.todo = @ \ {f}, !.phase = "write", !.file = f,
                                        !.target = target, !.duplicate = FALSE]
  BY DEF OpenTarget, MemoryFiles
<1>2. /\ migrator'.phase = "write" /\ migrator'.file = f /\ migrator'.seen = migrator.seen
      /\ migrator.phase = "file" /\ failedMoves' = failedMoves
  BY <1>1 DEF OpenTarget, MigrationInv, MigrationTypeOK, Migrators
<1>3. home' = home \union {migrator'.target} /\ migrator'.target.text = Torn
  BY OpenKeepsBodies
<1>4. IsFiniteSet(home')
  BY <1>3, FS_AddElement DEF CopiesInv
<1> SUFFICES ASSUME NEW b \in Bodies PROVE FewCopies(b)'
  BY <1>4 DEF CopiesInv
<1>5. Copies(b)' = Copies(b)
  BY <1>3, MigrationAssumption DEF Copies
<1> QED BY <1>1, <1>2, <1>5 DEF CopiesInv, FewCopies, InLoop

\* A written target is the one that was opened.
LEMMA WriteCopies ==
    ASSUME MigrationInv, CopiesInv, WriteTarget
    PROVE  CopiesInv'
<1> DEFINE t == migrator.target
           w == [t EXCEPT !.text = Body[migrator.file]]
<1>1. /\ migrator.phase = "write" /\ migrator'.phase = "move"
      /\ migrator'.file = migrator.file /\ migrator'.seen = migrator.seen
      /\ failedMoves' = failedMoves
  BY DEF WriteTarget, MigrationInv, MigrationTypeOK, Migrators
<1>2. t \in MemoryFiles /\ t.text = Torn /\ Body[migrator.file] \in Bodies
  BY <1>1, WriteAddsBody DEF MigrationInv, MigrationTypeOK, HandOK
<1>3. w.text = Body[migrator.file]
  BY <1>2 DEF MemoryFiles
<1>4. home' = (home \ {t}) \union {w}
  BY DEF WriteTarget
<1> HIDE DEF t, w
<1>5. IsFiniteSet(home')
  BY <1>4, FS_AddElement, FS_RemoveElement DEF CopiesInv
<1> SUFFICES ASSUME NEW b \in Bodies PROVE FewCopies(b)'
  BY <1>5 DEF CopiesInv
<1>6. CASE b = Body[migrator.file]
  <2>1. Copies(b)' = Copies(b) \union {w}
    BY <1>2, <1>3, <1>4, <1>6, MigrationAssumption DEF Copies
  <2>2. IsFiniteSet(Copies(b))
    BY FS_Subset DEF CopiesInv, Copies
  <2>3. Cardinality(Copies(b)') <= Cardinality(Copies(b)) + 1
    <3>1. \/ Cardinality(Copies(b)') = Cardinality(Copies(b))
          \/ Cardinality(Copies(b)') = Cardinality(Copies(b)) + 1
      BY <2>1, <2>2, FS_AddElement
    <3> QED BY <3>1, CopiesCounted
  <2>4. Cardinality(Copies(b)) <= failedMoves
    BY <1>1, <1>6 DEF CopiesInv, FewCopies, InLoop
  <2>5. Cardinality(Copies(b)') \in Nat
    BY <2>1, <2>2, FS_AddElement, FS_CardinalityType
  <2>6. Cardinality(Copies(b)') <= 1 + failedMoves
    BY <2>3, <2>4, <2>5, CopiesCounted DEF MigrationInv, MigrationTypeOK
  <2> QED BY <1>1, <1>6, <2>6 DEF FewCopies, InLoop
<1>7. CASE b # Body[migrator.file]
  <2>1. Copies(b)' = Copies(b)
    BY <1>2, <1>3, <1>4, <1>7, MigrationAssumption DEF Copies
  <2> QED BY <1>1, <1>7, <2>1 DEF CopiesInv, FewCopies, InLoop
<1> QED BY <1>6, <1>7

\* Moving the source leaves every copy.
LEMMA MoveCopies ==
    ASSUME MigrationInv, CopiesInv, MoveOriginal
    PROVE  CopiesInv'
<1>1. /\ migrator.phase = "move" /\ migrator'.phase = "file"
      /\ migrator'.seen = migrator.seen \union {Body[migrator.file]}
      /\ UNCHANGED <<home, failedMoves>>
  BY DEF MoveOriginal, MigrationInv, MigrationTypeOK, Migrators
<1>2. \A b \in Bodies : Copies(b)' = Copies(b)
  BY <1>1 DEF Copies
<1> QED BY <1>1, <1>2 DEF CopiesInv, FewCopies, InLoop

\* A failed move may leave a second copy to be written: it is counted.
LEMMA FailMoveCopies ==
    ASSUME MigrationInv, CopiesInv, FailMove
    PROVE  CopiesInv'
<1>1. migrator'.phase = "file" /\ failedMoves' = failedMoves + 1 /\ home' = home
  BY DEF FailMove, MigrationInv, MigrationTypeOK, Migrators
<1> SUFFICES ASSUME NEW b \in Bodies PROVE FewCopies(b)'
  BY <1>1 DEF CopiesInv
<1>2. Copies(b)' = Copies(b)
  BY <1>1 DEF Copies
<1>3. Cardinality(Copies(b)) <= 1 + failedMoves
  BY DEF CopiesInv, FewCopies
<1>4. Cardinality(Copies(b)) <= failedMoves' /\ Cardinality(Copies(b)) <= 1 + failedMoves'
  BY <1>1, <1>3, CopiesCounted DEF MigrationInv, MigrationTypeOK
<1> QED BY <1>1, <1>2, <1>4 DEF FewCopies

\* Every step preserves the count.
LEMMA CopiesStep ==
    ASSUME MigrationInv, CopiesInv, [MigrationNext]_migrationVars
    PROVE  CopiesInv'
<1>1. CASE FailClassify \/ FailWrite
  BY <1>1, CopiesKept
     DEF FailClassify, FailWrite, InLoop, MigrationInv, MigrationTypeOK, Migrators
<1>2. CASE SkipDuplicate
  <2>1. /\ migrator.phase = "file" /\ migrator'.phase = "move"
        /\ migrator'.seen = migrator.seen /\ UNCHANGED <<home, failedMoves>>
    BY <1>2 DEF SkipDuplicate, MigrationInv, MigrationTypeOK, Migrators
  <2> QED BY <2>1, CopiesKept DEF InLoop
<1>3. CASE FinishFiles \/ Mark \/ MovePointer \/ KillMigration
  <2>1. ~InLoop' /\ UNCHANGED <<home, failedMoves>>
    BY <1>3
       DEF FinishFiles, Mark, MovePointer, KillMigration, NoRun, InLoop, MigrationInv,
           MigrationTypeOK, Migrators
  <2> QED BY <2>1, CopiesKept
<1>4. CASE WriteLegacy \/ UNCHANGED migrationVars
  <2>1. UNCHANGED <<home, migrator, failedMoves>>
    BY <1>4 DEF WriteLegacy, migrationVars
  <2>2. \A b \in Bodies : Copies(b)' = Copies(b)
    BY <2>1 DEF Copies
  <2> QED BY <2>1, <2>2 DEF CopiesInv, FewCopies, InLoop
<1> QED BY <1>1, <1>2, <1>3, <1>4, StartCopies, OpenCopies, WriteCopies, MoveCopies,
           FailMoveCopies
        DEF MigrationNext

\* Equal bodies are imported once, and once more for every move that failed.
THEOREM BodiesImportedOnce == MigrationSpec => []ImportedOnce
<1>1. MigrationInit => CopiesInv
  <2> SUFFICES ASSUME MigrationInit PROVE CopiesInv
    OBVIOUS
  <2>1. home = {} /\ failedMoves = 0 /\ migrator.phase = "idle"
    BY DEF MigrationInit, NoRun
  <2>2. IsFiniteSet(home) /\ Cardinality({}) = 0
    BY <2>1, FS_EmptySet
  <2>3. \A b \in Bodies : Copies(b) = {}
    BY <2>1 DEF Copies
  <2> QED BY <2>1, <2>2, <2>3 DEF CopiesInv, FewCopies, InLoop
<1>2. MigrationInv /\ CopiesInv /\ [MigrationNext]_migrationVars => CopiesInv'
  BY CopiesStep
<1>3. CopiesInv => ImportedOnce
  BY DEF CopiesInv, FewCopies, Copies, ImportedOnce
<1> QED BY <1>1, <1>2, <1>3, MigrationInvariant, PTL DEF MigrationSpec
=============================================================================
