------------------------- MODULE CuratedIndexProofs -------------------------
(***************************************************************************)
(* Theorems about CuratedIndex, for every set of files, contents, models   *)
(* and processes, any number of edits and any number of kills.             *)
(*                                                                         *)
(* The invariant behind them says what a command knows in each phase: what *)
(* it has in hand, whether it holds the lock, and that the temp database   *)
(* of a rebuild belongs to the lock holder.                                *)
(***************************************************************************)
EXTENDS CuratedIndex, TLAPS

Locking == {"rebuild", "update", "search"}

Working == {"walk", "parse", "commit", "report"}

\* What the command in slot p has in hand.
InHand(p) ==
    /\ run[p].phase # "idle" => run[p].kind \in Kinds /\ run[p].model \in Models
    /\ run[p].phase \notin {"idle", "rewritten"} => run[p].att \in Inodes
    /\ run[p].phase \in {"parse", "commit", "draft"} => run[p].file \in Files
    /\ run[p].phase \in {"parse", "commit"} => run[p].hash \in Contents
    /\ run[p].phase = "commit" => run[p].text \in Valid
    /\ run[p].phase = "open" => run[p].kind \in {"update", "search"}
    /\ run[p].phase = "waiting" => run[p].kind = "rebuild"
    /\ run[p].phase \in {"draft", "rewritten", "edited"} => run[p].kind \notin Locking

\* Who holds the lock.
LockOK(p) ==
    /\ run[p].kind \in Locking /\ run[p].phase \in Working => lock = p
    /\ Rebuilding(p) => lock = p /\ run[p].phase \in Working \ {"report"}

\* What a rebuild's temp database is to the others.
TempOK(p) ==
    Rebuilding(p) =>
        /\ temps = {run[p].tmp} /\ live # run[p].tmp
        /\ \A q \in Procs : run[q].att # run[p].tmp

IndInv == TypeOK /\ \A p \in Procs : InHand(p) /\ LockOK(p) /\ TempOK(p)

-----------------------------------------------------------------------------
(* What the operators on a database return *)

\* A file that nothing has written to is a well-formed database.
LEMMA BlankType == Blank \in Databases
BY DEF Blank, Databases, Rows

\* init_schema keeps a database well formed.
LEMMA InitSchemaType ==
    ASSUME NEW d \in Databases, NEW s \in Models \union {None}
    PROVE  InitSchema(d, s) \in Databases
BY DEF InitSchema, Databases

\* So does the row that replace_file_and_chunks writes.
LEMMA ReplaceType ==
    ASSUME NEW d \in Databases, NEW f \in Files, NEW h \in Contents, NEW t \in Valid,
           NEW m \in Models, NEW s \in Models \union {None}
    PROVE  ReplaceFileAndChunks(d, f, [hash |-> h, text |-> t, model |-> m], s) \in Databases
<1>1. [hash |-> h, text |-> t, model |-> m] \in [hash: Contents, text: Valid, model: Models]
  OBVIOUS
<1> QED BY <1>1 DEF ReplaceFileAndChunks, Databases, Rows

\* So does delete_file.
LEMMA DeleteType ==
    ASSUME NEW d \in Databases, NEW f \in Files
    PROVE  DeleteFile(d, f) \in Databases
BY DEF DeleteFile, Databases, Rows

\* An empty slot is well formed.
LEMMA IdleRunType == IdleRun \in Runs
BY DEF IdleRun, Runs, Phases

\* Closing files leaves only well-formed databases.
LEMMA ReclaimedType ==
    ASSUME db \in [Inodes -> Databases]
    PROVE  Reclaimed \in [Inodes -> Databases]
BY BlankType DEF Reclaimed

-----------------------------------------------------------------------------
(* The invariant is preserved by a step of one slot *)

\* All that the invariant reads of a slot.
Same(q, r) ==
    /\ run'[q].phase = r[q].phase /\ run'[q].kind = r[q].kind
    /\ run'[q].model = r[q].model /\ run'[q].att = r[q].att /\ run'[q].tmp = r[q].tmp
    /\ run'[q].file = r[q].file /\ run'[q].hash = r[q].hash /\ run'[q].text = r[q].text

\* A step of slot p keeps the invariant of every other slot if it takes the
\* lock from nobody and attaches to no temp database.
LEMMA SlotStep ==
    ASSUME IndInv, TypeOK', NEW p \in Procs, (InHand(p) /\ LockOK(p) /\ TempOK(p))',
           \A q \in Procs \ {p} :
               /\ Same(q, run)
               /\ lock = q => lock' = q
               /\ Rebuilding(q) => /\ temps' = temps /\ live' # run[q].tmp
                                   /\ run'[p].att # run[q].tmp
    PROVE  IndInv'
<1>1. ASSUME NEW q \in Procs \ {p}
      PROVE  (InHand(q) /\ LockOK(q) /\ TempOK(q))'
  <2>1. InHand(q) /\ LockOK(q) /\ TempOK(q)
    BY DEF IndInv
  <2>2. InHand(q)'
    BY <2>1 DEF InHand, Same
  <2>3. LockOK(q)'
    BY <2>1 DEF LockOK, Rebuilding, Same
  <2>4. ASSUME Rebuilding(q)
        PROVE  \A r \in Procs : run'[r].att # run[q].tmp
    BY <2>1, <2>4 DEF TempOK, Same
  <2>5. TempOK(q)'
    BY <2>1, <2>4 DEF TempOK, Rebuilding, Same
  <2> QED BY <2>2, <2>3, <2>5
<1> QED BY <1>1 DEF IndInv

\* A command that ends closes its connections and drops the lock it held; the
\* temp databases go with it, or stay when it was killed.
LEMMA ExitStep ==
    ASSUME IndInv, NEW p \in Procs, Exit(p), db' = Reclaimed,
           temps' = temps \/ (Rebuilding(p) /\ temps' = {}),
           report' \in [listed: SUBSET Files, uncovered: SUBSET Files],
           faults' \in Nat, UNCHANGED <<disk, live, edits>>
    PROVE  IndInv'
<1> USE ConstantsAssumption
<1>1. run'[p] = IdleRun /\ \A q \in Procs \ {p} : run'[q] = run[q]
  BY DEF Exit, IndInv, TypeOK
<1>2. TypeOK'
  <2>1. db' \in [Inodes -> Databases]
    BY ReclaimedType DEF IndInv, TypeOK
  <2>2. run' \in [Procs -> Runs] /\ lock' \in Procs \union {None}
    BY IdleRunType DEF Exit, IndInv, TypeOK
  <2> QED BY <2>1, <2>2 DEF IndInv, TypeOK
<1>3. run'[p].phase = "idle" /\ run'[p].kind = None /\ run'[p].tmp = None /\ run'[p].att = None
  BY <1>1 DEF IdleRun
<1>4. (InHand(p) /\ LockOK(p) /\ TempOK(p))'
  BY <1>3 DEF InHand, LockOK, TempOK, Rebuilding, Working
<1>5. ASSUME NEW q \in Procs \ {p}
      PROVE  /\ Same(q, run)
             /\ lock = q => lock' = q
             /\ Rebuilding(q) => /\ temps' = temps /\ live' # run[q].tmp
                                 /\ run'[p].att # run[q].tmp
  <2>1. Same(q, run) /\ (lock = q => lock' = q)
    BY <1>1 DEF Same, Exit
  <2>2. ASSUME Rebuilding(q)
        PROVE  temps' = temps /\ live' # run[q].tmp /\ run'[p].att # run[q].tmp
    BY <1>3, <2>2 DEF IndInv, LockOK, TempOK, Rebuilding
  <2> QED BY <2>1, <2>2
<1> QED BY <1>2, <1>4, <1>5, SlotStep

\* The fields of a freshly connected command.
LEMMA ConnectedFields ==
    ASSUME NEW k, NEW m, NEW ph
    PROVE  LET r == Connected(k, m, ph) IN
           /\ r.phase = ph /\ r.kind = k /\ r.model = m /\ r.att = live
           /\ r.tmp = None /\ r.file = None
BY DEF Connected, IdleRun

\* A command that has opened the live database, and perhaps initialised it.
LEMMA ConnectStep ==
    ASSUME IndInv, NEW p \in Procs, NEW r \in Runs, run' = [run EXCEPT ![p] = r],
           r.att = live, r.tmp = None, r.phase \notin Working,
           r.kind \in Kinds, r.model \in Models,
           r.phase = "draft" => r.file \in Files,
           r.phase = "open" => r.kind \in {"update", "search"},
           r.phase = "waiting" => r.kind = "rebuild",
           r.phase \in {"draft", "rewritten", "edited"} => r.kind \notin Locking,
           db' \in [Inodes -> Databases],
           UNCHANGED <<disk, live, temps, lock, report, edits, faults>>
    PROVE  IndInv'
<1> USE ConstantsAssumption
<1>1. run'[p] = r /\ \A q \in Procs \ {p} : run'[q] = run[q]
  BY DEF IndInv, TypeOK
<1>2. TypeOK'
  BY DEF IndInv, TypeOK
<1>3. (InHand(p) /\ LockOK(p) /\ TempOK(p))'
  BY <1>1 DEF InHand, LockOK, TempOK, Rebuilding, Working, IndInv, TypeOK
<1>4. ASSUME NEW q \in Procs \ {p}, Rebuilding(q)
      PROVE  live' # run[q].tmp /\ run'[p].att # run[q].tmp
  BY <1>1, <1>4 DEF IndInv, TempOK
<1> QED BY <1>1, <1>2, <1>3, <1>4, SlotStep DEF Same

-----------------------------------------------------------------------------
(* Starting a command *)

\* A connected slot is well typed.
LEMMA ConnectedType ==
    ASSUME IndInv, NEW k \in Kinds, NEW m \in Models, NEW ph \in Phases
    PROVE  Connected(k, m, ph) \in Runs
BY IdleRunType DEF Connected, Runs, IndInv, TypeOK

\* init_schema on the live database leaves databases.
LEMMA LiveSchemaType ==
    ASSUME IndInv, NEW s \in Models \union {None},
           db' = [db EXCEPT ![live] = InitSchema(db[live], s)]
    PROVE  db' \in [Inodes -> Databases]
<1>1. db[live] \in Databases
  BY DEF IndInv, TypeOK
<1>2. InitSchema(db[live], s) \in Databases
  BY <1>1, InitSchemaType
<1> QED BY <1>2 DEF IndInv, TypeOK

\* index update keeps the invariant until it takes the lock ...
LEMMA OpenForUpdateInv ==
    ASSUME IndInv, NEW p \in Procs, NEW m \in Models, OpenForUpdate(p, m)
    PROVE  IndInv'
<1> DEFINE r == Connected("update", m, "open")
<1>1. "update" \in Kinds /\ run' = [run EXCEPT ![p] = r]
  BY DEF OpenForUpdate
<1>2. r \in Runs
  BY <1>1, ConnectedType DEF Phases
<1>3. r.phase = "open" /\ r.kind = "update" /\ r.model = m /\ r.att = live /\ r.tmp = None
  BY ConnectedFields
<1>4. db' \in [Inodes -> Databases]
  BY LiveSchemaType DEF OpenForUpdate
<1>5. UNCHANGED <<disk, live, temps, lock, report, edits, faults>>
  BY DEF OpenForUpdate
<1> HIDE DEF r
<1> QED BY <1>1, <1>2, <1>3, <1>4, <1>5, ConnectStep DEF Working

\* ... so does index rebuild ...
LEMMA OpenForRebuildInv ==
    ASSUME IndInv, NEW p \in Procs, NEW m \in Models, OpenForRebuild(p, m)
    PROVE  IndInv'
<1> DEFINE r == Connected("rebuild", m, "waiting")
<1>1. "rebuild" \in Kinds /\ run' = [run EXCEPT ![p] = r]
  BY DEF OpenForRebuild
<1>2. r \in Runs
  BY <1>1, ConnectedType DEF Phases
<1>3. r.phase = "waiting" /\ r.kind = "rebuild" /\ r.model = m /\ r.att = live /\ r.tmp = None
  BY ConnectedFields
<1>4. db' \in [Inodes -> Databases]
  BY DEF OpenForRebuild, IndInv, TypeOK
<1>5. UNCHANGED <<disk, live, temps, lock, report, edits, faults>>
  BY DEF OpenForRebuild
<1> HIDE DEF r
<1> QED BY <1>1, <1>2, <1>3, <1>4, <1>5, ConnectStep DEF Working

\* ... and search, which may go straight to its query.
LEMMA OpenForSearchInv ==
    ASSUME IndInv, NEW p \in Procs, NEW m \in Models, OpenForSearch(p, m)
    PROVE  IndInv'
<1> DEFINE ph == IF NeedsSchemaMigration(InitSchema(db[live], m)) THEN "open" ELSE "query"
           r == Connected("search", m, ph)
<1>1. "search" \in Kinds /\ run' = [run EXCEPT ![p] = r]
  BY DEF OpenForSearch
<1>2. ph \in {"open", "query"}
  OBVIOUS
<1>3. db' \in [Inodes -> Databases]
  BY LiveSchemaType DEF OpenForSearch
<1> HIDE DEF ph
<1>4. r \in Runs
  BY <1>1, <1>2, ConnectedType DEF Phases
<1>5. r.phase = ph /\ r.kind = "search" /\ r.model = m /\ r.att = live /\ r.tmp = None
  BY ConnectedFields
<1>6. UNCHANGED <<disk, live, temps, lock, report, edits, faults>>
  BY DEF OpenForSearch
<1> HIDE DEF r
<1> QED BY <1>1, <1>2, <1>3, <1>4, <1>5, <1>6, ConnectStep DEF Working

\* A capture has chosen the file that it will write.
LEMMA OpenForCaptureInv ==
    ASSUME IndInv, NEW p \in Procs, NEW m \in Models, NEW f \in Files \ Outside,
           OpenForCapture(p, m, f)
    PROVE  IndInv'
<1> DEFINE c == Connected("capture", m, "draft")
           r == [c EXCEPT !.file = f]
<1>1. "capture" \in Kinds /\ run' = [run EXCEPT ![p] = r]
  BY DEF OpenForCapture
<1>2. c \in Runs
  BY <1>1, ConnectedType DEF Phases
<1>3. c.phase = "draft" /\ c.kind = "capture" /\ c.model = m /\ c.att = live /\ c.tmp = None
  BY ConnectedFields
<1> HIDE DEF c
<1>4. /\ r \in Runs /\ r.file = f
      /\ r.phase = "draft" /\ r.kind = "capture" /\ r.model = m /\ r.att = live /\ r.tmp = None
  BY <1>2, <1>3 DEF Runs
<1>5. db' \in [Inodes -> Databases]
  BY LiveSchemaType DEF OpenForCapture
<1>6. UNCHANGED <<disk, live, temps, lock, report, edits, faults>>
  BY DEF OpenForCapture
<1> HIDE DEF r
<1> QED BY <1>1, <1>4, <1>5, <1>6, ConnectStep DEF Working, Locking

\* confirm, flag-suspect and invalidate open the store for their reindex.
LEMMA OpenForReindexInv ==
    ASSUME IndInv, NEW p \in Procs, OpenForReindex(p)
    PROVE  IndInv'
<1> DEFINE r == [run[p] EXCEPT !.phase = "edited", !.att = live]
<1>1. run[p] \in Runs /\ run[p].phase = "rewritten" /\ InHand(p) /\ LockOK(p) /\ live \in Inodes
  BY DEF OpenForReindex, IndInv, TypeOK
<1>2. run[p].tmp = None
  BY <1>1 DEF LockOK, Rebuilding, Working
<1>3. run' = [run EXCEPT ![p] = r]
  BY DEF OpenForReindex, IndInv, TypeOK
<1>4. /\ r \in Runs /\ r.phase = "edited" /\ r.att = live /\ r.tmp = None
      /\ r.kind \in Kinds \ Locking /\ r.model \in Models
  BY <1>1, <1>2 DEF InHand, Runs, Phases
<1>5. db' \in [Inodes -> Databases]
  BY LiveSchemaType DEF OpenForReindex
<1>6. UNCHANGED <<disk, live, temps, lock, report, edits, faults>>
  BY DEF OpenForReindex
<1> HIDE DEF r
<1> QED BY <1>3, <1>4, <1>5, <1>6, ConnectStep DEF Working

-----------------------------------------------------------------------------
(* Ending a command *)

\* The steps that only end a command ...
LEMMA LeaveInv ==
    ASSUME IndInv, NEW p \in Procs,
           RefuseCapture(p) \/ RefuseReindex(p) \/ Busy(p) \/ Answer(p) \/ Kill(p)
    PROVE  IndInv'
<1>1. UNCHANGED <<disk, live, temps, report, edits>> /\ Exit(p) /\ db' = Reclaimed
  BY DEF RefuseCapture, RefuseReindex, Busy, Answer, Kill
<1>2. faults' \in Nat
  BY DEF RefuseCapture, RefuseReindex, Busy, Answer, Kill, IndInv, TypeOK
<1>3. report' \in [listed: SUBSET Files, uncovered: SUBSET Files]
  BY <1>1 DEF IndInv, TypeOK
<1> QED BY <1>1, <1>2, <1>3, ExitStep

\* ... and those in which an exception ends it.
LEMMA AbortInv ==
    ASSUME IndInv, NEW p \in Procs, Abort(p), faults' \in Nat,
           UNCHANGED <<disk, live, report, edits>>
    PROVE  IndInv'
<1>1. report' \in [listed: SUBSET Files, uncovered: SUBSET Files]
  BY DEF IndInv, TypeOK
<1> QED BY <1>1, ExitStep DEF Abort

\* A failed embedding, which drops the temp database of a rebuild, keeps it.
LEMMA FailEmbeddingInv ==
    ASSUME IndInv, NEW p \in Procs, FailEmbedding(p)
    PROVE  IndInv'
<1>1. faults' \in Nat
  BY DEF FailEmbedding, IndInv, TypeOK
<1> QED BY <1>1, AbortInv DEF FailEmbedding

-----------------------------------------------------------------------------
(* Writing memory files *)

\* A file that changes under the commands disturbs none of them.
LEMMA TouchStep ==
    ASSUME IndInv, NEW f \in Files, NEW c \in Contents \union {Absent},
           NEW r \in [Procs -> Runs], Touch(f, c, r),
           \A q \in Procs : \/ r[q] = run[q]
                            \/ /\ r[q].tmp = None /\ ~Rebuilding(q)
                               /\ r[q].phase = "edited" => r[q].att = run[q].att /\ r[q].att \in Inodes
                               /\ r[q].phase = "rewritten" => r[q].att = None
                               /\ r[q].phase \in {"rewritten", "edited"}
                               /\ r[q].kind \in Kinds \ Locking /\ r[q].model \in Models,
           UNCHANGED <<db, live, temps, lock, report, faults>>
    PROVE  IndInv'
<1> USE ConstantsAssumption
<1>1. \A q \in Procs : run'[q] \in Runs /\ Same(q, r)
  BY DEF Touch, Same, Runs
<1>2. run' \in [Procs -> Runs] /\ disk' \in [Files -> Contents \union {Absent}] /\ edits' \in Nat
  BY <1>1 DEF Touch, IndInv, TypeOK
<1>3. TypeOK'
  BY <1>2 DEF IndInv, TypeOK
<1>4. ASSUME NEW p \in Procs
      PROVE  (InHand(p) /\ LockOK(p) /\ TempOK(p))'
  <2>1. InHand(p) /\ LockOK(p) /\ TempOK(p) /\ Same(p, r)
    BY <1>1 DEF IndInv
  <2>2. InHand(p)'
    BY <2>1 DEF InHand, Same
  <2>3. LockOK(p)'
    BY <2>1 DEF LockOK, Rebuilding, Same, Working
  <2>4. ASSUME Rebuilding(p)', NEW q \in Procs
        PROVE  run'[q].att # run'[p].tmp
    <3>1. Rebuilding(p) /\ run'[p].tmp = run[p].tmp
      BY <2>1, <2>4 DEF Rebuilding, Same
    <3>2. run'[q].att = run[q].att \/ run'[q].att = None
      BY <1>1 DEF Same
    <3>3. run[p].tmp \in Inodes
      BY <3>1 DEF IndInv, TypeOK, Rebuilding, Runs
    <3> QED BY <2>1, <3>1, <3>2, <3>3 DEF TempOK
  <2>5. TempOK(p)'
    BY <2>1, <2>4 DEF TempOK, Rebuilding, Same
  <2> QED BY <2>2, <2>3, <2>5
<1> QED BY <1>3, <1>4 DEF IndInv

\* An edit of a memory file keeps it.
LEMMA EditInv ==
    ASSUME IndInv, NEW f \in Files, NEW c \in Contents \union {Absent}, Edit(f, c)
    PROVE  IndInv'
BY TouchStep DEF Edit, IndInv, TypeOK

\* The file that capture writes keeps it.
LEMMA WriteCaptureInv ==
    ASSUME IndInv, NEW p \in Procs, NEW c \in Valid, WriteCapture(p, c)
    PROVE  IndInv'
<1> USE ConstantsAssumption
<1> DEFINE r == [run EXCEPT ![p].phase = "edited", ![p].file = None]
<1>1. /\ run[p] \in Runs /\ run \in [Procs -> Runs]
      /\ InHand(p) /\ LockOK(p) /\ run[p].phase = "draft" /\ c \in Contents
  BY DEF WriteCapture, IndInv, TypeOK, Valid
<1>2. /\ run[p].file \in Files /\ run[p].att \in Inodes /\ ~Rebuilding(p)
      /\ run[p].kind \in Kinds \ Locking /\ run[p].model \in Models
  BY <1>1 DEF InHand, LockOK, Working
<1>3. /\ r[p] = [run[p] EXCEPT !.phase = "edited", !.file = None]
      /\ \A q \in Procs \ {p} : r[q] = run[q]
  BY <1>1
<1>4. /\ r[p] \in Runs /\ r[p].tmp = None /\ r[p].phase = "edited" /\ r[p].att = run[p].att
      /\ r[p].kind = run[p].kind /\ r[p].model = run[p].model
  BY <1>1, <1>2, <1>3 DEF Runs, Phases, Rebuilding
<1>5. r \in [Procs -> Runs]
  BY <1>1, <1>4
<1>6. Touch(run[p].file, c, r) /\ UNCHANGED <<db, live, temps, lock, report, faults>>
  BY DEF WriteCapture
<1> HIDE DEF r
<1>7. ASSUME NEW q \in Procs \ {p}
      PROVE  r[q] = run[q]
  BY <1>3
<1>8. c \in Contents \union {Absent}
  BY <1>1
<1>9. ASSUME NEW q \in Procs
      PROVE  \/ r[q] = run[q]
             \/ /\ r[q].tmp = None /\ ~Rebuilding(q)
                /\ r[q].phase = "edited" => r[q].att = run[q].att /\ r[q].att \in Inodes
                /\ r[q].phase = "rewritten" => r[q].att = None
                /\ r[q].phase \in {"rewritten", "edited"}
                /\ r[q].kind \in Kinds \ Locking /\ r[q].model \in Models
  BY <1>2, <1>4, <1>7
<1> QED BY <1>2, <1>5, <1>6, <1>8, <1>9, TouchStep

\* A confirm rewriting a memory file keeps it.
LEMMA RewriteFrontmatterInv ==
    ASSUME IndInv, NEW p \in Procs, NEW m \in Models, NEW f \in Files, NEW c \in Contents,
           RewriteFrontmatter(p, m, f, c)
    PROVE  IndInv'
<1> USE ConstantsAssumption
<1> DEFINE n == [IdleRun EXCEPT !.phase = "rewritten", !.kind = "confirm", !.model = m]
           r == [run EXCEPT ![p] = n]
<1>1. run \in [Procs -> Runs] /\ LockOK(p) /\ run[p].phase = "idle" /\ "confirm" \in Kinds
  BY DEF RewriteFrontmatter, Idle, IndInv, TypeOK
<1>2. ~Rebuilding(p)
  BY <1>1 DEF LockOK, Working
<1>3. /\ n.phase = "rewritten" /\ n.kind = "confirm" /\ n.model = m
      /\ n.tmp = None /\ n.att = None
  BY DEF IdleRun
<1>4. n \in Runs
  BY <1>1, IdleRunType DEF Runs, Phases
<1>5. Touch(f, c, r) /\ UNCHANGED <<db, live, temps, lock, report, faults>>
  BY DEF RewriteFrontmatter
<1> HIDE DEF n
<1>6. r[p] = n /\ r \in [Procs -> Runs] /\ \A q \in Procs \ {p} : r[q] = run[q]
  BY <1>1, <1>4
<1> HIDE DEF r
<1> QED BY <1>1, <1>2, <1>3, <1>5, <1>6, TouchStep DEF Locking

-----------------------------------------------------------------------------
(* Working under the lock, or without it *)

\* A command that keeps its connections and takes the lock or drops its own.
LEMMA StayStep ==
    ASSUME IndInv, NEW p \in Procs, NEW r \in Runs, run' = [run EXCEPT ![p] = r],
           r.kind = run[p].kind, r.model = run[p].model, r.att = run[p].att, r.tmp = run[p].tmp,
           run[p].phase \notin {"idle", "rewritten"}, r.phase \in Working \union {"query"},
           r.phase \in {"parse", "commit"} => r.file \in Files /\ r.hash \in Contents,
           r.phase = "commit" => r.text \in Valid,
           r.phase \in {"report", "query"} => ~Rebuilding(p),
           r.phase \in Working /\ r.kind \in Locking => lock' = p,
           \/ lock' = lock
           \/ lock = None /\ lock' = p
           \/ lock = p /\ lock' = None /\ ~Rebuilding(p),
           db' \in [Inodes -> Databases],
           report' \in [listed: SUBSET Files, uncovered: SUBSET Files],
           UNCHANGED <<disk, live, temps, edits, faults>>
    PROVE  IndInv'
<1> USE ConstantsAssumption
<1>1. run'[p] = r /\ \A q \in Procs \ {p} : run'[q] = run[q]
  BY DEF IndInv, TypeOK
<1>2. TypeOK'
  BY DEF IndInv, TypeOK
<1>3. InHand(p) /\ LockOK(p) /\ TempOK(p) /\ run[p] \in Runs
  BY DEF IndInv, TypeOK
<1>4. InHand(p)'
  BY <1>1, <1>3 DEF InHand, Working
<1>5. LockOK(p)'
  BY <1>1, <1>3 DEF LockOK, Rebuilding, Working
<1>6. TempOK(p)'
  BY <1>1, <1>3 DEF TempOK, Rebuilding
<1>7. ASSUME NEW q \in Procs \ {p}
      PROVE  /\ Same(q, run)
             /\ lock = q => lock' = q
             /\ Rebuilding(q) => /\ temps' = temps /\ live' # run[q].tmp
                                 /\ run'[p].att # run[q].tmp
  <2>1. Same(q, run) /\ (lock = q => lock' = q)
    BY <1>1 DEF Same
  <2>2. ASSUME Rebuilding(q)
        PROVE  temps' = temps /\ live' # run[q].tmp /\ run'[p].att # run[q].tmp
    BY <1>1, <2>2 DEF IndInv, TempOK
  <2> QED BY <2>1, <2>2
<1> QED BY <1>2, <1>4, <1>5, <1>6, <1>7, SlotStep

\* What the start of an update records is well typed.
LEMMA BeginWalkType ==
    ASSUME IndInv, NEW p \in Procs, run[p].att \in Inodes, BeginWalk(p)
    PROVE  \E r \in Runs :
             /\ run' = [run EXCEPT ![p] = r]
             /\ r.phase = "walk" /\ r.kind = run[p].kind /\ r.model = run[p].model
             /\ r.att = run[p].att /\ r.tmp = run[p].tmp
<1> DEFINE rows == db[run[p].att].rows
           snap == [f \in Files |-> IF rows[f] = None THEN None ELSE rows[f].hash]
           gone == {f \in Files \ Listed : rows[f] # None}
           r == [run[p] EXCEPT !.phase = "walk", !.snap = snap, !.todo = Listed,
                               !.gone = gone, !.quiet = Files]
<1>1. run[p] \in Runs /\ run \in [Procs -> Runs] /\ rows \in Rows
  BY DEF IndInv, TypeOK, Databases
<1>2. snap \in [Files -> Contents \union {None}]
  BY <1>1 DEF Rows
<1>3. Listed \in SUBSET Files /\ gone \in SUBSET Files
  BY DEF Listed
<1>4. run' = [run EXCEPT ![p] = r]
  BY <1>1 DEF BeginWalk
<1> HIDE DEF rows, snap, gone
<1>5. /\ r \in Runs /\ r.phase = "walk" /\ r.kind = run[p].kind /\ r.model = run[p].model
      /\ r.att = run[p].att /\ r.tmp = run[p].tmp
  BY <1>1, <1>2, <1>3 DEF Runs, Phases
<1> QED BY <1>4, <1>5

\* An update that gets the lock keeps it: no rebuild can be under way.
LEMMA LockForUpdateInv ==
    ASSUME IndInv, NEW p \in Procs, LockForUpdate(p)
    PROVE  IndInv'
<1>1. /\ run[p].phase = "open" /\ lock = None /\ lock' = p /\ BeginWalk(p)
      /\ UNCHANGED <<disk, db, live, temps, report, edits, faults>>
  BY DEF LockForUpdate, LockFree
<1>2. InHand(p) /\ TypeOK
  BY DEF IndInv
<1>3. run[p].att \in Inodes
  BY <1>1, <1>2 DEF InHand
<1>4. PICK r \in Runs : /\ run' = [run EXCEPT ![p] = r]
                        /\ r.phase = "walk" /\ r.kind = run[p].kind /\ r.model = run[p].model
                        /\ r.att = run[p].att /\ r.tmp = run[p].tmp
  BY <1>1, <1>3, BeginWalkType
<1>5. db' \in [Inodes -> Databases] /\ report' \in [listed: SUBSET Files, uncovered: SUBSET Files]
  BY <1>1, <1>2 DEF TypeOK
<1> QED BY <1>1, <1>4, <1>5, StayStep DEF Working

\* capture and confirm reach the walk without the lock.
LEMMA UpdateUnlockedInv ==
    ASSUME IndInv, NEW p \in Procs, UpdateUnlocked(p)
    PROVE  IndInv'
<1>1. /\ run[p].phase = "edited" /\ BeginWalk(p)
      /\ UNCHANGED <<disk, db, live, temps, lock, report, edits, faults>>
  BY DEF UpdateUnlocked
<1>2. InHand(p) /\ TypeOK
  BY DEF IndInv
<1>3. run[p].att \in Inodes /\ run[p].kind \notin Locking
  BY <1>1, <1>2 DEF InHand
<1>4. PICK r \in Runs : /\ run' = [run EXCEPT ![p] = r]
                        /\ r.phase = "walk" /\ r.kind = run[p].kind /\ r.model = run[p].model
                        /\ r.att = run[p].att /\ r.tmp = run[p].tmp
  BY <1>1, <1>3, BeginWalkType
<1>5. db' \in [Inodes -> Databases] /\ report' \in [listed: SUBSET Files, uncovered: SUBSET Files]
  BY <1>1, <1>2 DEF TypeOK
<1> QED BY <1>1, <1>3, <1>4, <1>5, StayStep DEF Working

\* Hashing the next file of a walk keeps it.
LEMMA HashFileInv ==
    ASSUME IndInv, NEW p \in Procs, HashFile(p)
    PROVE  IndInv'
<1>1. /\ run[p].phase = "walk" /\ run[p] \in Runs /\ run \in [Procs -> Runs]
      /\ InHand(p) /\ LockOK(p)
      /\ UNCHANGED <<disk, live, report, edits, faults>>
  BY DEF HashFile, IndInv, TypeOK
<1>2. PICK f \in run[p].todo :
         \/ /\ disk[f] = Absent
            /\ Abort(p)
         \/ /\ disk[f] # Absent /\ run[p].snap[f] = disk[f]
            /\ run' = [run EXCEPT ![p].todo = @ \ {f}]
            /\ UNCHANGED <<db, temps, lock>>
         \/ /\ disk[f] # Absent /\ run[p].snap[f] # disk[f]
            /\ run' = [run EXCEPT ![p].phase = "parse", ![p].file = f,
                                  ![p].hash = disk[f]]
            /\ UNCHANGED <<db, temps, lock>>
  BY DEF HashFile
<1>3. f \in Files /\ disk[f] \in Contents \union {Absent}
  BY <1>1 DEF Runs, IndInv, TypeOK
<1>4. /\ db \in [Inodes -> Databases] /\ faults' \in Nat
      /\ report' \in [listed: SUBSET Files, uncovered: SUBSET Files]
  BY <1>1 DEF IndInv, TypeOK
<1>5. CASE disk[f] = Absent
  BY <1>1, <1>2, <1>4, <1>5, AbortInv
<1>6. CASE disk[f] # Absent /\ run[p].snap[f] = disk[f]
  <2> DEFINE r == [run[p] EXCEPT !.todo = @ \ {f}]
  <2>1. run' = [run EXCEPT ![p] = r] /\ UNCHANGED <<db, temps, lock>>
    BY <1>1, <1>2, <1>6
  <2>2. /\ r \in Runs /\ r.phase = "walk" /\ r.kind = run[p].kind /\ r.model = run[p].model
        /\ r.att = run[p].att /\ r.tmp = run[p].tmp
    BY <1>1 DEF Runs
  <2> HIDE DEF r
  <2> QED BY <1>1, <1>4, <2>1, <2>2, StayStep DEF Working, LockOK
<1>7. CASE disk[f] # Absent /\ run[p].snap[f] # disk[f]
  <2> DEFINE r == [run[p] EXCEPT !.phase = "parse", !.file = f, !.hash = disk[f]]
  <2>1. run' = [run EXCEPT ![p] = r] /\ UNCHANGED <<db, temps, lock>>
    BY <1>1, <1>2, <1>7
  <2>2. /\ r \in Runs /\ r.phase = "parse" /\ r.kind = run[p].kind /\ r.model = run[p].model
        /\ r.att = run[p].att /\ r.tmp = run[p].tmp /\ r.file \in Files /\ r.hash \in Contents
    BY <1>1, <1>3, <1>7 DEF Runs, Phases
  <2> HIDE DEF r
  <2> QED BY <1>1, <1>4, <2>1, <2>2, StayStep DEF Working, LockOK
<1> QED BY <1>2, <1>5, <1>6, <1>7

\* Parsing the file in hand keeps it.
LEMMA ParseFileInv ==
    ASSUME IndInv, NEW p \in Procs, ParseFile(p)
    PROVE  IndInv'
<1> DEFINE f == run[p].file
<1>1. /\ run[p].phase = "parse" /\ run[p] \in Runs /\ run \in [Procs -> Runs]
      /\ InHand(p) /\ LockOK(p)
      /\ UNCHANGED <<disk, live, report, edits, faults>>
  BY DEF ParseFile, IndInv, TypeOK
<1>2. f \in Files /\ run[p].hash \in Contents /\ run[p].att \in Inodes
  BY <1>1 DEF InHand
<1>3. /\ db \in [Inodes -> Databases] /\ faults' \in Nat
      /\ report' \in [listed: SUBSET Files, uncovered: SUBSET Files]
  BY <1>1 DEF IndInv, TypeOK
<1>4. CASE disk[f] = Absent /\ Abort(p)
  BY <1>1, <1>3, <1>4, AbortInv
<1>5. CASE /\ run' = [run EXCEPT ![p] = FileDone(p)]
           /\ db' = IF run[p].snap[f] = None THEN db
                    ELSE [db EXCEPT ![run[p].att] = DeleteFile(@, f)]
           /\ UNCHANGED <<temps, lock>>
  <2> DEFINE r == FileDone(p)
  <2>1. DeleteFile(db[run[p].att], f) \in Databases
    BY <1>2, <1>3, DeleteType
  <2>2. db' \in [Inodes -> Databases]
    BY <1>3, <1>5, <2>1
  <2>3. /\ r \in Runs /\ r.phase = "walk" /\ r.kind = run[p].kind /\ r.model = run[p].model
        /\ r.att = run[p].att /\ r.tmp = run[p].tmp
    BY <1>1 DEF Runs, Phases, FileDone
  <2>4. run' = [run EXCEPT ![p] = r] /\ UNCHANGED <<temps, lock>>
    BY <1>5
  <2> HIDE DEF r
  <2> QED BY <1>1, <1>3, <2>2, <2>3, <2>4, StayStep DEF Working, LockOK
<1>6. CASE /\ disk[f] \in Valid
           /\ run' = [run EXCEPT ![p].phase = "commit", ![p].text = disk[f]]
           /\ UNCHANGED <<db, temps, lock>>
  <2> DEFINE r == [run[p] EXCEPT !.phase = "commit", !.text = disk[f]]
  <2>1. run' = [run EXCEPT ![p] = r]
    BY <1>1, <1>6
  <2>2. /\ r \in Runs /\ r.phase = "commit" /\ r.kind = run[p].kind /\ r.model = run[p].model
        /\ r.att = run[p].att /\ r.tmp = run[p].tmp
        /\ r.file \in Files /\ r.hash \in Contents /\ r.text \in Valid
    BY <1>1, <1>2, <1>6 DEF Runs, Phases
  <2> HIDE DEF r
  <2> QED BY <1>1, <1>3, <1>6, <2>1, <2>2, StayStep DEF Working, LockOK
<1> QED BY <1>4, <1>5, <1>6 DEF ParseFile

\* Committing the file in hand keeps it.
LEMMA CommitFileInv ==
    ASSUME IndInv, NEW p \in Procs, CommitFile(p)
    PROVE  IndInv'
<1> DEFINE row == [hash |-> run[p].hash, text |-> run[p].text, model |-> run[p].model]
           r == FileDone(p)
<1>1. /\ run[p].phase = "commit" /\ run[p] \in Runs /\ InHand(p) /\ LockOK(p)
      /\ db \in [Inodes -> Databases]
      /\ run' = [run EXCEPT ![p] = r]
      /\ db' = [db EXCEPT ![Target(p)] = ReplaceFileAndChunks(@, run[p].file, row, Stamp(p))]
      /\ UNCHANGED <<disk, live, temps, lock, report, edits, faults>>
  BY DEF CommitFile, IndInv, TypeOK
<1>2. /\ run[p].file \in Files /\ run[p].hash \in Contents /\ run[p].text \in Valid
      /\ run[p].model \in Models
  BY <1>1 DEF InHand
<1>3. Target(p) \in Inodes /\ Stamp(p) \in Models \union {None}
  BY <1>1, <1>2 DEF Target, Stamp, Rebuilding, InHand, Runs
<1>4. ReplaceFileAndChunks(db[Target(p)], run[p].file, row, Stamp(p)) \in Databases
  BY <1>1, <1>2, <1>3, ReplaceType
<1>5. db' \in [Inodes -> Databases]
  BY <1>1, <1>3, <1>4
<1>6. /\ r \in Runs /\ r.phase = "walk" /\ r.kind = run[p].kind /\ r.model = run[p].model
      /\ r.att = run[p].att /\ r.tmp = run[p].tmp
  BY <1>1 DEF Runs, Phases, FileDone
<1>7. report' \in [listed: SUBSET Files, uncovered: SUBSET Files]
  BY <1>1 DEF IndInv, TypeOK
<1> HIDE DEF r
<1> QED BY <1>1, <1>5, <1>6, <1>7, StayStep DEF Working, LockOK

\* Deleting what the walk did not list keeps it.
LEMMA SweepInv ==
    ASSUME IndInv, NEW p \in Procs, Sweep(p)
    PROVE  IndInv'
<1>1. /\ run[p].phase = "walk" /\ ~Rebuilding(p) /\ run[p] \in Runs /\ run \in [Procs -> Runs]
      /\ InHand(p) /\ LockOK(p) /\ run[p].att \in Inodes /\ db \in [Inodes -> Databases]
      /\ UNCHANGED <<disk, live, temps, lock, report, edits, faults>>
  BY DEF Sweep, IndInv, TypeOK, InHand
<1>2. report' \in [listed: SUBSET Files, uncovered: SUBSET Files]
  BY <1>1 DEF IndInv, TypeOK
<1>3. CASE run' = [run EXCEPT ![p].phase = "report"] /\ UNCHANGED db
  <2> DEFINE r == [run[p] EXCEPT !.phase = "report"]
  <2>1. run' = [run EXCEPT ![p] = r]
    BY <1>1, <1>3
  <2>2. /\ r \in Runs /\ r.phase = "report" /\ r.kind = run[p].kind /\ r.model = run[p].model
        /\ r.att = run[p].att /\ r.tmp = run[p].tmp
    BY <1>1 DEF Runs, Phases
  <2> HIDE DEF r
  <2> QED BY <1>1, <1>2, <1>3, <2>1, <2>2, StayStep DEF Working, LockOK
<1>4. ASSUME NEW f \in run[p].gone,
             run' = [run EXCEPT ![p].gone = @ \ {f}],
             db' = [db EXCEPT ![run[p].att] = DeleteFile(@, f)]
      PROVE  IndInv'
  <2> DEFINE r == [run[p] EXCEPT !.gone = @ \ {f}]
  <2>1. run' = [run EXCEPT ![p] = r]
    BY <1>1, <1>4
  <2>2. /\ r \in Runs /\ r.phase = "walk" /\ r.kind = run[p].kind /\ r.model = run[p].model
        /\ r.att = run[p].att /\ r.tmp = run[p].tmp
    BY <1>1 DEF Runs
  <2>3. f \in Files
    BY <1>1 DEF Runs
  <2>4. DeleteFile(db[run[p].att], f) \in Databases
    BY <1>1, <2>3, DeleteType
  <2>5. db' \in [Inodes -> Databases]
    BY <1>1, <1>4, <2>4
  <2> HIDE DEF r
  <2> QED BY <1>1, <1>2, <2>1, <2>2, <2>5, StayStep DEF Working, LockOK
<1> QED BY <1>3, <1>4 DEF Sweep

\* A search keeps its connection and lets the lock go; any other command ends.
LEMMA WriteReportInv ==
    ASSUME IndInv, NEW p \in Procs, WriteReport(p)
    PROVE  IndInv'
<1>1. /\ run[p].phase = "report" /\ run[p] \in Runs /\ run \in [Procs -> Runs]
      /\ InHand(p) /\ LockOK(p) /\ faults' \in Nat
      /\ UNCHANGED <<disk, live, temps, edits, faults>> /\ db' = Reclaimed
  BY DEF WriteReport, IndInv, TypeOK
<1>2. report' \in [listed: SUBSET Files, uncovered: SUBSET Files]
  BY DEF WriteReport
<1>3. CASE run[p].kind = "search"
  <2> DEFINE r == [run[p] EXCEPT !.phase = "query", !.quiet = {}]
  <2>1. run' = [run EXCEPT ![p] = r] /\ lock' = None
    BY <1>1, <1>3 DEF WriteReport
  <2>2. /\ r \in Runs /\ r.phase = "query" /\ r.kind = run[p].kind /\ r.model = run[p].model
        /\ r.att = run[p].att /\ r.tmp = run[p].tmp
    BY <1>1 DEF Runs, Phases
  <2>3. lock = p /\ ~Rebuilding(p)
    BY <1>1, <1>3 DEF LockOK, Locking, Working
  <2>4. db' \in [Inodes -> Databases]
    BY <1>1, ReclaimedType DEF IndInv, TypeOK
  <2> HIDE DEF r
  <2> QED BY <1>1, <1>2, <2>1, <2>2, <2>3, <2>4, StayStep DEF Working
<1>4. CASE run[p].kind # "search"
  <2>1. Exit(p)
    BY <1>4 DEF WriteReport
  <2> QED BY <1>1, <1>2, <2>1, ExitStep
<1> QED BY <1>3, <1>4

\* A rebuild creates its temp database: no other rebuild can be under way, and
\* nobody has the inode open.
LEMMA LockForRebuildInv ==
    ASSUME IndInv, NEW p \in Procs, LockForRebuild(p)
    PROVE  IndInv'
<1> USE ConstantsAssumption
<1>1. PICK tmp \in Inodes :
         /\ ~Open(tmp)
         /\ temps' = {tmp}
         /\ run' = [run EXCEPT ![p] = [@ EXCEPT !.phase = "walk", !.tmp = tmp,
                                              !.todo = Listed, !.quiet = Files]]
         /\ db' = [Reclaimed EXCEPT ![tmp] = InitSchema(Blank, run[p].model)]
  BY DEF LockForRebuild
<1>2. /\ lock = None /\ lock' = p /\ UNCHANGED <<disk, live, report, edits, faults>>
      /\ run[p].phase \in {"waiting", "open"} /\ run[p].kind \in Locking
      /\ InHand(p) /\ TypeOK /\ run[p] \in Runs
  BY DEF LockForRebuild, LockFree, IndInv, InHand, TypeOK, Locking
<1> DEFINE r == [run[p] EXCEPT !.phase = "walk", !.tmp = tmp, !.todo = Listed, !.quiet = Files]
<1>3. run' = [run EXCEPT ![p] = r]
  BY <1>1, <1>2 DEF TypeOK
<1>4. /\ r \in Runs /\ r.phase = "walk" /\ r.kind = run[p].kind /\ r.model = run[p].model
      /\ r.att = run[p].att /\ r.tmp = tmp
  BY <1>2 DEF Runs, Phases, Listed
<1> HIDE DEF r
<1>5. \A q \in Procs : run[q].att # tmp /\ live # tmp
  BY <1>1 DEF Open
<1>6. run'[p] = r /\ \A q \in Procs \ {p} : run'[q] = run[q]
  BY <1>2, <1>3 DEF TypeOK
<1>7. db' \in [Inodes -> Databases]
  <2>1. run[p].model \in Models
    BY <1>2 DEF InHand
  <2>2. InitSchema(Blank, run[p].model) \in Databases
    BY <2>1, BlankType, InitSchemaType
  <2>3. Reclaimed \in [Inodes -> Databases]
    BY <1>2, ReclaimedType DEF TypeOK
  <2> QED BY <1>1, <2>2, <2>3
<1>8. TypeOK'
  BY <1>1, <1>2, <1>3, <1>4, <1>7 DEF TypeOK
<1>9. (InHand(p) /\ LockOK(p) /\ TempOK(p))'
  <2>1. InHand(p)'
    BY <1>2, <1>4, <1>6 DEF InHand
  <2>2. LockOK(p)'
    BY <1>2, <1>4, <1>6 DEF LockOK, Working
  <2>3. TempOK(p)'
    BY <1>1, <1>2, <1>4, <1>5, <1>6 DEF TempOK
  <2> QED BY <2>1, <2>2, <2>3
<1>10. \A q \in Procs : ~Rebuilding(q)
  BY <1>2 DEF IndInv, LockOK
<1> QED BY <1>2, <1>6, <1>8, <1>9, <1>10, SlotStep DEF Same

\* The rename takes the temp database's name; the guard may refuse it.
LEMMA SwapInv ==
    ASSUME IndInv, NEW p \in Procs, Swap(p)
    PROVE  IndInv'
<1> USE ConstantsAssumption
<1>1. /\ run[p].phase = "walk" /\ Rebuilding(p) /\ run[p] \in Runs /\ InHand(p) /\ LockOK(p)
      /\ TypeOK /\ UNCHANGED <<disk, report, edits, faults>>
  BY DEF Swap, IndInv, TypeOK
<1>2. CASE UNCHANGED live /\ Abort(p)
  BY <1>1, <1>2, AbortInv DEF TypeOK
<1>3. CASE /\ live' = run[p].tmp
           /\ temps' = temps \ {run[p].tmp}
           /\ run' = [run EXCEPT ![p].phase = "report", ![p].att = run[p].tmp, ![p].tmp = None]
           /\ db' = Reclaimed
           /\ UNCHANGED lock
  <2> DEFINE r == [run[p] EXCEPT !.phase = "report", !.att = run[p].tmp, !.tmp = None]
  <2>1. run' = [run EXCEPT ![p] = r] /\ run[p].tmp \in Inodes
    BY <1>1, <1>3 DEF TypeOK, Rebuilding, Runs
  <2>2. /\ r \in Runs /\ r.phase = "report" /\ r.kind = run[p].kind /\ r.model = run[p].model
        /\ r.att = run[p].tmp /\ r.tmp = None
    BY <1>1, <2>1 DEF Runs, Phases
  <2> HIDE DEF r
  <2>3. run'[p] = r /\ \A q \in Procs \ {p} : run'[q] = run[q]
    BY <1>1, <2>1 DEF TypeOK
  <2>4. db' \in [Inodes -> Databases]
    BY <1>1, <1>3, ReclaimedType DEF TypeOK
  <2>5. TypeOK'
    <3>1. live' \in Inodes /\ temps' \in SUBSET Inodes /\ lock' = lock
      BY <1>1, <1>3, <2>1 DEF TypeOK
    <3>2. run' \in [Procs -> Runs]
      BY <1>1, <2>1, <2>2 DEF TypeOK
    <3> QED BY <1>1, <2>4, <3>1, <3>2 DEF TypeOK
  <2>6. lock = p /\ lock' = p
    BY <1>1, <1>3 DEF LockOK
  <2>7. (InHand(p) /\ LockOK(p) /\ TempOK(p))'
    BY <1>1, <2>1, <2>2, <2>3, <2>6 DEF InHand, LockOK, TempOK, Rebuilding, Working
  <2>8. \A q \in Procs \ {p} : ~Rebuilding(q)
    BY <2>6 DEF IndInv, LockOK
  <2> QED BY <2>3, <2>5, <2>6, <2>7, <2>8, SlotStep DEF Same
<1> QED BY <1>2, <1>3 DEF Swap

-----------------------------------------------------------------------------
(* The theorems *)

\* Every initial state is well typed and no command is running.
LEMMA InitInv == Init => IndInv
<1> SUFFICES ASSUME Init PROVE IndInv
  OBVIOUS
<1> USE ConstantsAssumption
<1>1. PICK s \in InitSchemas, m \in Models, stamp \in Models \union {None} :
        db = [[i \in Inodes |-> Blank] EXCEPT
                ![live] = IF s = "none" THEN Blank ELSE Built(disk, s, stamp, m)]
  BY DEF Init
<1>2. Built(disk, s, stamp, m) \in Databases
  <2> DEFINE rows == [f \in Files |->
                        IF f \notin Outside /\ disk[f] \in Valid
                        THEN [hash |-> disk[f], text |-> disk[f], model |-> m]
                        ELSE None]
  <2>1. rows \in Rows
    BY DEF Rows, Valid
  <2> HIDE DEF rows
  <2>2. [schema |-> s, stamp |-> stamp, rows |-> rows] \in Databases
    BY <2>1 DEF Databases
  <2> QED BY <2>2 DEF Built, rows
<1>3. db \in [Inodes -> Databases]
  BY <1>1, <1>2, BlankType
<1>4. /\ run \in [Procs -> Runs] /\ \A p \in Procs : run[p] = IdleRun
      /\ disk \in [Files -> Contents \union {Absent}] /\ live \in Inodes
      /\ temps = {} /\ lock = None /\ edits = 0 /\ faults = 0
      /\ report = [listed |-> {}, uncovered |-> {}]
  BY IdleRunType DEF Init
<1>5. TypeOK
  BY <1>3, <1>4 DEF TypeOK
<1>6. ASSUME NEW p \in Procs
      PROVE  InHand(p) /\ LockOK(p) /\ TempOK(p)
  <2>1. run[p].phase = "idle" /\ run[p].kind = None /\ run[p].tmp = None
    BY <1>4 DEF IdleRun
  <2> QED BY <2>1 DEF InHand, LockOK, TempOK, Rebuilding, Working
<1> QED BY <1>5, <1>6 DEF IndInv

\* Every step of Next keeps the invariant.
LEMMA NextInv == IndInv /\ [Next]_vars => IndInv'
<1> SUFFICES ASSUME IndInv, [Next]_vars PROVE IndInv'
  OBVIOUS
<1>1. ASSUME NEW p \in Procs, Start(p)
      PROVE  IndInv'
  <2>1. PICK m \in Models :
          \/ OpenForUpdate(p, m) \/ OpenForRebuild(p, m) \/ OpenForSearch(p, m)
          \/ \E f \in Files \ Outside : OpenForCapture(p, m, f)
          \/ \E f \in Files, c \in Contents : RewriteFrontmatter(p, m, f, c)
    BY <1>1 DEF Start
  <2> QED BY <2>1, OpenForUpdateInv, OpenForRebuildInv, OpenForSearchInv,
             OpenForCaptureInv, RewriteFrontmatterInv
<1>2. ASSUME NEW p \in Procs, Step(p)
      PROVE  IndInv'
  <2>1. CASE RefuseCapture(p) \/ RefuseReindex(p) \/ Busy(p) \/ Answer(p)
    BY <2>1, LeaveInv
  <2>2. CASE \E c \in Valid : WriteCapture(p, c)
    BY <2>2, WriteCaptureInv
  <2>3. CASE OpenForReindex(p) \/ LockForUpdate(p) \/ UpdateUnlocked(p) \/ LockForRebuild(p)
    BY <2>3, OpenForReindexInv, LockForUpdateInv, UpdateUnlockedInv, LockForRebuildInv
  <2>4. CASE HashFile(p) \/ ParseFile(p) \/ CommitFile(p) \/ Sweep(p)
    BY <2>4, HashFileInv, ParseFileInv, CommitFileInv, SweepInv
  <2>5. CASE Swap(p) \/ WriteReport(p)
    BY <2>5, SwapInv, WriteReportInv
  <2> QED BY <1>2, <2>1, <2>2, <2>3, <2>4, <2>5 DEF Step
<1>3. ASSUME NEW p \in Procs, Fault(p)
      PROVE  IndInv'
  BY <1>3, FailEmbeddingInv, LeaveInv DEF Fault
<1>4. CASE \E f \in Files, c \in Contents \union {Absent} : Edit(f, c)
  BY <1>4, EditInv
<1>5. CASE UNCHANGED vars
  BY <1>5 DEF vars, IndInv, TypeOK, InHand, LockOK, TempOK, Rebuilding, Open
<1> QED BY <1>1, <1>2, <1>3, <1>4, <1>5 DEF Next

\* What the lock and the phases guarantee holds in every reachable state.
THEOREM Invariance == Spec => []IndInv
BY InitInv, NextInv, PTL DEF Spec

\* Type correctness of the curated index, its commands and its files.
THEOREM TypeCorrect == Spec => []TypeOK
<1>1. IndInv => TypeOK
  BY DEF IndInv
<1> QED BY <1>1, Invariance, PTL

\* A rebuild's temp database is its own: no other command unlinks it, opens it
\* or has it swapped in, however many commands run and are killed
\* (Indexer.rebuild under index_write_lock).
THEOREM TempSafety == Spec => []TempIsMine
<1>1. IndInv => TempIsMine
  <2> SUFFICES ASSUME IndInv, NEW p \in Procs, Rebuilding(p)
               PROVE  /\ temps = {run[p].tmp}
                      /\ live # run[p].tmp
                      /\ \A q \in Procs : /\ run[q].att # run[p].tmp
                                          /\ run[q].tmp = run[p].tmp => q = p
    BY DEF TempIsMine
  <2>1. TempOK(p) /\ \A q \in Procs : Rebuilding(q) => lock = q
    BY DEF IndInv, LockOK
  <2> QED BY <2>1 DEF TempOK, Rebuilding
<1> QED BY <1>1, Invariance, PTL

-----------------------------------------------------------------------------
(* The recorded model identity: theorems for the commands that open the     *)
(* store with their configured model, index rebuild, index update and       *)
(* search.  (A capture or a confirm breaks them; the run                    *)
(* index_identity_drift shows how.)  The invariant: in any database, live,  *)
(* unlinked or half built, the stamp names the model of every row, and the  *)
(* database that a command works on once it is past its guards bears its    *)
(* own model.                                                               *)

\* Only an index of an old schema may hold vectors of an unrecorded model.
Named(d) ==
    /\ d.schema = "current" => d.stamp \in Models
    /\ \A f \in Files : d.rows[f] # None =>
         /\ d.schema # "none"
         /\ \/ d.rows[f].model = d.stamp
            \/ d.schema = "old" /\ d.stamp = None

\* Past the schema and identity guards.
Guarded(p) ==
    \/ run[p].phase \in Working \union {"query"}
    \/ run[p].phase = "open" /\ run[p].kind = "update"

BearsModel(d, m) == d.schema = "current" /\ d.stamp = m

Identified ==
    /\ \A i \in Inodes : Named(db[i])
    /\ \A p \in Procs : Guarded(p) => BearsModel(db[Target(p)], run[p].model)

IdInv == IndInv /\ Identified

-----------------------------------------------------------------------------
(* What the operators on a database keep *)

\* A new or freed database names no model and holds no row.
LEMMA BlankNamed == Named(Blank)
BY DEF Named, Blank

\* init_schema stamps only what has no tables, and so no rows ...
LEMMA InitSchemaNamed ==
    ASSUME NEW d \in Databases, NEW m \in Models, Named(d)
    PROVE  /\ Named(InitSchema(d, m))
           /\ InitSchema(d, m).schema \in {"old", "current"}
           /\ \A n : BearsModel(d, n) => BearsModel(InitSchema(d, m), n)
<1>1. CASE d.schema = "none"
  BY <1>1 DEF Named, InitSchema, BearsModel, Databases
<1>2. CASE d.schema # "none"
  BY <1>2 DEF Named, InitSchema, BearsModel, Databases
<1> QED BY <1>1, <1>2

\* ... a commit restamps, under the model that the database bears already ...
LEMMA ReplaceNamed ==
    ASSUME NEW d \in Databases, NEW f \in Files, NEW m \in Models, NEW h, NEW t,
           Named(d), BearsModel(d, m)
    PROVE  LET e == ReplaceFileAndChunks(d, f, [hash |-> h, text |-> t, model |-> m], m)
           IN  Named(e) /\ \A n : BearsModel(d, n) => BearsModel(e, n)
<1> DEFINE row == [hash |-> h, text |-> t, model |-> m]
           e == ReplaceFileAndChunks(d, f, row, m)
<1> USE ConstantsAssumption
<1>1. m # None /\ row.model = m
  OBVIOUS
<1> HIDE DEF row
<1>2. /\ e.schema = d.schema /\ e.stamp = m
      /\ \A g \in Files : e.rows[g] = IF g = f THEN row ELSE d.rows[g]
  BY <1>1 DEF ReplaceFileAndChunks, Databases, Rows
<1>3. d.schema = "current" /\ d.stamp = m
  BY DEF BearsModel
<1> HIDE DEF e
<1>4. Named(e)
  BY <1>1, <1>2, <1>3 DEF Named
<1>5. \A n : BearsModel(d, n) => BearsModel(e, n)
  BY <1>2, <1>3 DEF BearsModel
<1> QED BY <1>4, <1>5 DEF e, row

\* ... and a deletion only takes a row away.
LEMMA DeleteNamed ==
    ASSUME NEW d \in Databases, NEW f \in Files, Named(d)
    PROVE  /\ Named(DeleteFile(d, f))
           /\ \A n : BearsModel(d, n) => BearsModel(DeleteFile(d, f), n)
<1>1. /\ DeleteFile(d, f).schema = d.schema /\ DeleteFile(d, f).stamp = d.stamp
      /\ \A g \in Files : DeleteFile(d, f).rows[g] = IF g = f THEN None ELSE d.rows[g]
  BY DEF DeleteFile, Databases, Rows
<1>2. Named(DeleteFile(d, f))
  BY <1>1 DEF Named
<1> QED BY <1>1, <1>2 DEF BearsModel

\* The guard of update, and of a search that needs no healing, on a database
\* with tables.
LEMMA GuardsBear ==
    ASSUME NEW d \in Databases, NEW m \in Models, Named(d), d.schema \in {"old", "current"},
           ~NeedsSchemaMigration(d), CheckModelIdentity(d, m)
    PROVE  BearsModel(d, m)
BY ConstantsAssumption DEF Named, NeedsSchemaMigration, CheckModelIdentity, BearsModel

-----------------------------------------------------------------------------
(* The invariant is preserved by a step of one slot *)

\* A step keeps the identity if it keeps every database named and none that
\* another command works on changes its model.
LEMMA IdentityStep ==
    ASSUME IdInv, NEW p \in Procs,
           \A q \in Procs \ {p} : Same(q, run),
           \A i \in Inodes : Named(db'[i]),
           \A q \in Procs \ {p} : Guarded(q) =>
               (BearsModel(db[Target(q)], run[q].model) => BearsModel(db'[Target(q)], run[q].model)),
           (Guarded(p) => BearsModel(db[Target(p)], run[p].model))'
    PROVE  Identified'
<1>1. ASSUME NEW q \in Procs \ {p}, Guarded(q)'
      PROVE  BearsModel(db[Target(q)], run[q].model)'
  <2>1. Guarded(q) /\ Target(q)' = Target(q) /\ run'[q].model = run[q].model
    BY <1>1 DEF Guarded, Same, Target, Rebuilding
  <2>2. BearsModel(db'[Target(q)], run[q].model)
    BY <2>1 DEF IdInv, Identified
  <2> QED BY <2>1, <2>2 DEF BearsModel
<1> QED BY <1>1 DEF Identified

\* Freeing the closed databases disturbs no command.
LEMMA ReclaimedNamed ==
    ASSUME IdInv, NEW p \in Procs, \A q \in Procs \ {p} : Same(q, run), db' = Reclaimed
    PROVE  /\ \A i \in Inodes : Named(db'[i])
           /\ \A q \in Procs \ {p} : Guarded(q) => db'[Target(q)] = db[Target(q)]
<1>1. \A i \in Inodes : db'[i] = db[i] \/ db'[i] = Blank
  BY DEF Reclaimed
<1>2. \A i \in Inodes : Named(db'[i])
  BY <1>1, BlankNamed DEF IdInv, Identified
<1>3. ASSUME NEW q \in Procs \ {p}, Guarded(q)
      PROVE  db'[Target(q)] = db[Target(q)]
  <2>1. PICK i \in Inodes : i = Target(q)
    BY <1>3 DEF IdInv, IndInv, TypeOK, Runs, InHand, Target, Rebuilding, Guarded, Working
  <2>2. Open(i)'
    BY <2>1, <1>3 DEF Open, Target, Rebuilding, Same
  <2>3. Reclaimed[i] = db[i]
    BY <2>2 DEF Reclaimed
  <2> QED BY <2>1, <2>3
<1> QED BY <1>2, <1>3

-----------------------------------------------------------------------------
(* One lemma per action *)

\* A step that changes one slot leaves the others as they are.
LEMMA OthersSame ==
    ASSUME IdInv, NEW p \in Procs, NEW r, run' = [run EXCEPT ![p] = r]
    PROVE  run'[p] = r /\ \A q \in Procs \ {p} : Same(q, run)
BY DEF IdInv, IndInv, TypeOK, Same

\* A command that ends.
LEMMA ExitIdentity ==
    ASSUME IdInv, NEW p \in Procs, Exit(p), db' = Reclaimed
    PROVE  Identified'
<1>1. run'[p] = IdleRun /\ \A q \in Procs \ {p} : Same(q, run)
  BY OthersSame DEF Exit
<1>2. ~(Guarded(p)')
  BY <1>1 DEF Guarded, IdleRun, Working
<1> QED BY <1>1, <1>2, ReclaimedNamed, IdentityStep

\* The guards of update see the database that it will write.
LEMMA OpenForUpdateIdentity ==
    ASSUME IdInv, NEW p \in Procs, NEW m \in Models, OpenForUpdate(p, m)
    PROVE  Identified'
<1> DEFINE d == InitSchema(db[live], m)
<1>1. /\ live \in Inodes /\ db[live] \in Databases /\ Named(db[live])
      /\ db \in [Inodes -> Databases]
  BY DEF IdInv, IndInv, TypeOK, Identified
<1>2. /\ Named(d) /\ d.schema \in {"old", "current"}
      /\ \A n : BearsModel(db[live], n) => BearsModel(d, n)
  BY <1>1, InitSchemaNamed
<1>3. d \in Databases
  BY <1>1, InitSchemaType
<1>4. /\ ~NeedsSchemaMigration(d) /\ CheckModelIdentity(d, m)
      /\ db' = [db EXCEPT ![live] = d] /\ UNCHANGED live
      /\ run' = [run EXCEPT ![p] = Connected("update", m, "open")]
  BY DEF OpenForUpdate
<1> HIDE DEF d
<1>5. BearsModel(d, m)
  BY <1>2, <1>3, <1>4, GuardsBear
<1>6. run'[p] = Connected("update", m, "open") /\ \A q \in Procs \ {p} : Same(q, run)
  BY <1>4, OthersSame
<1>7. run'[p].model = m /\ run'[p].att = live /\ run'[p].tmp = None
  BY <1>6, ConnectedFields
<1>8. (Guarded(p) => BearsModel(db[Target(p)], run[p].model))'
  BY <1>1, <1>4, <1>5, <1>7 DEF Target, Rebuilding
<1>9. \A i \in Inodes : Named(db'[i])
  BY <1>1, <1>2, <1>4 DEF IdInv, Identified
<1>10. ASSUME NEW q \in Procs \ {p}, Guarded(q), BearsModel(db[Target(q)], run[q].model)
       PROVE  BearsModel(db'[Target(q)], run[q].model)
  BY <1>1, <1>2, <1>4, <1>10
<1> QED BY <1>6, <1>8, <1>9, <1>10, IdentityStep

\* So do those of search; an index of an old schema is healed before its query.
LEMMA OpenForSearchIdentity ==
    ASSUME IdInv, NEW p \in Procs, NEW m \in Models, OpenForSearch(p, m)
    PROVE  Identified'
<1> DEFINE d == InitSchema(db[live], m)
           ph == IF NeedsSchemaMigration(d) THEN "open" ELSE "query"
<1>1. /\ live \in Inodes /\ db[live] \in Databases /\ Named(db[live])
      /\ db \in [Inodes -> Databases]
  BY DEF IdInv, IndInv, TypeOK, Identified
<1>2. /\ Named(d) /\ d.schema \in {"old", "current"}
      /\ \A n : BearsModel(db[live], n) => BearsModel(d, n)
  BY <1>1, InitSchemaNamed
<1>3. d \in Databases
  BY <1>1, InitSchemaType
<1>4. /\ CheckModelIdentity(d, m)
      /\ db' = [db EXCEPT ![live] = d] /\ UNCHANGED live
      /\ run' = [run EXCEPT ![p] = Connected("search", m, ph)]
  BY DEF OpenForSearch
<1> HIDE DEF d
<1>5. ph = "open" \/ (ph = "query" /\ BearsModel(d, m))
  BY <1>2, <1>3, <1>4, GuardsBear
<1> HIDE DEF ph
<1>6. run'[p] = Connected("search", m, ph) /\ \A q \in Procs \ {p} : Same(q, run)
  BY <1>4, OthersSame
<1>7. /\ run'[p].phase = ph /\ run'[p].kind = "search" /\ run'[p].model = m
      /\ run'[p].att = live /\ run'[p].tmp = None
  BY <1>6, ConnectedFields
<1>8. (Guarded(p) => BearsModel(db[Target(p)], run[p].model))'
  BY <1>1, <1>4, <1>5, <1>7 DEF Target, Rebuilding, Guarded, Working
<1>9. \A i \in Inodes : Named(db'[i])
  BY <1>1, <1>2, <1>4 DEF IdInv, Identified
<1>10. ASSUME NEW q \in Procs \ {p}, Guarded(q), BearsModel(db[Target(q)], run[q].model)
       PROVE  BearsModel(db'[Target(q)], run[q].model)
  BY <1>1, <1>2, <1>4, <1>10
<1> QED BY <1>6, <1>8, <1>9, <1>10, IdentityStep

\* A step that changes no database, and slot p only in what it has in hand.
LEMMA QuietIdentity ==
    ASSUME IdInv, NEW p \in Procs, UNCHANGED db,
           \A q \in Procs \ {p} : Same(q, run),
           Guarded(p)' => Guarded(p) /\ Target(p)' = Target(p) /\ run'[p].model = run[p].model
    PROVE  Identified'
<1>1. (Guarded(p) => BearsModel(db[Target(p)], run[p].model))'
  BY DEF IdInv, Identified, BearsModel
<1>2. \A i \in Inodes : Named(db'[i])
  BY DEF IdInv, Identified
<1> QED BY <1>1, <1>2, IdentityStep

\* A rebuild that starts has not opened a database to write to yet.
LEMMA OpenForRebuildIdentity ==
    ASSUME IdInv, NEW p \in Procs, NEW m \in Models, OpenForRebuild(p, m)
    PROVE  Identified'
<1>1. UNCHANGED db /\ run' = [run EXCEPT ![p] = Connected("rebuild", m, "waiting")]
  BY DEF OpenForRebuild
<1>2. run'[p] = Connected("rebuild", m, "waiting") /\ \A q \in Procs \ {p} : Same(q, run)
  BY <1>1, OthersSame
<1>3. ~(Guarded(p)')
  BY <1>2, ConnectedFields DEF Guarded, Working
<1> QED BY <1>1, <1>2, <1>3, QuietIdentity

\* The store an update walks is the one its guards accepted.
LEMMA LockForUpdateIdentity ==
    ASSUME IdInv, NEW p \in Procs, LockForUpdate(p)
    PROVE  Identified'
<1>1. UNCHANGED db /\ BeginWalk(p) /\ run[p].phase = "open" /\ run[p].kind = "update"
  BY DEF LockForUpdate
<1>2. IndInv /\ run[p].att \in Inodes
  BY <1>1 DEF IdInv, IndInv, InHand
<1>3. PICK r \in Runs : /\ run' = [run EXCEPT ![p] = r]
                        /\ r.phase = "walk" /\ r.kind = run[p].kind /\ r.model = run[p].model
                        /\ r.att = run[p].att /\ r.tmp = run[p].tmp
  BY <1>1, <1>2, BeginWalkType
<1>4. run'[p] = r /\ \A q \in Procs \ {p} : Same(q, run)
  BY <1>3, OthersSame
<1>5. Guarded(p) /\ Target(p)' = Target(p) /\ run'[p].model = run[p].model
  BY <1>1, <1>3, <1>4 DEF Guarded, Target, Rebuilding
<1> QED BY <1>1, <1>4, <1>5, QuietIdentity

\* A memory file changes; no slot goes further than it was.
LEMMA EditIdentity ==
    ASSUME IdInv, NEW f \in Files, NEW c \in Contents \union {Absent}, Edit(f, c)
    PROVE  Identified'
<1>1. \A q \in Procs : Same(q, run)
  BY DEF Edit, Touch, Same, IdInv, IndInv, TypeOK, Runs
<1>2. UNCHANGED db
  BY DEF Edit
<1>3. ASSUME NEW q \in Procs, Guarded(q)'
      PROVE  BearsModel(db[Target(q)], run[q].model)'
  <2>1. Guarded(q) /\ Target(q)' = Target(q) /\ run'[q].model = run[q].model
    BY <1>1, <1>3 DEF Guarded, Same, Target, Rebuilding
  <2> QED BY <1>2, <2>1 DEF IdInv, Identified, BearsModel
<1> QED BY <1>2, <1>3 DEF IdInv, Identified

\* A write to one database that keeps it named and its model.
LEMMA WriteIdentity ==
    ASSUME IdInv, NEW p \in Procs, NEW i \in Inodes, NEW e,
           db' = [db EXCEPT ![i] = e], Named(e),
           \A n : BearsModel(db[i], n) => BearsModel(e, n),
           \A q \in Procs \ {p} : Same(q, run),
           Guarded(p)' => Guarded(p) /\ Target(p)' = Target(p) /\ run'[p].model = run[p].model
    PROVE  Identified'
<1>1. db \in [Inodes -> Databases] /\ \A j \in Inodes : Named(db[j])
  BY DEF IdInv, IndInv, TypeOK, Identified
<1>2. \A j \in Inodes : Named(db'[j])
  BY <1>1
<1>3. ASSUME NEW q \in Procs, Guarded(q), BearsModel(db[Target(q)], run[q].model)
      PROVE  BearsModel(db'[Target(q)], run[q].model)
  <2>1. Target(q) \in Inodes
    BY <1>3 DEF IdInv, IndInv, TypeOK, Runs, InHand, Target, Rebuilding, Guarded, Working
  <2>2. db'[Target(q)] = IF Target(q) = i THEN e ELSE db[Target(q)]
    BY <1>1, <2>1
  <2> QED BY <1>3, <2>2
<1>4. (Guarded(p) => BearsModel(db[Target(p)], run[p].model))'
  <2> SUFFICES ASSUME Guarded(p)'
               PROVE  BearsModel(db'[Target(p)], run[p].model)
    BY DEF BearsModel
  <2>1. BearsModel(db[Target(p)], run[p].model)
    BY DEF IdInv, Identified
  <2> QED BY <1>3, <2>1
<1> QED BY <1>2, <1>3, <1>4, IdentityStep

\* Hashing a file changes no database, or aborts.
LEMMA HashFileIdentity ==
    ASSUME IdInv, NEW p \in Procs, HashFile(p)
    PROVE  Identified'
<1>1. run[p].phase = "walk" /\ run \in [Procs -> Runs]
  BY DEF HashFile, IdInv, IndInv, TypeOK
<1>2. PICK f \in run[p].todo :
         \/ Abort(p)
         \/ run' = [run EXCEPT ![p].todo = @ \ {f}] /\ UNCHANGED db
         \/ run' = [run EXCEPT ![p].phase = "parse", ![p].file = f, ![p].hash = disk[f]]
            /\ UNCHANGED db
  BY DEF HashFile
<1>3. CASE Abort(p)
  BY <1>3, ExitIdentity DEF Abort
<1>4. CASE ~Abort(p)
  <2>1. /\ UNCHANGED db /\ \A q \in Procs \ {p} : run'[q] = run[q]
        /\ run'[p].att = run[p].att /\ run'[p].tmp = run[p].tmp /\ run'[p].model = run[p].model
    BY <1>1, <1>2, <1>4 DEF Runs
  <2>2. Guarded(p) /\ Target(p)' = Target(p)
    BY <1>1, <2>1 DEF Guarded, Working, Target, Rebuilding
  <2> QED BY <2>1, <2>2, QuietIdentity DEF Same
<1> QED BY <1>3, <1>4

\* Parsing a file deletes its row at most, or aborts.
LEMMA ParseFileIdentity ==
    ASSUME IdInv, NEW p \in Procs, ParseFile(p)
    PROVE  Identified'
<1> DEFINE f == run[p].file
<1>1. /\ run[p].phase = "parse" /\ run[p] \in Runs /\ run \in [Procs -> Runs]
      /\ db \in [Inodes -> Databases] /\ f \in Files /\ run[p].att \in Inodes
  BY DEF ParseFile, IdInv, IndInv, TypeOK, InHand
<1>2. CASE Abort(p)
  BY <1>2, ExitIdentity DEF Abort
<1>3. CASE run' = [run EXCEPT ![p] = FileDone(p)]
           /\ (UNCHANGED db \/ db' = [db EXCEPT ![run[p].att] = DeleteFile(@, f)])
  <2>1. run'[p] = FileDone(p) /\ \A q \in Procs \ {p} : Same(q, run)
    BY <1>3, OthersSame
  <2>2. Guarded(p) /\ Target(p)' = Target(p) /\ run'[p].model = run[p].model
    BY <1>1, <2>1 DEF Guarded, Working, Target, Rebuilding, FileDone, Runs
  <2>3. CASE UNCHANGED db
    BY <2>1, <2>2, <2>3, QuietIdentity
  <2>4. CASE db' = [db EXCEPT ![run[p].att] = DeleteFile(@, f)]
    <3> DEFINE e == DeleteFile(db[run[p].att], f)
    <3>1. Named(e) /\ \A n : BearsModel(db[run[p].att], n) => BearsModel(e, n)
      BY <1>1, DeleteNamed DEF IdInv, Identified
    <3>2. db' = [db EXCEPT ![run[p].att] = e]
      BY <2>4
    <3> HIDE DEF e
    <3> QED BY <1>1, <2>1, <2>2, <3>1, <3>2, WriteIdentity
  <2> QED BY <1>3, <2>3, <2>4
<1>4. CASE run' = [run EXCEPT ![p].phase = "commit", ![p].text = disk[f]] /\ UNCHANGED db
  <2>1. /\ \A q \in Procs \ {p} : run'[q] = run[q]
        /\ run'[p].att = run[p].att /\ run'[p].tmp = run[p].tmp /\ run'[p].model = run[p].model
    BY <1>1, <1>4 DEF Runs
  <2>2. Guarded(p) /\ Target(p)' = Target(p)
    BY <1>1, <2>1 DEF Guarded, Working, Target, Rebuilding
  <2> QED BY <1>4, <2>1, <2>2, QuietIdentity DEF Same
<1> QED BY <1>2, <1>3, <1>4 DEF ParseFile

\* The row that a command commits is of the model that its target bears.
LEMMA CommitFileIdentity ==
    ASSUME Kinds \subseteq Locking, IdInv, NEW p \in Procs, CommitFile(p)
    PROVE  Identified'
<1> DEFINE row == [hash |-> run[p].hash, text |-> run[p].text, model |-> run[p].model]
           e == ReplaceFileAndChunks(db[Target(p)], run[p].file, row, run[p].model)
<1>1. /\ run[p].phase = "commit" /\ run[p] \in Runs /\ run[p].file \in Files
      /\ run[p].kind \in Locking /\ run[p].model \in Models
  BY DEF CommitFile, IdInv, IndInv, TypeOK, InHand
<1>2. Guarded(p) /\ Stamp(p) = run[p].model
  BY <1>1 DEF Guarded, Working, Stamp, Locking
<1>3. PICK i \in Inodes : i = Target(p)
  BY <1>1 DEF IdInv, IndInv, TypeOK, InHand, Target, Rebuilding, Runs
<1>4. db[i] \in Databases /\ Named(db[i]) /\ BearsModel(db[i], run[p].model)
  BY <1>2, <1>3 DEF IdInv, IndInv, TypeOK, Identified
<1>5. Named(e) /\ \A n : BearsModel(db[i], n) => BearsModel(e, n)
  BY <1>1, <1>3, <1>4, ReplaceNamed
<1>6. db' = [db EXCEPT ![i] = e] /\ run' = [run EXCEPT ![p] = FileDone(p)]
  BY <1>2, <1>3 DEF CommitFile
<1>7. \A q \in Procs \ {p} : Same(q, run)
  BY <1>6, OthersSame
<1>8. run'[p] = FileDone(p)
  BY <1>6, OthersSame
<1>9. Target(p)' = Target(p) /\ run'[p].model = run[p].model
  BY <1>1, <1>8 DEF Target, Rebuilding, FileDone, Runs
<1> HIDE DEF e
<1> QED BY <1>2, <1>5, <1>6, <1>7, <1>9, WriteIdentity

\* The sweep deletes rows and leaves the stamp alone.
LEMMA SweepIdentity ==
    ASSUME IdInv, NEW p \in Procs, Sweep(p)
    PROVE  Identified'
<1>1. /\ run[p].phase = "walk" /\ run[p] \in Runs /\ run \in [Procs -> Runs]
      /\ db \in [Inodes -> Databases] /\ run[p].att \in Inodes
  BY DEF Sweep, IdInv, IndInv, TypeOK, InHand
<1>2. /\ \A q \in Procs \ {p} : run'[q] = run[q]
      /\ run'[p].att = run[p].att /\ run'[p].tmp = run[p].tmp /\ run'[p].model = run[p].model
  BY <1>1 DEF Sweep, Runs
<1>3. Guarded(p) /\ Target(p)' = Target(p)
  BY <1>1, <1>2 DEF Guarded, Working, Target, Rebuilding
<1>4. CASE UNCHANGED db
  BY <1>2, <1>3, <1>4, QuietIdentity DEF Same
<1>5. ASSUME NEW f \in run[p].gone, db' = [db EXCEPT ![run[p].att] = DeleteFile(@, f)]
      PROVE  Identified'
  <2> DEFINE e == DeleteFile(db[run[p].att], f)
  <2>1. f \in Files
    BY <1>1 DEF Runs
  <2>2. Named(e) /\ \A n : BearsModel(db[run[p].att], n) => BearsModel(e, n)
    BY <1>1, <2>1, DeleteNamed DEF IdInv, Identified
  <2>3. db' = [db EXCEPT ![run[p].att] = e]
    BY <1>5
  <2>4. \A q \in Procs \ {p} : Same(q, run)
    BY <1>2 DEF Same
  <2> HIDE DEF e
  <2> QED BY <1>1, <1>2, <1>3, <2>2, <2>3, <2>4, WriteIdentity
<1> QED BY <1>4, <1>5 DEF Sweep

\* A new temp database bears the model of its rebuild.
LEMMA LockForRebuildIdentity ==
    ASSUME IdInv, NEW p \in Procs, LockForRebuild(p)
    PROVE  Identified'
<1>1. PICK tmp \in Inodes :
         /\ ~Open(tmp)
         /\ run' = [run EXCEPT ![p] = [@ EXCEPT !.phase = "walk", !.tmp = tmp,
                                              !.todo = Listed, !.quiet = Files]]
         /\ db' = [Reclaimed EXCEPT ![tmp] = InitSchema(Blank, run[p].model)]
  BY DEF LockForRebuild
<1>2. run[p] \in Runs /\ run \in [Procs -> Runs] /\ run[p].model \in Models
  BY DEF LockForRebuild, IdInv, IndInv, TypeOK, InHand
<1>3. \A q \in Procs \ {p} : Same(q, run)
  BY <1>1, <1>2 DEF Same
<1>4. run'[p].phase = "walk" /\ run'[p].tmp = tmp /\ run'[p].model = run[p].model
  BY <1>1, <1>2 DEF Runs
<1> DEFINE new == InitSchema(Blank, run[p].model)
<1>5. Named(new) /\ BearsModel(new, run[p].model)
  BY <1>2, BlankType, BlankNamed, InitSchemaNamed DEF InitSchema, Blank, BearsModel
<1> HIDE DEF new
<1>6. \A i \in Inodes : db'[i] = new \/ db'[i] = db[i] \/ db'[i] = Blank
  BY <1>1 DEF Reclaimed, new
<1>7. \A i \in Inodes : Named(db'[i])
  BY <1>5, <1>6, BlankNamed DEF IdInv, Identified
<1>8. ASSUME NEW q \in Procs \ {p}, Guarded(q)
      PROVE  db'[Target(q)] = db[Target(q)]
  <2>1. PICK i \in Inodes : i = Target(q)
    BY <1>8 DEF IdInv, IndInv, TypeOK, Runs, InHand, Target, Rebuilding, Guarded, Working
  <2>2. i # tmp
    BY <1>1, <2>1 DEF Open, Target
  <2>3. Open(i)'
    BY <1>3, <2>1, <1>8 DEF Open, Target, Rebuilding, Same
  <2>4. Reclaimed[i] = db[i]
    BY <2>3 DEF Reclaimed
  <2>5. db'[i] = Reclaimed[i]
    BY <1>1, <2>2 DEF Reclaimed
  <2> QED BY <2>1, <2>4, <2>5
<1>9. (Guarded(p) => BearsModel(db[Target(p)], run[p].model))'
  <2>1. tmp # None
    BY ConstantsAssumption
  <2>2. Target(p)' = tmp
    BY <1>4, <2>1 DEF Target, Rebuilding
  <2>3. db'[tmp] = new
    BY <1>1 DEF Reclaimed, new
  <2> QED BY <1>4, <1>5, <2>2, <2>3 DEF BearsModel
<1> QED BY <1>3, <1>7, <1>8, <1>9, IdentityStep

\* The swapped database becomes the connection.
LEMMA SwapIdentity ==
    ASSUME IdInv, NEW p \in Procs, Swap(p)
    PROVE  Identified'
<1>1. /\ run[p].phase = "walk" /\ Rebuilding(p) /\ run[p] \in Runs /\ run \in [Procs -> Runs]
  BY DEF Swap, IdInv, IndInv, TypeOK
<1>2. CASE Abort(p)
  BY <1>2, ExitIdentity DEF Abort
<1>3. CASE /\ run' = [run EXCEPT ![p].phase = "report", ![p].att = run[p].tmp, ![p].tmp = None]
           /\ db' = Reclaimed
  <2>1. /\ \A q \in Procs \ {p} : run'[q] = run[q]
        /\ run'[p].att = run[p].tmp /\ run'[p].tmp = None /\ run'[p].model = run[p].model
    BY <1>1, <1>3 DEF Runs
  <2>2. PICK i \in Inodes : i = run[p].tmp
    BY <1>1 DEF Rebuilding, Runs
  <2>3. Target(p) = i /\ Target(p)' = i
    BY <1>1, <2>1, <2>2 DEF Target, Rebuilding
  <2>4. BearsModel(db[i], run[p].model)
    BY <1>1, <2>3 DEF IdInv, Identified, Guarded, Working
  <2>5. Open(i)'
    BY <2>1, <2>2 DEF Open
  <2>6. db'[i] = db[i]
    BY <1>3, <2>5 DEF Reclaimed
  <2>7. (Guarded(p) => BearsModel(db[Target(p)], run[p].model))'
    BY <2>1, <2>3, <2>4, <2>6 DEF BearsModel
  <2>8. \A q \in Procs \ {p} : Same(q, run)
    BY <2>1 DEF Same
  <2> QED BY <1>3, <2>7, <2>8, ReclaimedNamed, IdentityStep
<1> QED BY <1>2, <1>3 DEF Swap

\* After the report a search queries the index it healed.
LEMMA WriteReportIdentity ==
    ASSUME IdInv, NEW p \in Procs, WriteReport(p)
    PROVE  Identified'
<1>1. /\ run[p].phase = "report" /\ run[p] \in Runs /\ run \in [Procs -> Runs]
      /\ db' = Reclaimed /\ ~Rebuilding(p) /\ run[p].att \in Inodes
  BY DEF WriteReport, IdInv, IndInv, TypeOK, InHand, LockOK
<1>2. CASE Exit(p)
  BY <1>1, <1>2, ExitIdentity
<1>3. CASE run' = [run EXCEPT ![p].phase = "query", ![p].quiet = {}]
  <2>1. /\ \A q \in Procs \ {p} : run'[q] = run[q]
        /\ run'[p].att = run[p].att /\ run'[p].tmp = run[p].tmp /\ run'[p].model = run[p].model
    BY <1>1, <1>3 DEF Runs
  <2>2. PICK i \in Inodes : i = run[p].att
    BY <1>1
  <2>3. Target(p) = i /\ Target(p)' = i
    BY <1>1, <2>1, <2>2 DEF Target, Rebuilding
  <2>4. BearsModel(db[i], run[p].model)
    BY <1>1, <2>3 DEF IdInv, Identified, Guarded, Working
  <2>5. Open(i)'
    BY <2>1, <2>2 DEF Open
  <2>6. db'[i] = db[i]
    BY <1>1, <2>5 DEF Reclaimed
  <2>7. (Guarded(p) => BearsModel(db[Target(p)], run[p].model))'
    BY <2>1, <2>3, <2>4, <2>6 DEF BearsModel
  <2>8. \A q \in Procs \ {p} : Same(q, run)
    BY <2>1 DEF Same
  <2> QED BY <1>1, <2>7, <2>8, ReclaimedNamed, IdentityStep
<1> QED BY <1>2, <1>3 DEF WriteReport

-----------------------------------------------------------------------------
(* The theorems *)

\* An index left by an earlier version names its model, or is too old to.
LEMMA InitIdentity == Init => Identified
<1> SUFFICES ASSUME Init PROVE Identified
  OBVIOUS
<1> USE ConstantsAssumption
<1>1. PICK s \in InitSchemas, m \in Models, stamp \in Models \union {None} :
        /\ stamp = m \/ (s = "old" /\ stamp = None)
        /\ db = [[i \in Inodes |-> Blank] EXCEPT
                   ![live] = IF s = "none" THEN Blank ELSE Built(disk, s, stamp, m)]
  BY DEF Init
<1>2. CASE s # "none"
  <2>1. s \in {"old", "current"}
    BY <1>2
  <2>2. Named(Built(disk, s, stamp, m))
    BY <1>1, <2>1 DEF Built, Named
  <2>3. \A i \in Inodes : db[i] = Blank \/ db[i] = Built(disk, s, stamp, m)
    BY <1>1
  <2> QED BY <2>2, <2>3, BlankNamed DEF Identified, Init, Guarded, IdleRun, Working
<1>3. CASE s = "none"
  <2>1. \A i \in Inodes : db[i] = Blank
    BY <1>1, <1>3
  <2> QED BY <2>1, BlankNamed DEF Identified, Init, Guarded, IdleRun, Working
<1> QED BY <1>2, <1>3

\* Every step of the commands that take the lock keeps the identity.
LEMMA NextIdentity ==
    ASSUME Kinds \subseteq Locking, IdInv, [Next]_vars
    PROVE  IdInv'
<1>1. IndInv'
  BY NextInv DEF IdInv
<1>2. ASSUME NEW p \in Procs
      PROVE  run[p].phase \notin {"draft", "rewritten", "edited"}
  BY <1>2 DEF IdInv, IndInv, InHand
<1>3. ASSUME NEW p \in Procs, Start(p)
      PROVE  Identified'
  <2>1. PICK m \in Models :
          \/ OpenForUpdate(p, m) \/ OpenForRebuild(p, m) \/ OpenForSearch(p, m)
          \/ \E f \in Files \ Outside : OpenForCapture(p, m, f)
          \/ \E f \in Files, c \in Contents : RewriteFrontmatter(p, m, f, c)
    BY <1>3 DEF Start
  <2>2. "capture" \notin Kinds /\ "confirm" \notin Kinds
    BY DEF Locking
  <2>3. OpenForUpdate(p, m) \/ OpenForRebuild(p, m) \/ OpenForSearch(p, m)
    BY <2>1, <2>2 DEF OpenForCapture, RewriteFrontmatter
  <2> QED BY <2>3, OpenForUpdateIdentity, OpenForRebuildIdentity, OpenForSearchIdentity
<1>4. ASSUME NEW p \in Procs, Step(p)
      PROVE  Identified'
  <2>1. \/ Busy(p) \/ LockForUpdate(p) \/ LockForRebuild(p) \/ HashFile(p) \/ ParseFile(p)
        \/ CommitFile(p) \/ Sweep(p) \/ Swap(p) \/ WriteReport(p) \/ Answer(p)
    BY <1>2, <1>4 DEF Step, RefuseCapture, WriteCapture, OpenForReindex, RefuseReindex,
                      UpdateUnlocked
  <2>2. CASE Busy(p) \/ Answer(p)
    BY <2>2, ExitIdentity DEF Busy, Answer
  <2>3. CASE LockForUpdate(p) \/ LockForRebuild(p) \/ HashFile(p) \/ ParseFile(p)
    BY <2>3, LockForUpdateIdentity, LockForRebuildIdentity, HashFileIdentity, ParseFileIdentity
  <2>4. CASE CommitFile(p) \/ Sweep(p) \/ Swap(p) \/ WriteReport(p)
    BY <2>4, CommitFileIdentity, SweepIdentity, SwapIdentity, WriteReportIdentity
  <2> QED BY <2>1, <2>2, <2>3, <2>4
<1>5. ASSUME NEW p \in Procs, Fault(p)
      PROVE  Identified'
  BY <1>5, ExitIdentity DEF Fault, FailEmbedding, Kill, Abort
<1>6. ASSUME NEW f \in Files, NEW c \in Contents \union {Absent}, Edit(f, c)
      PROVE  Identified'
  BY <1>6, EditIdentity
<1>7. ASSUME UNCHANGED vars
      PROVE  Identified'
  BY <1>7 DEF vars, IdInv, Identified, Guarded, Working, Target, Rebuilding, Named, BearsModel
<1>8. Identified'
  BY <1>3, <1>4, <1>5, <1>6, <1>7 DEF Next
<1> QED BY <1>1, <1>8 DEF IdInv

\* The stamps and the guarded connections are right in every reachable state.
THEOREM IdentityInvariance ==
    ASSUME Kinds \subseteq Locking
    PROVE  Spec => []IdInv
<1>1. Init => IdInv
  BY InitInv, InitIdentity DEF IdInv
<1>2. IdInv /\ [Next]_vars => IdInv'
  BY NextIdentity
<1> QED BY <1>1, <1>2, PTL DEF Spec

\* The recorded identity always names the model of the vectors on disk, as long
\* as only rebuild, update and search write the index (replace_file_and_chunks).
THEOREM StampSafety ==
    ASSUME Kinds \subseteq Locking
    PROVE  Spec => []StampNamesModel
<1>1. IdInv => StampNamesModel
  BY DEF IdInv, Identified, Named, StampNamesModel
<1> QED BY <1>1, IdentityInvariance, PTL

\* A search that passed its guard compares its query with vectors of its own
\* model, whatever other models rebuild, update or heal meanwhile
\* (check_model_identity).
THEOREM SearchSafety ==
    ASSUME Kinds \subseteq Locking
    PROVE  Spec => []SearchComparesLikeWithLike
<1>1. IdInv => SearchComparesLikeWithLike
  <2> SUFFICES ASSUME IdInv, NEW p \in Procs, run[p].phase = "query",
                      NEW f \in Files, db[run[p].att].rows[f] # None
               PROVE  db[run[p].att].rows[f].model = run[p].model
    BY DEF SearchComparesLikeWithLike
  <2>1. Guarded(p) /\ Target(p) = run[p].att /\ run[p].att \in Inodes
    BY DEF IdInv, IndInv, InHand, LockOK, Guarded, Working, Target
  <2>2. BearsModel(db[run[p].att], run[p].model) /\ Named(db[run[p].att])
    BY <2>1 DEF IdInv, Identified
  <2> QED BY <2>2 DEF BearsModel, Named
<1> QED BY <1>1, IdentityInvariance, PTL

\* Only a swap changes what the name index.db refers to.
LEMMA OnlySwapMovesLive ==
    ASSUME [Next]_vars, live' # live
    PROVE  \E p \in Procs : Swap(p)
<1>1. CASE UNCHANGED vars
  BY <1>1 DEF vars
<1>2. ASSUME NEW f \in Files, NEW c \in Contents \union {Absent}, Edit(f, c)
      PROVE  FALSE
  BY <1>2 DEF Edit
<1>3. ASSUME NEW p \in Procs, Start(p) \/ Fault(p)
      PROVE  FALSE
  BY <1>3 DEF Start, Fault, OpenForUpdate, OpenForRebuild, OpenForSearch, OpenForCapture,
              RewriteFrontmatter, FailEmbedding, Kill
<1>4. ASSUME NEW p \in Procs, Step(p)
      PROVE  Swap(p)
  BY <1>4 DEF Step, RefuseCapture, WriteCapture, OpenForReindex, RefuseReindex, Busy,
              LockForUpdate, UpdateUnlocked, LockForRebuild, HashFile, ParseFile, CommitFile,
              Sweep, WriteReport, Answer
<1> QED BY <1>1, <1>2, <1>3, <1>4 DEF Next

\* Vectors of a real model are never replaced by an index that a test embedder
\* built (assert_not_clobbering_real_index, called at the swap).
THEOREM RealVectorSafety ==
    ASSUME Kinds \subseteq Locking
    PROVE  Spec => RealVectorsSurvive
<1>1. IdInv /\ [Next]_vars => 
    [/\ live' # live
     /\ \E f \in Files : db[live].rows[f] # None /\ db[live].rows[f].model \notin TestModels
     => db'[live'].stamp \notin TestModels]_vars
  <2> SUFFICES ASSUME IdInv, [Next]_vars, live' # live,
                      NEW f \in Files, db[live].rows[f] # None,
                      db[live].rows[f].model \notin TestModels
               PROVE  db'[live'].stamp \notin TestModels
    OBVIOUS
  <2>1. PICK p \in Procs : Swap(p)
    BY OnlySwapMovesLive
  <2>2. /\ run[p].phase = "walk" /\ Rebuilding(p) /\ SafeToReplace(db[live], run[p].model)
        /\ live' = run[p].tmp /\ db' = Reclaimed
    BY <2>1 DEF Swap
  <2>3. PICK i \in Inodes : i = run[p].tmp
    BY <2>2 DEF IdInv, IndInv, TypeOK, Runs, Rebuilding
  <2>4. Open(i)' /\ db'[i] = db[i]
    BY <2>2, <2>3 DEF Open, Reclaimed
  <2>5. db[i].stamp = run[p].model
    BY <2>2, <2>3 DEF IdInv, Identified, Guarded, Working, Target, BearsModel
  <2>6. HoldsData(db[live])
    BY DEF HoldsData
  <2>7. db[live].rows[f].model = db[live].stamp \/ db[live].stamp = None
    BY DEF IdInv, IndInv, TypeOK, Identified, Named
  <2>8. run[p].model \notin TestModels
    BY <2>2, <2>6, <2>7, ConstantsAssumption DEF SafeToReplace
  <2> QED BY <2>2, <2>3, <2>4, <2>5, <2>8
<1> QED BY <1>1, IdentityInvariance, PTL DEF Spec, RealVectorsSurvive

=============================================================================
