---------------------------- MODULE CuratedIndex ----------------------------
(***************************************************************************)
(* The curated memory index of rekol: index.db, the SQLite file that       *)
(* `rekol search` reads, and the commands that write it.                   *)
(*                                                                         *)
(* `rekol index rebuild` builds a new database beside the live one and     *)
(* renames it over index.db; `rekol index update` and the self-heal of     *)
(* `rekol search` take the same advisory lock; `rekol capture`, `confirm`, *)
(* `flag-suspect` and `invalidate <file>` run the same incremental update  *)
(* without it.  Editors change the markdown files all the while, and any   *)
(* process may be killed between two steps.                                *)
(*                                                                         *)
(* A database is an inode: renaming a file over index.db leaves a process  *)
(* that had index.db open attached to the old, unlinked inode.  A content  *)
(* stands for the bytes of a file; its hash is the content itself, so two  *)
(* contents never collide.  The chunks and vectors of a file are the       *)
(* content and the model they were computed from.  A SQLite transaction is *)
(* one step.                                                               *)
(***************************************************************************)
EXTENDS Naturals

CONSTANTS Files,       \* the markdown paths of the store, in walk order
          Outside,     \* those of them no indexed directory holds
          Contents,    \* what a file may contain
          Invalid,     \* the contents parse_file rejects
          Models,      \* the embedding models a run may be configured with
          TestModels,  \* those of them that are test stand-ins
          Procs,       \* process slots; a slot is reused by later commands
          Kinds,       \* the commands that may run
          Inodes,      \* database files that can exist at once
          InitSchemas, \* the kinds of index.db an earlier version may leave
          Absent,      \* "no such file", no content
          None,        \* null
          MaxEdits,    \* bound on the changes made to memory files
          MaxFaults    \* bound on kills and embedding failures

AllKinds == {"rebuild", "update", "search", "capture", "confirm"}

ASSUME ConstantsAssumption ==
    /\ Files \subseteq Nat /\ Outside \subseteq Files
    /\ Invalid \subseteq Contents /\ TestModels \subseteq Models
    /\ Kinds \subseteq AllKinds
    /\ Inodes \subseteq Nat /\ Inodes # {}
    /\ InitSchemas \subseteq {"none", "old", "current"}
    /\ Absent \notin Contents /\ None \notin Contents
    /\ None \notin Models \union Procs \union Inodes \union Files
    /\ None \notin [hash: Contents, text: Contents, model: Models]
    /\ MaxEdits \in Nat /\ MaxFaults \in Nat

VARIABLES disk,   \* Files -> the content on disk, or Absent
          db,     \* Inodes -> the committed state of that database
          live,   \* the inode that the name index.db refers to
          temps,  \* the inodes that names index.db.tmp-* refer to
          lock,   \* holder of .index-write.lock, or None
          run,    \* Procs -> the state of the command running in the slot
          report, \* INDEX.md and the skip manifest, as last written
          edits, faults

vars == <<disk, db, live, temps, lock, run, report, edits, faults>>

-----------------------------------------------------------------------------
(* The store *)

Valid == Contents \ Invalid

Rows == [Files -> {None} \union [hash: Contents, text: Valid, model: Models]]

Databases == [schema: {"none", "old", "current"},
              stamp: Models \union {None},
              rows: Rows]

\* A file that sqlite3.connect has created and nothing has written to.
Blank == [schema |-> "none", stamp |-> None, rows |-> [f \in Files |-> None]]

\* The database a complete, undisturbed indexing of `files` leaves.
Built(files, schema, stamp, m) ==
    [schema |-> schema, stamp |-> stamp,
     rows |-> [f \in Files |->
                 IF f \notin Outside /\ files[f] \in Valid
                 THEN [hash |-> files[f], text |-> files[f], model |-> m]
                 ELSE None]]

RestampingInitSchema(d, stamp) ==
    [d EXCEPT !.schema = IF @ = "none" THEN "current" ELSE @,
              !.stamp = IF stamp = None THEN @ ELSE stamp]

\* Version and identity are stamped only on a database with no tables yet;
\* a store opened without a model leaves the identity unset.
InitSchema(d, stamp) ==
    IF d.schema = "none" THEN [d EXCEPT !.schema = "current", !.stamp = stamp] ELSE d

NeedsSchemaMigration(d) == d.schema = "old"

UncheckedModelIdentity(d, m) == TRUE

CheckModelIdentity(d, m) == d.stamp \in {None, m}

\* One transaction: the files row, its chunks, and the identity stamp when the
\* store was opened with a model.
ReplaceFileAndChunks(d, f, row, stamp) ==
    [d EXCEPT !.rows[f] = row, !.stamp = IF stamp = None THEN @ ELSE stamp]

DeleteFile(d, f) == [d EXCEPT !.rows[f] = None]

HoldsData(d) == \E f \in Files : d.rows[f] # None

\* As it once was: an index of unknown provenance may be replaced.
FailOpenSafeToReplace(d, m) ==
    m \in TestModels => d.stamp \in TestModels \union {None}

\* assert_not_clobbering_real_index: a test embedder may replace only an index
\* it built itself, or an unstamped one that is empty.
SafeToReplace(d, m) ==
    m \in TestModels => d.stamp \in TestModels \/ (d.stamp = None /\ ~HoldsData(d))

-----------------------------------------------------------------------------
(* Processes *)

Phases == {"idle", "open", "waiting", "walk", "parse", "commit", "report",
            "query", "draft", "rewritten", "edited"}

IdleRun == [phase |-> "idle", kind |-> None, model |-> None, att |-> None,
            tmp |-> None, todo |-> {}, gone |-> {},
            snap |-> [f \in Files |-> None],
            file |-> None, hash |-> None, text |-> None, quiet |-> {}]

Runs == [phase: Phases,
         kind: Kinds \union {None},
         model: Models \union {None},  \* the configured model, read at start
         att: Inodes \union {None},    \* the store's connection
         tmp: Inodes \union {None},    \* the side-built database of a rebuild
         todo: SUBSET Files,           \* files the walk has still to visit
         gone: SUBSET Files,           \* indexed files the walk did not list
         snap: [Files -> Contents \union {None}],  \* hashes read at the start
         file: Files \union {None},    \* the file in hand,
         hash: Contents \union {None}, \*   its hash as computed, and
         text: Valid \union {None},    \*   the content that was then parsed
         quiet: SUBSET Files]          \* history: untouched since the walk began

Idle(p) == run[p].phase = "idle"

\* Only these commands open the store with an embedding_model to stamp.
Stamp(p) == IF run[p].kind \in {"rebuild", "update", "search"} THEN run[p].model ELSE None

Rebuilding(p) == run[p].tmp # None

\* The store _index_one writes to: the temp store during a rebuild.
Target(p) == IF Rebuilding(p) THEN run[p].tmp ELSE run[p].att

Open(i) == i = live \/ \E p \in Procs : run[p].att = i \/ run[p].tmp = i

\* An inode without a name is freed when the last process closes it.
Reclaimed == [i \in Inodes |-> IF Open(i)' \/ i \in temps' THEN db[i] ELSE Blank]

\* The process is gone: its connections are closed and the flock released.
Exit(p) ==
    /\ run' = [run EXCEPT ![p] = IdleRun]
    /\ lock' = IF lock = p THEN None ELSE lock

\* The files a directory walk lists now.
Listed == {f \in Files \ Outside : disk[f] # Absent}

\* A memory file gets content c: no run in progress may rely on it any more.
Touch(f, c, r) ==
    /\ edits < MaxEdits
    /\ disk' = [disk EXCEPT ![f] = c]
    /\ edits' = edits + 1
    /\ run' = [q \in Procs |-> [r[q] EXCEPT !.quiet = @ \ {f}]]

-----------------------------------------------------------------------------
(* Starting a command *)

Connected(kind, m, phase) ==
    [IdleRun EXCEPT !.phase = phase, !.kind = kind, !.model = m, !.att = live]

\* index update, up to the lock: open, init_schema, schema and identity guards.
\* When a guard fails the command exits with nothing changed.
OpenForUpdate(p, m) ==
    LET d == InitSchema(db[live], m) IN
    /\ Idle(p) /\ "update" \in Kinds
    /\ ~NeedsSchemaMigration(d) /\ CheckModelIdentity(d, m)
    /\ db' = [db EXCEPT ![live] = d]
    /\ run' = [run EXCEPT ![p] = Connected("update", m, "open")]
    /\ UNCHANGED <<disk, live, temps, lock, report, edits, faults>>

\* index rebuild, up to the lock.
OpenForRebuild(p, m) ==
    /\ Idle(p) /\ "rebuild" \in Kinds
    /\ SafeToReplace(db[live], m)
    /\ run' = [run EXCEPT ![p] = Connected("rebuild", m, "waiting")]
    /\ UNCHANGED <<disk, db, live, temps, lock, report, edits, faults>>

\* search: an index of an old schema is healed first when its identity allows.
OpenForSearch(p, m) ==
    LET d == InitSchema(db[live], m) IN
    /\ Idle(p) /\ "search" \in Kinds
    /\ CheckModelIdentity(d, m)
    /\ db' = [db EXCEPT ![live] = d]
    /\ run' = [run EXCEPT ![p] = Connected("search", m,
                 IF NeedsSchemaMigration(d) THEN "open" ELSE "query")]
    /\ UNCHANGED <<disk, live, temps, lock, report, edits, faults>>

\* capture, up to the conflict check: the destination must not exist, the store
\* is opened without a model and its identity is not checked.
OpenForCapture(p, m, f) ==
    LET d == InitSchema(db[live], None) IN
    /\ Idle(p) /\ "capture" \in Kinds
    /\ disk[f] = Absent
    /\ ~NeedsSchemaMigration(d)
    /\ db' = [db EXCEPT ![live] = d]
    /\ run' = [run EXCEPT ![p] = [Connected("capture", m, "draft") EXCEPT !.file = f]]
    /\ UNCHANGED <<disk, live, temps, lock, report, edits, faults>>

\* The conflict check found a near duplicate.
RefuseCapture(p) ==
    /\ run[p].phase = "draft"
    /\ UNCHANGED <<disk, live, temps, report, edits, faults>>
    /\ Exit(p)
    /\ db' = Reclaimed

WriteCapture(p, c) ==
    /\ run[p].phase = "draft"
    /\ Touch(run[p].file, c, [run EXCEPT ![p].phase = "edited", ![p].file = None])
    /\ UNCHANGED <<db, live, temps, lock, report, faults>>

\* confirm, flag-suspect and invalidate rewrite an existing file's frontmatter,
\* then reindex; the store is not open yet.
RewriteFrontmatter(p, m, f, c) ==
    /\ Idle(p) /\ "confirm" \in Kinds
    /\ disk[f] # Absent /\ c # disk[f] /\ (c \in Invalid <=> disk[f] \in Invalid)
    /\ Touch(f, c, [run EXCEPT ![p] = [IdleRun EXCEPT !.phase = "rewritten",
                                                     !.kind = "confirm", !.model = m]])
    /\ UNCHANGED <<db, live, temps, lock, report, faults>>

OpenForReindex(p) ==
    LET d == InitSchema(db[live], None) IN
    /\ run[p].phase = "rewritten"
    /\ ~NeedsSchemaMigration(d)
    /\ db' = [db EXCEPT ![live] = d]
    /\ run' = [run EXCEPT ![p].phase = "edited", ![p].att = live]
    /\ UNCHANGED <<disk, live, temps, lock, report, edits, faults>>

\* guard_curated_schema: the file stays rewritten, the index is not updated.
RefuseReindex(p) ==
    /\ run[p].phase = "rewritten"
    /\ UNCHANGED <<disk, live, temps, report, edits, faults>>
    /\ NeedsSchemaMigration(db[live])
    /\ Exit(p)
    /\ db' = Reclaimed

\* Anything else that writes, replaces or deletes a memory file.
Edit(f, c) ==
    /\ c # disk[f]
    /\ Touch(f, c, run)
    /\ UNCHANGED <<db, live, temps, lock, report, faults>>

-----------------------------------------------------------------------------
(* The write lock *)

UnlockedLockFree(p) == TRUE

\* flock(LOCK_EX): granted when nobody holds the file lock.
LockFree(p) == lock = None

\* flock(LOCK_EX | LOCK_NB) fails: an update is skipped, a heal gives up.
Busy(p) ==
    /\ run[p].phase = "open"
    /\ ~LockFree(p)
    /\ UNCHANGED <<disk, live, temps, report, edits, faults>>
    /\ Exit(p)
    /\ db' = Reclaimed

\* Indexer.update: read the indexed hashes, then walk what the disk lists.
BeginWalk(p) ==
    LET rows == db[run[p].att].rows IN
    run' = [run EXCEPT ![p] = [@ EXCEPT
              !.phase = "walk",
              !.snap = [f \in Files |-> IF rows[f] = None THEN None ELSE rows[f].hash],
              !.todo = Listed,
              !.gone = {f \in Files \ Listed : rows[f] # None},
              !.quiet = Files]]

LockForUpdate(p) ==
    /\ run[p].phase = "open" /\ run[p].kind = "update"
    /\ LockFree(p) /\ lock' = p
    /\ BeginWalk(p)
    /\ UNCHANGED <<disk, db, live, temps, report, edits, faults>>

\* capture, confirm, flag-suspect and invalidate update without the lock.
UpdateUnlocked(p) ==
    /\ run[p].phase = "edited"
    /\ BeginWalk(p)
    /\ UNCHANGED <<disk, db, live, temps, lock, report, edits, faults>>

\* Indexer.rebuild, for `index rebuild` and for the self-heal of search: drop
\* the temp databases a killed rebuild left, then create one.
LockForRebuild(p) ==
    /\ UNCHANGED <<disk, live, report, edits, faults>>
    /\ \/ run[p].phase = "waiting"
       \/ run[p].phase = "open" /\ run[p].kind = "search"
    /\ LockFree(p) /\ lock' = p
    /\ \E tmp \in Inodes :
         /\ ~Open(tmp) /\ \A i \in Inodes : i < tmp => Open(i)
         /\ temps' = {tmp}
         /\ run' = [run EXCEPT ![p] = [@ EXCEPT !.phase = "walk", !.tmp = tmp,
                                              !.todo = Listed, !.quiet = Files]]
         /\ db' = [Reclaimed EXCEPT ![tmp] = InitSchema(Blank, run[p].model)]

-----------------------------------------------------------------------------
(* The walk *)

\* An exception leaves the command: a rebuild drops every temp database.
Abort(p) ==
    /\ temps' = IF Rebuilding(p) THEN {} ELSE temps
    /\ Exit(p)
    /\ db' = Reclaimed

\* Done with the file in hand.
FileDone(p) == [run[p] EXCEPT !.phase = "walk", !.todo = @ \ {run[p].file},
                               !.file = None, !.hash = None, !.text = None]

\* _hash_file of the next path, compared with the hash indexed for it.
HashFile(p) ==
    /\ run[p].phase = "walk"
    /\ UNCHANGED <<disk, live, report, edits, faults>>
    /\ \E f \in run[p].todo :
         /\ \A g \in run[p].todo : f <= g
         /\ \/ /\ disk[f] = Absent
               /\ Abort(p)
            \/ /\ disk[f] # Absent /\ run[p].snap[f] = disk[f]
               /\ run' = [run EXCEPT ![p].todo = @ \ {f}]
               /\ UNCHANGED <<db, temps, lock>>
            \/ /\ disk[f] # Absent /\ run[p].snap[f] # disk[f]
               /\ run' = [run EXCEPT ![p].phase = "parse", ![p].file = f,
                                     ![p].hash = disk[f]]
               /\ UNCHANGED <<db, temps, lock>>

UnvalidatedParseFile(p) ==
    LET f == run[p].file IN
    /\ run[p].phase = "parse"
    /\ UNCHANGED <<disk, live, report, edits, faults>>
    /\ \/ disk[f] = Absent /\ Abort(p)
       \/ /\ disk[f] # Absent
          /\ run' = [run EXCEPT ![p].phase = "commit", ![p].text = disk[f]]
          /\ UNCHANGED <<db, temps, lock>>

\* parse_file reads the file a second time.  A file that no longer validates
\* loses the entry it had when the update began.
ParseFile(p) ==
    LET f == run[p].file IN
    /\ run[p].phase = "parse"
    /\ UNCHANGED <<disk, live, report, edits, faults>>
    /\ \/ /\ disk[f] = Absent
          /\ Abort(p)
       \/ /\ disk[f] \in Invalid
          /\ run' = [run EXCEPT ![p] = FileDone(p)]
          /\ db' = IF run[p].snap[f] = None THEN db
                   ELSE [db EXCEPT ![run[p].att] = DeleteFile(@, f)]
          /\ UNCHANGED <<temps, lock>>
       \/ /\ disk[f] \in Valid
          /\ run' = [run EXCEPT ![p].phase = "commit", ![p].text = disk[f]]
          /\ UNCHANGED <<db, temps, lock>>

\* Embedding fails (the model, memory, the disk).
FailEmbedding(p) ==
    /\ run[p].phase = "commit" /\ faults < MaxFaults
    /\ UNCHANGED <<disk, live, report, edits>>
    /\ Abort(p)
    /\ faults' = faults + 1

\* The embedded file is written.
CommitFile(p) ==
    /\ run[p].phase = "commit"
    /\ db' = [db EXCEPT ![Target(p)] = ReplaceFileAndChunks(@, run[p].file,
                [hash |-> run[p].hash, text |-> run[p].text, model |-> run[p].model],
                Stamp(p))]
    /\ run' = [run EXCEPT ![p] = FileDone(p)]
    /\ UNCHANGED <<disk, live, temps, lock, report, edits, faults>>

ForgetfulSweep(p) ==
    /\ run[p].phase = "walk" /\ ~Rebuilding(p) /\ run[p].todo = {}
    /\ run' = [run EXCEPT ![p].phase = "report", ![p].gone = {}]
    /\ UNCHANGED <<disk, db, live, temps, lock, report, edits, faults>>

EndlessSweep(p) ==
    /\ run[p].phase = "walk" /\ ~Rebuilding(p) /\ run[p].todo = {}
    /\ \/ /\ run[p].gone = {}
          /\ run' = [run EXCEPT ![p].phase = "report"]
          /\ UNCHANGED db
       \/ \E f \in run[p].gone :
            /\ db' = [db EXCEPT ![run[p].att] = DeleteFile(@, f)]
            /\ UNCHANGED run
    /\ UNCHANGED <<disk, live, temps, lock, report, edits, faults>>

\* An update deletes what the index holds and the walk did not list.
Sweep(p) ==
    /\ run[p].phase = "walk" /\ ~Rebuilding(p) /\ run[p].todo = {}
    /\ \/ /\ run[p].gone = {}
          /\ run' = [run EXCEPT ![p].phase = "report"]
          /\ UNCHANGED db
       \/ \E f \in run[p].gone :
            /\ run' = [run EXCEPT ![p].gone = @ \ {f}]
            /\ db' = [db EXCEPT ![run[p].att] = DeleteFile(@, f)]
    /\ UNCHANGED <<disk, live, temps, lock, report, edits, faults>>

EarlySwap(p) ==
    /\ run[p].phase = "walk" /\ Rebuilding(p)
    /\ SafeToReplace(db[live], run[p].model)
    /\ live' = run[p].tmp
    /\ temps' = temps \ {run[p].tmp}
    /\ run' = [run EXCEPT ![p].phase = "report", ![p].att = run[p].tmp, ![p].tmp = None]
    /\ db' = Reclaimed
    /\ UNCHANGED <<disk, lock, report, edits, faults>>

\* The rebuilt database is renamed over index.db, and the store reattached,
\* unless the guard finds that test vectors would replace real ones.
Swap(p) ==
    /\ run[p].phase = "walk" /\ Rebuilding(p) /\ run[p].todo = {}
    /\ UNCHANGED <<disk, report, edits, faults>>
    /\ \/ /\ SafeToReplace(db[live], run[p].model)
          /\ live' = run[p].tmp
          /\ temps' = temps \ {run[p].tmp}
          /\ run' = [run EXCEPT ![p].phase = "report", ![p].att = run[p].tmp,
                                ![p].tmp = None]
          /\ db' = Reclaimed
          /\ UNCHANGED lock
       \/ /\ ~SafeToReplace(db[live], run[p].model)
          /\ UNCHANGED live
          /\ Abort(p)

\* As it once was: the manifest was derived from the indexer's own walk.
WalkOnlyWriteReport(p) ==
    LET rows == db[run[p].att].rows IN
    /\ run[p].phase = "report"
    /\ UNCHANGED <<disk, live, temps, edits, faults>>
    /\ report' = [listed |-> {f \in Files : rows[f] # None},
                  uncovered |-> {f \in Listed : rows[f] = None}]
    /\ Exit(p)
    /\ db' = Reclaimed

\* INDEX.md lists the files of the store; the skip manifest counts the markdown
\* files on disk that the store lacks.  A search goes on to read the index it
\* healed, any other command ends.
WriteReport(p) ==
    LET rows == db[run[p].att].rows IN
    /\ run[p].phase = "report"
    /\ UNCHANGED <<disk, live, temps, edits, faults>>
    /\ report' = [listed |-> {f \in Files : rows[f] # None},
                  uncovered |-> {f \in Files : disk[f] # Absent /\ rows[f] = None}]
    /\ IF run[p].kind = "search"
       THEN /\ run' = [run EXCEPT ![p].phase = "query", ![p].quiet = {}]
            /\ lock' = None
       ELSE Exit(p)
    /\ db' = Reclaimed

\* The query has been answered from the attached index.
Answer(p) ==
    /\ run[p].phase = "query"
    /\ UNCHANGED <<disk, live, temps, report, edits, faults>>
    /\ Exit(p)
    /\ db' = Reclaimed

\* SIGKILL or power loss: a temp database stays behind.
Kill(p) ==
    /\ ~Idle(p) /\ faults < MaxFaults
    /\ UNCHANGED <<disk, live, temps, report, edits>>
    /\ faults' = faults + 1
    /\ Exit(p)
    /\ db' = Reclaimed

-----------------------------------------------------------------------------

Init ==
    /\ disk \in [Files -> Contents \union {Absent}]
    /\ live \in Inodes /\ \A i \in Inodes : live <= i
    /\ \E s \in InitSchemas, m \in Models, stamp \in Models \union {None} :
         /\ stamp = m \/ (s = "old" /\ stamp = None)
         /\ db = [[i \in Inodes |-> Blank] EXCEPT
                    ![live] = IF s = "none" THEN Blank ELSE Built(disk, s, stamp, m)]
    /\ temps = {} /\ lock = None
    /\ run = [p \in Procs |-> IdleRun]
    /\ report = [listed |-> {}, uncovered |-> {}]
    /\ edits = 0 /\ faults = 0

Start(p) == \E m \in Models :
    \/ OpenForUpdate(p, m) \/ OpenForRebuild(p, m) \/ OpenForSearch(p, m)
    \/ \E f \in Files \ Outside : OpenForCapture(p, m, f)
    \/ \E f \in Files, c \in Contents : RewriteFrontmatter(p, m, f, c)

\* What a started command does next, left to itself.
Step(p) ==
    \/ RefuseCapture(p) \/ (\E c \in Valid : WriteCapture(p, c))
    \/ OpenForReindex(p) \/ RefuseReindex(p)
    \/ Busy(p) \/ LockForUpdate(p) \/ UpdateUnlocked(p) \/ LockForRebuild(p)
    \/ HashFile(p) \/ ParseFile(p) \/ CommitFile(p) \/ Sweep(p) \/ Swap(p)
    \/ WriteReport(p) \/ Answer(p)

Fault(p) == FailEmbedding(p) \/ Kill(p)

Next ==
    \/ \E p \in Procs : Start(p) \/ Step(p) \/ Fault(p)
    \/ \E f \in Files, c \in Contents \union {Absent} : Edit(f, c)

Spec == Init /\ [][Next]_vars

\* The operating system runs every started command; nothing makes anyone start
\* one, except the editor hook, which runs `index update` again and again.
Fairness ==
    /\ \A p \in Procs : WF_vars(Step(p))
    /\ SF_vars(\E p \in Procs, m \in Models : OpenForUpdate(p, m))

FairSpec == Spec /\ Fairness

-----------------------------------------------------------------------------
(* Properties *)

\* The type invariant.
TypeOK ==
    /\ disk \in [Files -> Contents \union {Absent}]
    /\ db \in [Inodes -> Databases]
    /\ live \in Inodes
    /\ temps \in SUBSET Inodes
    /\ lock \in Procs \union {None}
    /\ run \in [Procs -> Runs]
    /\ report \in [listed: SUBSET Files, uncovered: SUBSET Files]
    /\ edits \in Nat /\ faults \in Nat

\* An incremental update would leave the entry of f alone.
Tracks(d, f) ==
    IF f \in Outside \/ disk[f] = Absent THEN d.rows[f] = None
    ELSE IF d.rows[f] = None THEN disk[f] \in Invalid ELSE d.rows[f].hash = disk[f]

\* Tracked, and searchable under its present content.
Reflects(d, f) ==
    Tracks(d, f) /\ (d.rows[f] # None => d.rows[f].text = disk[f])

\* A rebuild never deletes the temp database another rebuild is filling, and
\* nobody reads or writes it but its owner (Indexer.rebuild, _stale_temp_dbs).
TempIsMine ==
    \A p \in Procs : Rebuilding(p) =>
        /\ temps = {run[p].tmp}
        /\ live # run[p].tmp
        /\ \A q \in Procs : run[q].att # run[p].tmp /\ (run[q].tmp = run[p].tmp => q = p)

\* A finished rebuild has indexed every file that nobody touched since its walk
\* began, whatever ran beside it and whoever was killed before (Indexer.rebuild).
RebuildReflectsDisk ==
    \A p \in Procs :
        run[p].phase = "report" /\ run[p].kind \in {"rebuild", "search"} =>
            \A f \in run[p].quiet : Reflects(db[run[p].att], f)

\* A finished `index update` has brought the store it opened up to date with
\* every file that nobody touched since its walk began (Indexer.update).
UpdateReflectsDisk ==
    \A p \in Procs :
        run[p].phase = "report" /\ run[p].kind = "update" =>
            \A f \in run[p].quiet : Tracks(db[run[p].att], f)

\* ... and that store is the one searches read: no rebuild discards a
\* concurrent update's commit (index_lock.py).
UpdateReachesLive ==
    \A p \in Procs :
        run[p].phase = "report" /\ run[p].kind = "update" =>
            \A f \in run[p].quiet : Tracks(db[live], f)

\* The recorded identity names the model that produced the vectors
\* (replace_file_and_chunks).
StampNamesModel ==
    \A i \in Inodes, f \in Files :
        db[i].schema = "current" /\ db[i].rows[f] # None =>
            db[i].rows[f].model = db[i].stamp

\* A search that passed the identity guard ranks vectors of its own model only
\* (cli_search, check_model_identity).
SearchComparesLikeWithLike ==
    \A p \in Procs : run[p].phase = "query" =>
        \A f \in Files : LET row == db[run[p].att].rows[f] IN
            row # None => row.model = run[p].model

\* An index that holds a vector of a real model is never replaced by one built
\* with a test embedder (assert_not_clobbering_real_index).
RealVectorsSurvive ==
    [][/\ live' # live
       /\ \E f \in Files : db[live].rows[f] # None /\ db[live].rows[f].model \notin TestModels
       => db'[live'].stamp \notin TestModels]_vars

\* The skip manifest raises no false alarm about an untouched file, and names
\* every one that the walk does not reach (_write_skip_manifest).
BannerIsHonest ==
    [][\A p \in Procs : WriteReport(p) =>
         \A f \in run[p].quiet :
            /\ f \in report'.uncovered => f \in Outside \/ disk[f] \in Invalid
            /\ f \in Outside /\ disk[f] # Absent => f \in report'.uncovered]_vars

\* No step of a command takes an up-to-date entry of the live index back, as
\* long as the file stays untouched.
NeverBackwards ==
    [][\A f \in Files :
         /\ Tracks(db[live], f) /\ disk'[f] = disk[f]
         /\ \A p \in Procs : lock = p /\ run[p].phase # "report" => f \in run[p].quiet
         => Tracks(db[live], f)']_vars

\* Equal hashes mean equal chunks, so that skipping an unchanged file is sound.
SkipIsSound ==
    \A f \in Files : LET row == db[live].rows[f] IN
        row # None /\ row.hash = disk[f] => row.text = disk[f]

\* A lock holder lets go: a killed one cannot wedge the lock (index_lock.py).
LockIsReleased == \A p \in Procs : (lock = p) ~> (lock # p)

\* Once the edits stop, the live index catches up with the disk for good.
Converges == <>[](\A f \in Files : Tracks(db[live], f))

=============================================================================
