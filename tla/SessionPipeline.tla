--------------------------- MODULE SessionPipeline ---------------------------
(***************************************************************************)
(* The commands that keep past conversations searchable: `rekol            *)
(* session-index`, which every session starts as it ends, `rekol archive`, *)
(* its --from-index and --prune forms, and `rekol invalidate SESSION`.     *)
(* None of them takes a lock.                                              *)
(*                                                                         *)
(* Claude Code writes the live transcripts all the while and deletes old   *)
(* ones; the user changes what is excluded; commands fail and are killed.  *)
(***************************************************************************)
EXTENDS SessionIndex

CONSTANTS Procs,      \* process slots; a slot is reused by later commands
          Commands,   \* the commands that may run
          Faults,     \* what may go wrong
          Markers,    \* whether an earlier version left the backfill marker
          MaxEdits,   \* bound on what is done to transcripts, excludes, sessions
          MaxFaults   \* bound on the faults

IndexCommands == {"session-index", "no-embed", "full"}

AllCommands == IndexCommands \union {"archive", "from-index", "prune", "forget"}

ASSUME PipelineAssumption ==
    /\ Commands \subseteq AllCommands
    /\ Faults \subseteq {"kill", "torn", "degraded", "stuck", "unloaded"}
    /\ Markers \subseteq BOOLEAN
    /\ MaxEdits \in Nat /\ MaxFaults \in Nat

VARIABLES live,      \* Sessions -> its live transcript, or Absent
          past,      \* Sessions -> what it has been: no mtime comes back
          excluded,  \* the sessions that exclude_paths or .rekolignore match
          files,     \* ArchivePaths -> the archived file, or Absent
          manifest,  \* .manifest.json
          marker,    \* .backfilled-from-index exists
          index,     \* sessions.db
          run,       \* Procs -> the state of the command running in the slot
          edits, faults

vars == <<live, past, excluded, files, manifest, marker, index, run, edits, faults>>

-----------------------------------------------------------------------------
(* Processes *)

Phases == {"idle", "sync", "copy", "write", "open", "backfill", "ingest", "read", "seen",
           "repair", "embed", "forget", "unlink", "save"}

IdleRun == [phase |-> "idle", cmd |-> None, session |-> None, todo |-> {},
            man |-> [s \in Sessions |-> None], path |-> None, stat |-> None, copying |-> None,
            queue |-> {}, root |-> None, ids |-> {}, paths |-> {}, excluded |-> {},
            texts |-> [s \in Sessions |-> {}], quiet |-> {}, kept |-> {}]

Runs == [phase: Phases,
         cmd: Commands \union {None},
         session: Sessions \union {None},   \* the session to forget
         todo: SUBSET Sessions,             \* sessions still to visit
         man: Manifests,                    \* the manifest as loaded and changed
         path: IndexedPaths \union {None},  \* the file in hand
         stat: File \union {None},          \*   and its mtime and size
         copying: File \union {None},       \* the transcript as opened for the copy
         queue: SUBSET IndexedPaths,        \* files still to ingest
         root: {Canonical, Live, None},     \* where ingest reads from
         ids: SUBSET Nat,                   \* rowids and paths read before a
         paths: SUBSET IndexedPaths,        \*   transaction
         excluded: SUBSET Sessions,         \* the excludes, read at the start
         texts: [Sessions -> SUBSET Texts], \* messages to rebuild files from
         quiet: SUBSET Sessions,            \* history: untouched since it began
         kept: SUBSET Nat]                  \* history: rows archived before a copy

Idle(p) == run[p].phase = "idle"

Exit(p) == run' = [run EXCEPT ![p] = IdleRun]

Embeds(p) == run[p].cmd # "no-embed"

\* What a reader of `path` finds.
FileAt(path) ==
    IF path[2] # Live THEN files[path]
    ELSE IF live[SessionOf(path)] = Absent THEN Absent ELSE Faithful(live[SessionOf(path)])

\* In a sync, or in the save of a forget or a prune.
Syncing(p) == run[p].phase = "sync" \/ (run[p].phase = "save" /\ run[p].root = None)

\* Session s is changed: no command in progress may rely on it any more.
Disturbed(r, s) == [p \in Procs |-> [r[p] EXCEPT !.quiet = @ \ {s}]]

\* Someone outside changes it.
Disturb(s) ==
    /\ edits < MaxEdits
    /\ edits' = edits + 1
    /\ run' = Disturbed(run, s)

\* One of the things goes wrong that the code provides for.
Fails(fault) == fault \in Faults /\ faults < MaxFaults /\ faults' = faults + 1

\* Some of the files that are to go cannot be removed, and are left ("stuck").
Left(stuck) == IF stuck = {} THEN UNCHANGED faults ELSE Fails("stuck")

-----------------------------------------------------------------------------
(* The world outside *)

\* Claude Code appends to a transcript, compacts or rewrites it.
WriteTranscript(s, t) ==
    /\ t \notin past[s]
    /\ live' = [live EXCEPT ![s] = t]
    /\ past' = [past EXCEPT ![s] = @ \union {t}]
    /\ Disturb(s)
    /\ UNCHANGED <<excluded, files, manifest, marker, index, faults>>

\* Claude Code deletes an old transcript.
RotateTranscript(s) ==
    /\ live[s] # Absent
    /\ live' = [live EXCEPT ![s] = Absent]
    /\ Disturb(s)
    /\ UNCHANGED <<past, excluded, files, manifest, marker, index, faults>>

\* The user excludes a project, or includes it again.
ChangeExclude(s) ==
    /\ excluded' = (excluded \ {s}) \union ({s} \ excluded)
    /\ Disturb(s)
    /\ UNCHANGED <<live, past, files, manifest, marker, index, faults>>

-----------------------------------------------------------------------------
(* Archive sync *)

\* archive_directory: load the manifest and list the live transcripts.
StartSync(p, cmd) ==
    /\ Idle(p) /\ cmd \in Commands
    /\ run' = [run EXCEPT ![p] = [IdleRun EXCEPT
                 !.phase = "sync", !.cmd = cmd, !.man = manifest, !.excluded = excluded,
                 !.todo = {s \in Sessions : live[s] # Absent}, !.quiet = Sessions]]
    /\ UNCHANGED <<live, past, excluded, files, manifest, marker, index, edits, faults>>

\* archive_file up to the copy.  A transcript that is gone counts as an error.
ExamineTranscript(p) ==
    /\ run[p].phase = "sync"
    /\ \E s \in run[p].todo :
         LET target == IF live[s] = Absent \/ s \in run[p].excluded THEN None
                       ELSE CopyTarget(files, run[p].man, s, live[s])
         IN IF target = None
            THEN run' = [run EXCEPT ![p].todo = @ \ {s}]
            ELSE run' = [run EXCEPT ![p].todo = @ \ {s}, ![p].phase = "copy",
                                    ![p].path = target, ![p].stat = Faithful(live[s])]
    /\ UNCHANGED <<live, past, excluded, files, manifest, marker, index, edits, faults>>

AfterCopy(r, man) ==
    [r EXCEPT !.phase = "sync", !.path = None, !.stat = None, !.copying = None,
              !.kept = {}, !.man = man]

\* shutil.copy2 opens the target, which empties it ...
OpenCopy(p) ==
    LET path == run[p].path IN
    /\ run[p].phase = "copy"
    /\ IF live[SessionOf(path)] = Absent
       THEN run' = [run EXCEPT ![p] = AfterCopy(@, @.man)] /\ UNCHANGED files
       ELSE /\ files' = [files EXCEPT ![path] = Faithful(<< >>)]
            /\ run' = [run EXCEPT ![p].phase = "write",
                                  ![p].kept = ArchivedRows(files, SessionOf(path)),
                                  ![p].copying = Faithful(live[SessionOf(path)])]
    /\ UNCHANGED <<live, past, excluded, manifest, marker, index, edits, faults>>

\* ... and copies.  The manifest gets the stat of the examination.
CopyTranscript(p) ==
    LET path == run[p].path IN
    /\ run[p].phase = "write"
    /\ files' = [files EXCEPT ![path] = run[p].copying]
    /\ run' = [run EXCEPT ![p] = AfterCopy(@, Recorded(@.man, path, @.stat.rows))]
    /\ UNCHANGED <<live, past, excluded, manifest, marker, index, edits, faults>>

\* The disk fills up in the middle of a copy: the file is counted as an error
\* and the walk goes on.
TornCopy(p) ==
    LET t == run[p].copying.rows IN
    /\ run[p].phase = "write" /\ Fails("torn")
    /\ \E n \in 0..(Len(t) - 1) :
         files' = [files EXCEPT ![run[p].path] = Faithful(SubSeq(t, 1, n))]
    /\ run' = Disturbed([run EXCEPT ![p] = AfterCopy(@, @.man)], SessionOf(run[p].path))
    /\ UNCHANGED <<live, past, excluded, manifest, marker, index, edits>>

SyncedRun(r, root) ==
    [r EXCEPT !.phase = "open", !.root = root, !.todo = {}, !.man = IdleRun.man]

\* Remove what is excluded; the whole manifest is saved next.  A file that cannot
\* be removed stays, with its entry, and is left to the next sync: this one ends
\* as if it were gone.
FinishSync(p) ==
    /\ run[p].phase = "sync" /\ run[p].todo = {}
    /\ \E stuck \in SUBSET FilesOfExcluded(files, run[p].excluded) :
         LET removed == FilesOfExcluded(files, run[p].excluded) \ stuck IN
         /\ Left(stuck)
         /\ files' = Unlink(files, removed)
         /\ run' = [run EXCEPT ![p].phase = "save", ![p].man = Unlisted(@, removed),
                               ![p].quiet = @ \ {SessionOf(path) : path \in stuck}]
    /\ UNCHANGED <<live, past, excluded, manifest, marker, index, edits>>

\* As it would be without the refusal to read live transcripts.
UnguardedDegradeSync(p) ==
    /\ Syncing(p) /\ Fails("degraded")
    /\ IF run[p].cmd \notin IndexCommands THEN Exit(p)
       ELSE run' = [run EXCEPT ![p] = SyncedRun(@, Live)]
    /\ UNCHANGED <<live, past, excluded, files, manifest, marker, index, edits>>

\* The archive cannot be read or its manifest not be saved: session-index reads
\* the live transcripts instead, unless anything is excluded.
DegradeSync(p) ==
    /\ Syncing(p) /\ Fails("degraded")
    /\ IF run[p].cmd \notin IndexCommands \/ run[p].excluded # {} THEN Exit(p)
       ELSE run' = [run EXCEPT ![p] = SyncedRun(@, Live)]
    /\ UNCHANGED <<live, past, excluded, files, manifest, marker, index, edits>>

-----------------------------------------------------------------------------
(* Backfill from the index *)

\* ingest_directory lists what there is to ingest.
BeginIngest(r) ==
    [r EXCEPT !.phase = "ingest", !.man = IdleRun.man, !.texts = IdleRun.texts, !.todo = {},
              !.queue = {path \in IndexedPaths : (path[2] = Live) = (r.root = Live)
                                                 /\ FileAt(path) # Absent}]

\* Manifest, messages and, once more, the excludes are read.
BeginBackfill(r) ==
    [r EXCEPT !.phase = "backfill", !.root = Canonical, !.man = manifest,
              !.excluded = excluded,
              !.todo = {s \in Sessions : MessagesOf(index, s) # {}},
              !.texts = [s \in Sessions |-> IndexedTexts(index, s)]]

\* The store is opened.  The marker is written before the backfill that it
\* says is done.
OpenStore(p) ==
    /\ run[p].phase = "open"
    /\ index' = [index EXCEPT !.made = TRUE]
    /\ IF run[p].root = Live \/ marker
       THEN /\ run' = [run EXCEPT ![p] = BeginIngest(@)]
            /\ UNCHANGED marker
       ELSE /\ run' = [run EXCEPT ![p] = BeginBackfill(@)]
            /\ marker' = TRUE
    /\ UNCHANGED <<live, past, excluded, files, manifest, edits, faults>>

\* archive --from-index, asked for explicitly: the marker does not matter.
StartBackfill(p) ==
    /\ Idle(p) /\ "from-index" \in Commands
    /\ index.made
    /\ marker' = TRUE
    /\ run' = [run EXCEPT ![p] = BeginBackfill([IdleRun EXCEPT !.cmd = "from-index"])]
    /\ UNCHANGED <<live, past, excluded, files, manifest, index, edits, faults>>

\* A session that has no canonical file gets one rebuilt from its messages, in
\* an order that nothing reads.
BackfillSession(p) ==
    /\ run[p].phase = "backfill"
    /\ \E s \in run[p].todo :
         IF s \in run[p].excluded \/ files[CanonicalPath(s)] # Absent
         THEN /\ run' = [run EXCEPT ![p].todo = @ \ {s}]
              /\ UNCHANGED files
         ELSE /\ files' = [files EXCEPT ![CanonicalPath(s)] =
                             Lossy(SetToSeq(run[p].texts[s]))]
              /\ run' = [run EXCEPT ![p].todo = @ \ {s}, ![p].man[s] = Backfill]
    /\ UNCHANGED <<live, past, excluded, manifest, marker, index, edits, faults>>

FinishBackfill(p) ==
    /\ run[p].phase = "backfill" /\ run[p].todo = {}
    /\ run' = [run EXCEPT ![p].phase = "save"]
    /\ UNCHANGED <<live, past, excluded, files, manifest, marker, index, edits, faults>>

\* An error of the backfill does not keep session-index from ingesting.
DegradeBackfill(p) ==
    /\ run[p].phase \in {"backfill", "save"} /\ run[p].root = Canonical
    /\ Fails("degraded")
    /\ IF run[p].cmd = "from-index" THEN Exit(p)
       ELSE run' = [run EXCEPT ![p] = BeginIngest(@)]
    /\ UNCHANGED <<live, past, excluded, files, manifest, marker, index, edits>>

\* save_manifest replaces the file; what comes next depends on the caller.
SaveManifest(p) ==
    /\ run[p].phase = "save"
    /\ manifest' = run[p].man
    /\ IF run[p].cmd \notin IndexCommands THEN Exit(p)
       ELSE run' = [run EXCEPT ![p] = IF @.root = None THEN SyncedRun(@, Canonical)
                                      ELSE BeginIngest(@)]
    /\ UNCHANGED <<live, past, excluded, files, marker, index, edits, faults>>

-----------------------------------------------------------------------------
(* Ingest *)

\* ingest_file: stat the next file and compare.  One that is gone ends the
\* command with an exception.
StatFile(p) ==
    /\ run[p].phase = "ingest"
    /\ \E path \in run[p].queue : LET f == FileAt(path) IN
         \/ f = Absent /\ Exit(p)
         \/ /\ f # Absent
            /\ IF run[p].cmd # "full" /\ ShouldSkipFile(index, path, f)
               THEN run' = [run EXCEPT ![p].queue = @ \ {path}]
               ELSE run' = [run EXCEPT ![p].queue = @ \ {path}, ![p].phase = "read",
                                       ![p].path = path, ![p].stat = f]
    /\ UNCHANGED <<live, past, excluded, files, manifest, marker, index, edits, faults>>

\* Read the file and commit its messages with their vectors.
IngestRows(p) ==
    LET f == FileAt(run[p].path) IN
    /\ run[p].phase = "read"
    /\ IF f = Absent
       THEN Exit(p) /\ UNCHANGED index
       ELSE /\ index' = IngestFile(index, run[p].path, f, Embeds(p))
            /\ run' = [run EXCEPT ![p].phase = "seen"]
    /\ UNCHANGED <<live, past, excluded, files, manifest, marker, edits, faults>>

\* As it would be with a fresh stat.
LateRecordSeen(p) ==
    /\ run[p].phase = "seen"
    /\ index' = RecordFileSeen(index, run[p].path, FileAt(run[p].path))
    /\ run' = [run EXCEPT ![p].phase = "ingest", ![p].path = None, ![p].stat = None]
    /\ UNCHANGED <<live, past, excluded, files, manifest, marker, edits, faults>>

\* A transaction of its own, with the stat taken before the read.
RecordSeen(p) ==
    /\ run[p].phase = "seen"
    /\ index' = RecordFileSeen(index, run[p].path, run[p].stat)
    /\ run' = [run EXCEPT ![p].phase = "ingest", ![p].path = None, ![p].stat = None]
    /\ UNCHANGED <<live, past, excluded, files, manifest, marker, edits, faults>>

\* embed_missing: nothing to do when the counts agree.
CountGuard(p) ==
    /\ run[p].phase = "ingest" /\ run[p].queue = {}
    /\ IF ~Embeds(p) \/ CountsAgree(index) THEN Exit(p)
       ELSE run' = [run EXCEPT ![p].phase = "repair"]
    /\ UNCHANGED <<live, past, excluded, files, manifest, marker, index, edits, faults>>

FetchBatch(p) ==
    LET ids == FetchUnembedded(index) IN
    /\ run[p].phase = "repair"
    /\ IF ids = {} THEN Exit(p)
       ELSE run' = [run EXCEPT ![p].phase = "embed", ![p].ids = ids]
    /\ UNCHANGED <<live, past, excluded, files, manifest, marker, index, edits, faults>>

EmbedBatch(p) ==
    /\ run[p].phase = "embed"
    /\ index' = UpsertEmbeddings(index, run[p].ids)
    /\ run' = [run EXCEPT ![p].phase = "repair", ![p].ids = {}]
    /\ UNCHANGED <<live, past, excluded, files, manifest, marker, edits, faults>>

-----------------------------------------------------------------------------
(* Forget and prune *)

\* _delete_session_from_index: read the rowids and the paths.
StartForget(p, s) ==
    LET messages == MessagesOf(index, s) IN
    /\ Idle(p) /\ "forget" \in Commands
    /\ edits < MaxEdits /\ edits' = edits + 1
    /\ run' = [run EXCEPT ![p] = [IdleRun EXCEPT
                 !.cmd = "forget", !.session = s,
                 !.phase = IF messages = {} THEN "unlink" ELSE "forget",
                 !.ids = {m.id : m \in messages}, !.paths = {m.src : m \in messages}]]
    /\ UNCHANGED <<live, past, excluded, files, manifest, marker, index, faults>>

ForgetMessages(p) ==
    /\ run[p].phase = "forget"
    /\ \/ /\ index' = DeleteSession(index, run[p].session, run[p].ids, run[p].paths)
          /\ UNCHANGED faults
       \/ /\ Fails("unloaded")
          /\ index' = UnpurgedDeleteSession(index, run[p].session, run[p].ids, run[p].paths)
    /\ run' = [run EXCEPT ![p].phase = "unlink", ![p].ids = {}, ![p].paths = {}]
    /\ UNCHANGED <<live, past, excluded, files, manifest, marker, edits>>

\* _delete_session_from_archive: the manifest is saved if an entry was dropped.
UnlinkSession(p) ==
    LET s == run[p].session  man == Unlisted(manifest, FilesOf(files, s)) IN
    /\ run[p].phase = "unlink"
    /\ files' = Unlink(files, FilesOf(files, s))
    /\ run' = Disturbed([run EXCEPT ![p] =
                  IF man = manifest THEN IdleRun
                  ELSE [IdleRun EXCEPT !.phase = "save", !.cmd = "forget", !.man = man]], s)
    /\ UNCHANGED <<live, past, excluded, manifest, marker, index, edits, faults>>

\* A file that cannot be removed ends it with an error and the manifest as it
\* was; the canonical file comes after the others in the order of their names.
StuckForget(p) ==
    LET s == run[p].session IN
    /\ run[p].phase = "unlink"
    /\ Fails("stuck")
    /\ \E removed \in SUBSET (FilesOf(files, s) \ {CanonicalPath(s)}) :
         /\ removed # FilesOf(files, s)
         /\ files' = Unlink(files, removed)
    /\ run' = Disturbed([run EXCEPT ![p] = IdleRun], s)
    /\ UNCHANGED <<live, past, excluded, manifest, marker, index, edits>>

\* archive --prune --clear: a file that cannot be removed stays, its entry does
\* not.
StartPrune(p) ==
    /\ Idle(p) /\ "prune" \in Commands
    /\ \E stuck \in SUBSET {path \in ArchivePaths : files[path] # Absent} :
         Left(stuck) /\ files' = Unlink(files, ArchivePaths \ stuck)
    /\ run' = [q \in Procs |->
                 IF q = p THEN [IdleRun EXCEPT !.phase = "save", !.cmd = "prune"]
                 ELSE [run[q] EXCEPT !.quiet = {}]]
    /\ UNCHANGED <<live, past, excluded, manifest, marker, index, edits>>

-----------------------------------------------------------------------------

\* SIGKILL or power loss: a copy that was open is left empty.
Kill(p) ==
    /\ ~Idle(p) /\ Fails("kill")
    /\ Exit(p)
    /\ UNCHANGED <<live, past, excluded, files, manifest, marker, index, edits>>

\* A first run, or one after the archive was pruned and the index deleted.
Init ==
    /\ live \in [Sessions -> Transcripts \union {Absent}]
    /\ past = [s \in Sessions |-> {live[s]}]
    /\ excluded = {}
    /\ files = [path \in ArchivePaths |-> Absent]
    /\ manifest = [s \in Sessions |-> None]
    /\ marker \in Markers
    /\ index = EmptyIndex
    /\ run = [p \in Procs |-> IdleRun]
    /\ edits = 0 /\ faults = 0

Outside ==
    \E s \in Sessions :
       \/ (\E t \in Transcripts : WriteTranscript(s, t))
       \/ RotateTranscript(s) \/ ChangeExclude(s)

Start(p) ==
    \/ \E cmd \in {"session-index", "no-embed", "full", "archive"} : StartSync(p, cmd)
    \/ StartBackfill(p) \/ StartPrune(p)
    \/ \E s \in Sessions : StartForget(p, s)

Step(p) ==
    \/ ExamineTranscript(p) \/ OpenCopy(p) \/ CopyTranscript(p) \/ FinishSync(p)
    \/ OpenStore(p) \/ BackfillSession(p) \/ FinishBackfill(p)
    \/ StatFile(p) \/ IngestRows(p) \/ RecordSeen(p)
    \/ CountGuard(p) \/ FetchBatch(p) \/ EmbedBatch(p)
    \/ ForgetMessages(p) \/ UnlinkSession(p) \/ SaveManifest(p)

Fault(p) ==
    \/ TornCopy(p) \/ DegradeSync(p) \/ DegradeBackfill(p) \/ StuckForget(p) \/ Kill(p)

Next == Outside \/ \E p \in Procs : Start(p) \/ Step(p) \/ Fault(p)

Spec == Init /\ [][Next]_vars

\* The operating system runs a started command; every session that ends starts
\* `session-index` (sessionend-snippet.json).
Fairness ==
    /\ \A p \in Procs : WF_vars(Step(p))
    /\ SF_vars(\E p \in Procs : StartSync(p, "session-index"))

FairSpec == Spec /\ Fairness

-----------------------------------------------------------------------------
(* Properties *)

\* The type invariant.
TypeOK ==
    /\ live \in [Sessions -> Transcripts \union {Absent}]
    /\ past \in [Sessions -> SUBSET (Transcripts \union {Absent})]
    /\ excluded \in SUBSET Sessions
    /\ files \in [ArchivePaths -> File \union {Absent}]
    /\ manifest \in Manifests
    /\ marker \in BOOLEAN
    /\ index \in Index
    /\ run \in [Procs -> Runs]
    /\ edits \in 0..MaxEdits /\ faults \in 0..MaxFaults

\* A file that ingest would skip as unchanged has been indexed whole, whatever
\* was written, killed or degraded between its stat, its read and its record
\* (ingest_file records the stat after the messages are committed).
SkipIsSound ==
    \A path \in IndexedPaths :
        FileAt(path) # Absent /\ ShouldSkipFile(index, path, FileAt(path)) =>
            TextsOf(FileAt(path)) \subseteq IndexedTexts(index, SessionOf(path))

\* Vectors belong to messages, so that comparing the counts tells whether one is
\* missing (count_embeddings, "never orphaned"), whatever was ingested, killed,
\* repaired and forgotten before; only a forget that warns that sqlite-vec does
\* not load any more leaves the vectors that it should have purged.
VectorsHaveMessages ==
    index.vectors \ index.unpurged \subseteq {m.id : m \in index.messages}

\* An embedding command that ends without a fault leaves every message with its
\* vector, those that earlier runs left without one included (embed_missing).  It
\* may end on the comparison of the counts, which vectors left by an unpurged
\* forget can mislead ever after; once it looks for messages, it misses none.
RepairIsComplete ==
    [][\A p \in Procs :
         ((CountGuard(p) /\ index.unpurged = {}) \/ FetchBatch(p))
         /\ Embeds(p) /\ run'[p].phase = "idle" =>
            {m.id : m \in index.messages} \subseteq index.vectors]_vars

\* A copy of transcript t that was cut short beside a diverged canonical file.
CutSidecar(s, t) == files[SidecarPath(s, t)] \notin {Absent, Faithful(t)}

\* A sync that ends has archived every row of every transcript that was left
\* alone meanwhile, wherever an earlier command was killed, its copy was torn or
\* a file could not be removed; only a sidecar that was cut short stays so
\* (archive_directory).  Two such
\* faults are too many: a prune that dies before it saves the manifest, then a copy
\* that fails, leave a cut file that the old entry declares unchanged.
SyncArchivesLive ==
    [][\A p \in Procs : FinishSync(p) =>
         \A s \in run[p].quiet \ run[p].excluded :
            live[s] # Absent =>
               \/ ToSet(live[s]) \subseteq ArchivedRows(files', s)
               \/ CutSidecar(s, live[s])]_vars

\* A copy loses no row that the archive held, as long as the transcript is not
\* rewritten after it was examined (archive_file never overwrites a version that
\* diverged).  The exception is what a rebuilt file held, when the live
\* transcript takes its place.
CopyKeepsRows ==
    [][\A p \in Procs :
         CopyTranscript(p) /\ run[p].stat = run[p].copying
         /\ run[p].man[SessionOf(run[p].path)] # Backfill =>
            run[p].kept \subseteq ArchivedRows(files', SessionOf(run[p].path))]_vars

\* No run indexes a session that was excluded before it began and stayed so,
\* whatever the archive held of it, also when the sync is killed or degrades
\* (_sync_archive_then_pick_ingest_root).  The exception: a file of it that the
\* sync could not remove is read by the ingest of the same run
\* (_remove_now_excluded_from_archive swallows the error).
ExcludedNotIngested ==
    [][\A p \in Procs : IngestRows(p) =>
         \A s \in run[p].excluded \cap run[p].quiet :
            MessagesOf(index', s) = MessagesOf(index, s)]_vars

\* A completed forget leaves nothing of the session in either store, the files
\* beside the canonical one included: no later run finds it, once Claude Code
\* has deleted the live transcript (_forget_session).
ForgetIsComplete ==
    [][\A p \in Procs : UnlinkSession(p) =>
         LET s == run[p].session IN
         MessagesOf(index', s) = {} /\ ArchivedRows(files', s) = {}]_vars

\* Every text of the live transcript is found by keyword and by meaning.
SearchableWhole(s) ==
    ToSet(live[s]) \cap Texts \subseteq
        {m.row : m \in {x \in MessagesOf(index, s) : x.id \in index.vectors}}

\* A session-index that ends without a fault leaves every transcript searchable
\* whole that was left alone meanwhile, whatever earlier runs and commands, one of
\* them failing, have left behind (cli_session_index.main).
RunIndexesLive ==
    [][\A p \in Procs :
         (CountGuard(p) \/ FetchBatch(p)) /\ run[p].cmd = "session-index"
         /\ run'[p].phase = "idle" =>
            \A s \in run[p].quiet \ run[p].excluded :
               live[s] # Absent /\ ~CutSidecar(s, live[s]) => SearchableWhole(s)]_vars

\* Once nothing changes any more, every session that is live and not excluded
\* becomes and stays searchable; only what a cut sidecar lacks is missing.
CatchesUp ==
    <>[](\A s \in Sessions \ excluded :
            live[s] # Absent /\ ~CutSidecar(s, live[s]) => SearchableWhole(s))

=============================================================================
