# A verification project for rekol

rekol keeps a person's long-term memory as markdown files in a git repository
and makes it searchable: a *curated* index of those files, a *session* index of
past conversations, an archive of their transcripts, a task ledger, and the
hooks that keep all of it current. Nearly every operation is a short-lived
command; what makes the system hard is that dozens of them run beside each other
(hooks fire on every edit, in every open session), share SQLite files, JSON
files and lock files, and may be killed anywhere. These TLA+ modules model
those commands, TLC checks them on small instances, and TLAPS proves the
theorems below for every instance.

Paths below are relative to `src/src/rekol/` unless they start with `src/`.

| File | What it is |
| --- | --- |
| `CuratedIndex.tla` | the curated index and the commands that write and read it |
| `MCCuratedIndex.tla`, `CuratedIndex_*.cfg` | its instances for TLC, six runs |
| `MemoryIndex.tla` | what the curated index promises to those who search it |
| `CuratedIndexHistory.tla`, `MCMemoryIndex.tla` | the refinement of `MemoryIndex` by `CuratedIndex`; its instance for TLC |
| `CuratedIndexProofs.tla` | the inductive invariant, type correctness, ownership of the temp database, the recorded model identity |
| `CuratedIndexFreshness.tla` | the theorems about what rebuilds and updates leave in the index |
| `MemoryIndexProofs.tla` | the proof of the refinement |
| `TranscriptArchive.tla`, `SessionIndex.tla` | operators: what one call does to the archive's files and manifest, and to `sessions.db` |
| `SessionPipeline.tla` | the commands that are composed of them and keep past conversations searchable |
| `MCSessionPipeline.tla`, `SessionPipeline_*.cfg` | its instances for TLC, four runs |
| `SessionPipelineProofs.tla` | the theorems about the archive and the session index |
| `TaskClaims.tla`, `AutoResume.tla` | the task files; the relaunch of frozen sessions, which reads them |
| `PluginSetup.tla`, `ReindexHook.tla` | the two shell hooks that exclude one another |
| `MCBackground.tla`, `Background.cfg` | these four for TLC, one run |
| `AutoResumeProofs.tla`, `PluginSetupProofs.tla` | the theorems about ticks and task files, and about the two hooks |
| `BootstrapRun.tla`, `Migration.tla`, `IncludeIndexer.tla` | three jobs that a user starts or a session-index repeats |
| `LegacyImport.tla` | what a migration promises; `Migration` refines it |
| `Chunker.tla`, `SearchRanking.tla` | two algorithms: cutting a file, ranking what a search finds |
| `MCWorkflows.tla`, `Workflows.cfg` | these five for TLC, one run |
| `MigrationProofs.tla` | the theorems about a migration, its refinement among them |
| `WorkflowsProofs.tla` | the theorems about bootstrap runs and included directories |
| `PROJECT.json` | components, runs, mutants, source map, hazards, findings, theorems |

## Inventory

For each component: the state it keeps, its operations, how it meets the others,
what is hard, and what must hold.

**Curated memory index** (`store.py`, `indexer.py`, `safety.py`). State: the
SQLite file `index.db` (files with their hashes, chunks, vectors, a schema
version and the identity of the embedding model), `index.db.tmp-*` while a
rebuild runs, `INDEX.md`, the skip manifest. Operations: `Indexer.rebuild`
(a side-built database, renamed over the live one), `Indexer.update` (by hash),
`init_schema`, the schema and identity guards, `search`. Hard: a rename under
readers that hold the old inode; a crash in mid-rebuild; files that change
during a walk; two models. Must hold: a rebuild or an update leaves an index that
reflects every file left alone; nothing indexed goes backwards; vectors of two
models never meet in a comparison; a test embedder never destroys real vectors.

**Index write lock** (`index_lock.py`). State: an flock on `.index-write.lock`.
Blocking for a rebuild, non-blocking for an update and for a search that heals
an old index. Hard: who does *not* take it (capture, confirm, flag-suspect,
invalidate), and what was opened before it was taken. Must hold: mutual exclusion
of the walks, release on every exit, even by SIGKILL.

**Commands over the curated index** (`cli_index.py`, `cli_search.py`,
`cli_capture.py`, `cli_confidence.py`, `cli_invalidate.py`, `cli_common.py`).
No state of their own; each is an order of guards, file writes and index calls.
Hard: the order of open, guard, lock and write differs from command to command.

**Memory file format** (`model.py`). `parse_file` accepts or rejects a file. It
reads the file again after its hash was taken.

**Chunker, embeddings, ranking, combined search** (`chunker.py`,
`embeddings.py`, `ranking.py`, `search_combined.py`). Pure functions: splitting a
body by headings and size, layer-dependent decay of a score, merging session hits.
Must hold: no text lost by the split, every chunk within its bound, a decay that
never reorders equal ages.

**Transcript archive** (`sessions/archive.py`, `cli_archive.py`). State: a tree of
copied JSONL transcripts, divergence sidecars, `.manifest.json`, the marker
`.backfilled-from-index`. Operations: sync (copy when newer, keep a sidecar when
the live file is no longer an extension of the archived one, remove what became
excluded), backfill from the index, prune. Hard: copies that are not atomic, a
manifest loaded and saved whole, a marker written before the work it marks. Must
hold: no archived line is ever lost to a sync; a faithful transcript replaces a
reconstructed one, never the reverse.

**Session index** (`sessions/store.py`, `sessions/ingest.py`,
`cli_session_index.py`). State: `sessions.db` (messages, vectors, one row per
file with mtime and size). Operations: ingest with a skip by mtime and size,
re-embedding of what lacks a vector, model guards. Hard: the stat is taken
before the read, a repair decided by comparing two counts. Must hold: an appended
line is eventually indexed; every message eventually has its vector.

**Forget** (`cli_invalidate.py`). Deletes a session from the index, then from the
archive. Hard: a session-index run between the two brings the session back.

**Include scope** (`include_scope.py`, `include_indexer.py`,
`include_coverage.py`, `docs_convert/`). State: a marker per included directory
(a hash of its listing), converted documents under a prefix that is deleted and
rewritten. Hard: the hash is taken before the conversion and recorded after it.
Must hold: a directory reported current is converted as it is on disk.

**Bootstrap run** (`bootstrap.py`, `bootstrap_state.py`, `cli_bootstrap.py`).
State: a checkpoint file, one review file per batch, the always-layer section of
`REKOL.md`. Operations: plan, next, mark done, reset, promote. Hard: a
checkpoint written before the files it lists, a read-modify-write by several
sessions. Must hold: no batch lost, no batch done twice, the budget respected.

**Task layer** (`tasks.py`, `cli_task.py`) and **auto-resume** (`resume.py`,
`cli_resume.py`). State: a markdown file per task; the freeze journal and the
launch ledger. Operations: create (O_EXCL), compare-and-swap update and claim;
record a freeze, tick. Hard: the compare and the replace are two steps;
overlapping ticks. Must hold: one owner per task, one launch per freeze.

**Hooks** (`src/hooks/auto-reindex.sh`, `src/plugin/hooks/bootstrap`,
`cli_hooks.py`). State: a mkdir mutex with a pid file, a setup lock with pid and
age, markers, counters per session. Hard: stale locks reclaimed by pid or age.
Must hold: one reindex at a time, and no lock stays for ever.

**Legacy migration** (`migrate/`, `cli_migrate.py`). State: legacy files, the
imported memory files, the archive directory, the retirement pointer. Hard: a crash
between write and move; a retirement that is for good. Must hold: retired only when
every discovered file was imported; no file imported twice.

**Release check** (`release.py`, `update.py`). State: a JSON file with the last
check and the dismissed versions, written back whole after a network fetch.

**Configuration** (`config.py`), **onboarding** (`cli_init.py`, `onboarding/`),
**propose and review** (`corpus_propose.py`, `cli_review.py`, ...), **doctor**
(`cli_doctor.py`), **installer** (`src/install.sh`, `src/uninstall.sh`):
sequential, interactive or read-only. `PROJECT.json` says for each why it is not
modelled or what of it is planned.

`PROJECT.json` lists under "hazards" every place where these components meet an
interleaving, a crash or a stale value, at its line.

## The curated index: `CuratedIndex`

### State

| Variable | In the code |
| --- | --- |
| `disk` | the markdown files under the memory root; a content, or `Absent` |
| `db` | the committed state of every database file that exists (an *inode*): schema, identity stamp, one row per file with the hash, the parsed content and the model of its vectors |
| `live` | the inode that the name `index.db` refers to |
| `temps` | the inodes that names `index.db.tmp-*` refer to |
| `lock` | the holder of the flock on `.index-write.lock` |
| `run` | per process slot: the command, its phase, its connection, the file in hand and what it has read so far |
| `report` | `INDEX.md` and the skip manifest |
| `edits`, `faults` | how much of the bounds `MaxEdits`, `MaxFaults` is used |

`run[p].quiet` is a history variable: the files that nobody has touched since
`p` began its walk. Properties read it; no guard does.

A rename over `index.db` moves `live` only, so a command that opened the file
before keeps reading and writing the old inode; that is why databases are inodes.

### Actions

A command is a chain of actions; between any two of them others may run, a file
may change and the process may be killed.

| Command | Actions, in order |
| --- | --- |
| `index update` | `OpenForUpdate`, `LockForUpdate` or `Busy`, the walk, `Sweep`, `WriteReport` |
| `index rebuild` | `OpenForRebuild`, `LockForRebuild`, the walk, `Swap`, `WriteReport` |
| `search` | `OpenForSearch`, (on an old schema `LockForRebuild` or `Busy`, the walk, `Swap`, `WriteReport`), `Answer` |
| `capture` | `OpenForCapture`, `RefuseCapture` or `WriteCapture`, `UpdateUnlocked`, the walk, `Sweep`, `WriteReport` |
| `confirm`, `flag-suspect`, `invalidate FILE` | `RewriteFrontmatter`, `OpenForReindex` or `RefuseReindex`, `UpdateUnlocked`, the walk, `Sweep`, `WriteReport` |

The walk repeats `HashFile`, `ParseFile`, `CommitFile` for each listed file;
`FailEmbedding` and `Abort` are its error paths, `Kill` is SIGKILL or power
loss. `Edit` is everything else that changes a memory file (an editor, a git
pull).

### Abstractions

- A content stands for the bytes of a file and is its own hash (sha-256 does not
  collide). Chunks and vectors are the content and the model they came from.
- A SQLite transaction is one step; an uncommitted one leaves nothing.
- A walk lists its files once and visits them in order. The code lists one
  layer directory after another; the model is the case of one directory.
- Opening the store, `init_schema` and the guards are one step; so are the guard of
  the swap, `os.replace`, the removal of the old `-wal` and `-shm` files and the
  reattachment. `INDEX.md` and the manifest are written in one step.
- A command that its guards turn away at once changes nothing and does not
  appear as an action.
- `Init` is what an earlier version may leave: no index, one with an old schema
  (with or without an identity), or a current one that is up to date.

### What it implements: `MemoryIndex`

`MemoryIndex` knows no databases, locks, phases or models' identities: there are the memory
files, one index, commands that walk the files, and searches. A walking command may enter
or remove one file (`Write`) or replace the whole index (`Publish`). Either must be `Justified`: the hash
and the text of an entry are contents that the file has held since the walk began, and a file
without an entry is outside the indexed directories, or was absent or invalid at some
moment of the walk. A search starts from the index of that moment (`BeginSearch`); what is
published later does not reach it, what is written may. So a search never reads a half-built
index, an untouched file gets the entry it should have or keeps the one it has, and what
two commands do to each other's entries is limited to what each of them saw on disk.

What the files held during a walk is in no variable of `CuratedIndex`. `CuratedIndexHistory`
adds it as a history variable, `seen`, which every step extends (`Record`) and no step
reads. Under the mapping the index is the rows of the live database, and the view of a
search is the rows of the database it has open; filling a temp database is a stutter,
`Swap` is `Publish`, and an unlocked update that works on a database that a rebuild has
replaced writes to former views only, which `MemoryIndex` allows: that updates may be lost is the
subject of `index_lost_update`. `index_locked` checks the refinement, `ImplementsMemoryIndex`, on
three files with two commands that take the lock; the theorem `IndexKeepsPromise` has it
for every instance, also with the commands that take no lock and with kills.

### Runs

| Run | Question | Instance |
| --- | --- | --- |
| `index_safety` | Does a rebuild own its temp database, and does what it swaps in reflect every file left alone, with captures and confirms that ignore the lock and a kill at any step? | 2 files, two valid contents and an invalid one, 2 processes, 1 edit, 1 fault |
| `index_locked` | When every writer takes the lock: is an updated store current, does an entry ever go back, does the stamp name the model of the vectors, is a search answered from its own model, is the skip banner honest, do real vectors survive a test embedder? Does the index change only as `MemoryIndex` allows? | 3 files, one outside the walk, a real and a test model, 1 edit |
| `index_live` | Does every lock holder let go, killed or not, and does the index catch up once the disk is quiet? | 1 file, 2 contents, 1 edit, 1 fault, confirm without the lock |
| `index_lost_update` | Does a finished update reach the index that searches read? **Violated.** | 1 file, 2 edits |
| `index_identity_drift` | Does the stamp still name the model when a capture runs under a changed configuration? **Violated.** | 1 file, 2 models |
| `index_skipped_edit` | Do equal hashes mean equal chunks? **Violated.** | 1 file, 2 contents, 2 edits |

Deadlock is checked in every run: there is always a command to start.

*Why these bounds are enough.* Two processes are what every race here needs: one
that holds the lock or a connection, one that overtakes it; a kill frees the
slot for a third command. Two contents tell stale from current, three files put a
file behind, at and ahead of a walk and one outside it. A process refers to at most two
inodes and the names to two more, so four inodes never run out with two processes (a rebuild
that holds two excludes another). One edit in the runs that pass is one change at any
point of the interleaving; the runs with two edits are those whose violation needs a
change and its reversal. Processes are interchangeable: the safety runs use
symmetry, the liveness run does not.

### What the violations show

- `index_lost_update`. `index_lock.py:3-7` promises that the lock serializes the
  writers so that "a rebuild's atomic temp-DB swap can never discard a
  concurrent update's commit". `index update` opens `index.db` before it
  takes the lock and never looks again: if a rebuild swaps in between, the
  update commits to the unlinked file and reports success. The next update
  repairs the index (`Converges` holds), so what is lost is the promise for
  this one.
- `index_identity_drift`. `store.py:549-552` says that the stamp "always names
  the model that actually produced the on-disk vectors". `capture`, `confirm`,
  `flag-suspect` and `invalidate` open the store without an identity and do not check it.
- `index_skipped_edit`. `indexer.py:178-180` says "the hash never advances ahead
  of the chunks". The hash and the chunks come from two reads of the file; an edit
  between them, then a revert, leaves chunks of one content under the
  hash of the other, and every later update skips the file.

### Fairness

`Fairness` has two parts. `WF_vars(Step(p))`: the operating system runs a
started command to its next step; no step of a command waits on anything but the
lock. `SF_vars(\E p, m : OpenForUpdate(p, m))`: the editor hook
(`src/hooks/auto-reindex.sh`) starts `index update` on each edit a session makes,
again and again, and the commands in the slots come and go, so a start that is possible again and again
happens. It is strong because slots fill and empty. Nothing is assumed of edits, kills, captures, rebuilds or
searches. `Converges` is a statement about a machine where the hook keeps
firing, not about one left alone after the last edit.

## Past conversations: `SessionPipeline`

The archive and the session index share no lock and no transaction; what ties
them together is the order of calls inside each command. `TranscriptArchive` and
`SessionIndex` hold what one call does, `SessionPipeline` holds the order and
everything that may come between two calls.

| Variable | In the code |
| --- | --- |
| `live`, `past` | the transcript of each session under `~/.claude/projects`, and what it has been before |
| `excluded` | the sessions that `exclude_paths` and `.rekolignore` match |
| `files` | the archived copies: canonical and divergence sidecars; faithful or rebuilt from the index |
| `manifest`, `marker` | `.manifest.json` and `.backfilled-from-index` |
| `index` | `sessions.db`: messages with the path they were first read from, vectors, `files_seen`, the next rowid; `unpurged` is history, the vectors that a forget could not delete |
| `run` | per process slot the command, its phase and what it has read |

| Command | Actions, in order |
| --- | --- |
| `session-index` (`--no-embed`, `--full`) | `StartSync`, per transcript `ExamineTranscript`, `OpenCopy`, `CopyTranscript`, then `FinishSync`, `SaveManifest`, `OpenStore`, perhaps `BackfillSession`..., `FinishBackfill`, `SaveManifest`; per file `StatFile`, `IngestRows`, `RecordSeen`; `CountGuard`, `FetchBatch`, `EmbedBatch` |
| `archive` | the sync alone |
| `archive --from-index` | `StartBackfill`, `BackfillSession`..., `FinishBackfill`, `SaveManifest` |
| `archive --prune --clear` | `StartPrune`, `SaveManifest` |
| `invalidate SESSION` | `StartForget`, `ForgetMessages`, `UnlinkSession`, `SaveManifest` |

`WriteTranscript`, `RotateTranscript` and `ChangeExclude` are Claude Code and the
user, at any moment. `quiet` and `kept` are history that only properties read. Of what may
go wrong (`Faults`),

- `torn` is a full disk in the middle of a copy (`TornCopy`), `degraded` the soft failures
  (`DegradeSync`, `DegradeBackfill`), `kill` is SIGKILL or power loss (`Kill`);
- `stuck` is a file that cannot be unlinked. The sweep of excluded sessions swallows the error, keeps
  the entry and goes on (`archive.py:385-389`; `FinishSync`), a prune counts it (`StartPrune`), a forget
  ends with it after it has removed others, its manifest unsaved (`StuckForget`);
- `unloaded` is sqlite-vec that does not load in a forget: the DELETE of the vectors fails, the command
  warns and deletes the messages all the same (`cli_invalidate.py:226-237`;
  `UnpurgedDeleteSession`). The extension is assumed to be there again for the next command, and to
  be missing nowhere else: what a store without it does (vectors in `messages_vec_numpy`) is not modelled.

*Abstractions.* A transcript is a sequence of rows; the content of a file stands
for its mtime and size, so a transcript never returns to what it was (`past`).
A rewrite of equal size within the same second, which the code cannot tell from no
change either, is left out. Opening a copy, which truncates the target, and
finishing it are two steps. A torn copy ends at the end of a row: that half a row is not valid JSON and
is skipped is the same, but a cut inside a multi-byte character, which makes the strict
UTF-8 read of `ingest.py:105` raise and end every session-index until the transcript is copied again, is
left out. Unlinking the files of one command is one step. One batch
embeds all that is missing. Reports, path sanitizing, the guards of the model and
of the vector width, the full-text index and `archive_enabled: false` are left out.

| Run | Question | Instance |
| --- | --- | --- |
| `sessions_commands` | In any sequence of all the commands, interrupted anywhere: does a sync lose a row or miss a transcript, does an excluded session get in, does a forget leave anything behind, do vectors stay with their messages? | 1 session, three transcripts (one extends another, one replaces them), 1 process, 2 changes, 1 fault |
| `sessions_live` | Is a skipped file indexed, does a completed run leave every transcript searchable, and does the index catch up? | as above, `session-index` and `--no-embed` |
| `sessions_rediscovery` | Does a session-index after a forget index a transcript that is still live? **Violated.** | 1 session, growing transcript, 1 degraded run |
| `sessions_parallel` | Is a skipped file indexed when two session-index runs overlap? **Violated.** | 2 processes, 1 change, no fault |

*Bounds.* No command of these relates one session to another, save by the manifest
and the list of files that are read and written whole, so one session shows what happens to
it; with one process the manifest of others cannot be lost. Three transcripts give every
case of `archive_file`: new, unchanged, appended, diverged, rebuilt. Two
changes are a rewrite and an exclusion, a rotation or a forget; the fault
may come before, between or after them. Commands are not bounded. `sessions_commands` has every kind of
fault (3,747,710 distinct states), `sessions_live` all but the one of a forget (242,776).

What the violations show:

- `sessions_rediscovery`. Messages keep the path they were first read from, and
  forget clears `files_seen` only for those paths (`cli_invalidate.py:220-227`). A
  session indexed from its live path first (in a degraded run, or before the
  archive existed) and from the archive later keeps the archived path as seen. If
  the live transcript is still there, the next session-index archives it again,
  with the same mtime and size, and skips it: it is back in the archive but
  not searchable, where `cli_invalidate.py:60-61` says it is re-discovered.
- `sessions_parallel`. `cli_session_index.py:280-284` does without a lock because
  the archive consists of "idempotent flat files". A second run that copies the
  same transcript again empties the file between the first run's stat and its
  read and then restores the very mtime and size that the first one records.

Five exceptions are part of the properties because the code needs them, and TLC finds
the violation when one is dropped. A sidecar cut short by a kill or a full
disk is never copied again (`CutSidecar`; `archive.py:288` only asks whether it
exists). A transcript compacted between the prefix test and the copy overwrites a longer
version (`CopyKeepsRows` excludes it). And a rebuilt file is replaced by
whatever transcript is live, although one that was compacted since need not be the superset
that `archive.py:43-48` assumes. An excluded file that the sync could not remove is ingested by
the same run, and by every later one until it can be removed; nothing reports it (`archive.py:374-375`: "counted
nowhere — the next sync retries"). `ExcludedNotIngested` is about the sessions that are `quiet`, and
such a file ends that of its session for this run. And vectors without messages, which a forget without sqlite-vec leaves, may make the counts agree
while a later message has none: the self-heal then skips it for good. `store.py:380-382` calls
embeddings "never orphaned: messages are never deleted here". `VectorsHaveMessages` says that nothing
else leaves such a vector, `RepairIsComplete` that nothing else misleads the comparison.

One more case needs two faults, so the runs, which allow one, do not contain it. A prune
that dies before it saves the manifest (`archive.py:677-684`) leaves an entry without
its file; a sync that then fails after it has truncated the new copy leaves an empty
file under the old entry, which has the mtime and size of the live transcript. Every later
sync skips it (`archive.py:250-257`), although `archive.py:461-462` says that "the next
successful sync catches it (copy-if-changed is idempotent)". With `MaxFaults = 2`, the
commands `archive` and `prune` and the faults `kill` and `torn`, TLC finds
`SyncArchivesLive` violated; the theorem about it therefore assumes one fault.

*Fairness.* `WF_vars(Step(p))` as above; strong fairness of starting `session-index`, which the
SessionEnd hook (`src/hooks/sessionend-snippet.json`) runs whenever a session
ends, strong because the only slot is taken and freed again. Nothing is assumed of
faults, transcripts or other commands.

## Behind a session: `TaskClaims`, `AutoResume`, `PluginSetup`, `ReindexHook`

Four mechanisms that nobody watches while they work. None of them shares a lock with another;
`AutoResume` reads the task files of `TaskClaims`, which it extends.

**`TaskClaims`.** `tasks` holds each name's file, `writers` the command that each
process runs. `task add` is `BeginAdd`, `OpenTask` (the first free name, created with
`O_EXCL`, empty), `FillTask`. `start`, `done` and `block` are `BeginUpdate`, then up
to three times `ReadTask` (the bytes that are hashed), `ParseTask` (a second read), `CompareTask`
(a third), and `ReplaceTask`. `UpdatesCompose` says what this is worth: one other write
before the comparison, wherever it falls, is seen. `others` and `late` record the two
cases in which a write is undone: it comes between the comparison and the replacement,
or two of them restore the hash around the second read.

**`AutoResume`.** `journal` and `ledger` are the two JSONL files, `enabled` the
marker, `hook` the StopFailure entry in `settings.json`. A tick is `CheckMarker`,
`ReadJournal`, `ReadLedger`, `ChooseFreeze` (newest first, one per tick; the claim
goes to the ledger before the launch) or `NothingToResume`, `Launch`, `RecordOutcome`.
`enable` is `EnableMarker`, `RegisterHook`; `disable` is `DisableMarker`,
`ClearJournal`, `RemoveHook`. `Freeze` and `Age` are Claude Code and the clock, `TaskCommand`
a step of `TaskClaims`. A launch by a tick that began before the event that should have stopped it
is possible, and the properties say so: each is about ticks that begin later (`launchedBefore`,
`forgotten`, `parked` are what the tick could have known).

**`PluginSetup`.** `hasFlock`, `flocked` and `lockdir` are the locks, `partial`, `failed`
and `venv` the markers and the environment. A session is `StartSession`; `TakeFlock`, or `FlockTimeout`
and then the directory. `MakeDir` takes it or finds it taken; a waiter reads the pid (`ReadOwner`), then the time
(`ReadStarted`), then calls `kill -0` and compares (`Judge`), and clears whatever directory is there
by then (`Reap`) or waits a turn (`Wait`). The owner creates the pid file, empty, and writes it,
and likewise the file of the time (`CreatePid`, `WritePid`, `CreateStarted`,
`WriteStarted`); then `CheckReady`, `TouchPartial`, `RemoveFailed`, `MakeVenv`,
`BeginInstall`, `EndInstall`, `RemovePartial`, `ExitHook`. `FailBuild` is every call of
`fail`, `LockGrowsOld` the clock, `ClearFailure` the user's retry. `waits` counts turns of
the waiting loop, `MaxWaits` stands for `LOCK_MAX_AGE`. In a hook, `owner` is the pid it has read, which becomes
`Exited` when that process ends, and `same` says whether the directory is still the one that it read the owner
from or has its file open in. Left out: `rm -rf` is one step; two owners that write one pid file at once
leave the text of one of them; a pip that outlives its killed session.

**`ReindexHook`.** `FireHook` is the hook after an edit; its main shell ends at once
(`ReturnToTool`), its background shell takes the flock (`TryFlock`) or the directory
(`TryMkdir`, `InspectMutex`, `ReclaimMutex`, `RetryMkdir`, `RecordHolder`), debounces and
updates (`StartUpdate`, `EndUpdate`). `owed` is history: an edit after which no update
has started. `rekol index update` itself is in `CuratedIndex`; two of them at once
are harmless there, as the index has its own lock.

Run `background` (`MCBackground`): a behaviour exercises one mechanism while the others
rest, because they share nothing; the parts `freezes` and `ticks` are both of `AutoResume` and
`TaskClaims` together.

| Property | What TLC shows |
| --- | --- |
| `UpdatesCompose` | an update replaces what is there, not an older version, if one other write fell before its comparison |
| `OneLaunchPerFreeze` | no tick launches a freeze that had been launched when it began, whichever tick was killed |
| `DisableForgetsFreezes` | no tick that begins after a disable launches what was journaled before it |
| `ParkedNotResumed` | a session whose task is done or blocked before a tick begins is not launched by it |
| `FreezeIsServed` | a freeze that is due, journaled and holds a task does not wait for ever |
| `OneBuilder` | two sessions build at once only if flock timed out or a directory was cleared that was misjudged: its pid file still empty, its owner read before another took over, or only old; a kill alone never does it |
| `ReadyMeansBuilt` | what passes for ready is complete unless two sessions built at once |
| `HookReturns` | every session gets past the setup hook, whatever became of the lock |
| `UpdatesAreSerial` | where there is flock, two shells never update at once, whoever was killed |
| `EditIsFollowed` | an update starts after every edit, also past a killed holder |

*Bounds.* Two processes of each kind are a race, and a kill or a limit reached makes room for a third turn:
two writers and four task commands; two tickers, of which only one is scheduled, so that the fair
one has to serve what the other left; two freezes (a newer one before an older one); two toggles
(off and on again); two sessions with four starts, a waiting limit of one turn; two shells with four edits; one kill
for each part. `freezes` has one ticker, both freezes, a kill and one toggle; `ticks` has both tickers, one
real freeze and both toggles: together they are every pair of these. The run has 552,555 distinct states.
`CHECK_DEADLOCK FALSE`, because edits, starts and commands run out.

*Fairness.* `ResumeFairness`: a scheduled ticker keeps running (the plist that `enable`
writes, `cli_resume.py:213-253`) and its process is not starved. `SetupFairness` and
`ReindexFairness`: the operating system runs the steps of a hook and of its background
shell; each waits on nothing but what the loop itself bounds. Nothing is assumed of kills,
edits, task commands, toggles or the clock.

What the models found, and the properties except by name:

- `resume.py:278-279` says that overlapping ticks "can't double-fire". Both may have read
  the ledger before either appends, and then both launch (`OneLaunchPerFreeze`).
- `src/hooks/auto-reindex.sh:116-118` says that a dead pid means a dead holder. `$$` is the pid of the
  main shell, which exits at once, so a running reindex is taken for dead and two run together. A directory whose
  maker was killed before it wrote the pid is never cleared (`Wedged`): later
  edits are not indexed by the hook.
  Two cases are outside `owed`: an edit made while an update is already reading, which
  the hook leaves to that update although it may have passed the file, and one whose
  shell is killed when no other shell is to take the lock.
- `src/plugin/hooks/bootstrap:71-72` calls the setup single-writer: "the loser of the race waits for the winner
  instead of building a competing venv". With flock, until it times out, it is. With the directory there are
  three ways in which a live lock is cleared (`Misjudged`). A waiter that reads the pid file
  after it was created and before it was written gets the empty text, on which `kill -0` fails
  (line 106; `|| echo 0` is for a missing file only). A waiter that has read the pid of a dead owner clears
  the lock of the session that took over meanwhile (lines 87-92). A setup that outlives the age
  limit loses its lock, and its EXIT trap then removes the next holder's.
- A waiter that reads the empty file of the time ends there, as the arithmetic of line 89 fails, with neither
  report nor `.failed` marker, although lines 77-81 want a broken state to fail safe. It is a return for `HookReturns`.

## Jobs and algorithms: `BootstrapRun`, `Migration`, `IncludeIndexer`, `Chunker`, `SearchRanking`

**`BootstrapRun`.** `disk` has the checkpoint and `REKOL.md`, each with the temporary file
that replaces it and whose name is fixed; `reviews` the review files. `PlanRun`,
`MarkBatchDone` and `Promote` are the three commands that write; each goes on with `OpenTemp`,
`FillTemp`, `RenameTemp` or `FailRename`, and the planner with `WriteReview` and the next
save. A descriptor follows its file when another command renames it (`fd`); of two that write one
inode from its beginning the shorter text is taken to leave no tail of the longer. `raced`
and `cut` are history: the files that two commands were changing at once, and the
planners that did not get to their end.

**`Migration`.** `legacy`, `archived` and `home` are the three directories, `marked` and
`pointer` the retirement, `migrator` the run. `StartMigration`; for each file `SkipDuplicate`,
or `OpenTarget` and `WriteTarget`, then `MoveOriginal`; `FinishFiles`, `Mark`,
`MovePointer`. `FailClassify`, `FailWrite`, `FailMove` are its three error paths,
`KillMigration` comes anywhere. A file body is its own hash; the
classifier chooses any name, the suffix is the code's. Left out: a `MEMORY.md` that an earlier version
left as a tombstone, which counts as retired (`migrate/discover.py:61-63`).

**`IncludeIndexer`.** `tree` is an included directory, `scope` the configuration file,
`marker` the recorded manifest, `transcripts` the synthetic sessions. A run is `LoadDeny`,
`CompareManifest`, `WalkAgain`, `ReadFile`..., `EmptyPrefix`, `WriteGroup`..., `WriteMarker`; an
`include` command is `LoadScope`, `TruncateScope`, `PersistScope`. `EditTree` is the user, `CutOff` a kill or an
error that the caller swallows. A manifest is the set of (path, stamp) pairs; a stamp is
the (mtime, size) pair, which an edit within a second need not change.

**`Chunker`** and **`SearchRanking`** are functions, evaluated in one step over every small input. A
body is a sequence of lines of which only the kind and the size matter; a chunk has
paragraphs, bytes and the lines that it claims. A search has the chunks and
messages with small scores; ties come from an index in any order and from a sort
of the code in the order they had.

Run `workflows` (`MCWorkflows`), again one part in each behaviour:

| Property | What TLC shows |
| --- | --- |
| `ProgressKept` | no command but `--reset` takes a completed batch or the plan away, wherever it is killed, while checkpoint commands do not overlap |
| `PlanIsOnDisk` | the checkpoint counts no review file that is missing, and a planned batch lacks one only if its planner still runs or was cut off |
| `AlwaysOnKept` | `REKOL.md` keeps its budget even when promotions overlap, and every line when they do not |
| `ImportedOnce` | a body is imported once however often a migration is interrupted, except after a failed move |
| `ImplementsImport` | a migration implements `LegacyImport`: retired only when all that was found is imported, nothing lost |
| `CurrentIsConverted` | a directory that counts as current has transcripts of exactly the files in scope |
| `ChunksPartition` | the chunks partition the text in order, under the right headings, within the limit, with line numbers that do not overlap |
| `SearchKeepsBest` | over-fetching makes up for filtering up to its factor, and cutting before merging loses nothing |

*Bounds.* Two bootstrap commands of three in all, two batches, a wide and a narrow scope, a
budget of two lines of which one is hand-written, one kill: a plan, a mark and a reset may interleave in every way. Three legacy
files of which two have equal bodies, two names, any two faults. Two files in two groups, two runs,
one editing command at a time, one edit of the tree, two of the scope, three conversions, one cut; `convert` has
them one run at a time, `overlap` two runs at once. Bodies of up to six lines of four kinds
with limits of three and six bytes: a heading, two paragraphs and the blank lines
between them in every order, sizes below, at and above a limit. Three chunks, three messages, two
scores and two boosts, a fetch of two at least: one more than is fetched. `CHECK_DEADLOCK FALSE`, because
jobs end. No liveness is claimed: nothing restarts these jobs but the user.

What the models found, and the properties except by name:

- Two `--mark-done` at once lose a batch, two promotions a line (`raced`): the
  whole file is loaded and replaced, and the temporary name is shared.
- A planner that is killed leaves planned batches without a review file, and `--next` prints
  their path (`cut`). `bootstrap_state.py:172-180` tells the user of a corrupt
  checkpoint to pass `--reset`, but `cli_bootstrap.py:398` loads the checkpoint before it
  looks at the flag, so `--reset` is refused too (`MayPlan`).
- A move to the archive that fails leaves a body that this run does not remember: an equal
  file later in the same run is imported again (`failedMoves`).
- `include_indexer.py:154-155` says that after a crash "the next run re-converts". It does unless the
  scope returns meanwhile to what the old marker recorded: then the transcripts, which
  the crashed run removed, are taken for current (`doubtful`). So are an edit in
  the same second that keeps the size, and an edit or an unreadable file during a run.
- `config.py:444` truncates the configuration in place: a session-index at that moment reads the
  defaults and includes nothing; the marker survives, so nothing false is recorded.
- `chunker.py:190` does not count the empty lines it puts between paragraphs, so a chunk may
  exceed the limit by them; a `# x` inside a code fence starts a section.
- When more chunks are filtered than the over-fetch adds, a live chunk is missing although
  the answer is not full (`Crowded`).

## What is proved

Each module names what it assumes of its constants (`ConstantsAssumption`, `ArchiveAssumption`,
`BootstrapAssumption`, ...), and TLC evaluates it in every run. The assumptions give types,
say which sets are finite, and keep apart what the code keeps apart: no hash is the missing
hash, no checkpoint is a file that does not parse (`ContentAssumption`), no manifest is the
absence of one (`MarkerAssumption`), no archived file and no path is `Absent` or `None` (`NamesAssumption`). What a
theorem assumes beyond that stands in its statement. The sets of files, contents, sessions, models and
processes are arbitrary, and so are the bounds; the proofs are not about the small instances.

**The curated index.** `CuratedIndexProofs` proves `Spec => []IndInv`. `TypeOK` is not inductive: that
`CommitFile` writes a well-formed row depends on what the command has in hand
in that phase, and that a swap is harmless depends on whose the temp database
is. `IndInv` adds, for each process, `InHand` (what it holds in each phase),
`LockOK` (a locking command past the lock holds it; a rebuild has a temp database
only while it does) and `TempOK` (that database is the only one, is not live,
and no connection refers to it). The argument for `TempOK` is that a
second rebuild cannot be in its walk because of `LockOK`, so the cleanup of
"stale" databases in `LockForRebuild` finds nobody's work. One lemma per action,
one per way a slot may change (`ExitStep`, `TouchStep`, ...). Results:

- `TypeCorrect`: `Spec => []TypeOK`.
- `TempSafety`: `Spec => []TempIsMine`, with every kind of command running.

Its second part, on the recorded model identity, assumes in addition `Kinds \subseteq Locking`, that only
rebuild, update and search run: with a capture the statements are false, as
`index_identity_drift` shows. Its invariant `IdInv` says that each database,
live, unlinked or half built, is stamped with the model of all its rows (an old
one may lack a stamp), and that a database on which a command works past its
guards bears that command's model. It is needed because the stamp is read when the
store is opened and relied on many steps later. Results:

- `StampSafety`: `Spec => []StampNamesModel`.
- `SearchSafety`: `Spec => []SearchComparesLikeWithLike`.
- `RealVectorSafety`: `Spec => RealVectorsSurvive`, an action property: the
  guard at the swap sees the live index of that moment.

`CuratedIndexFreshness` is about what a finished walk leaves behind. "Up to date" cannot be
read off one state, for a walk decides on a hash and a text that it read some steps
ago; so `FreshInv` adds to `IndInv` what each walk knows of the files that nobody has touched
since it began. `Fresh`: the hash and the text in hand are still those of the file.
`Filled`: a rebuild works on a database that was empty, and the files it has passed are in
it as they are. `Rebuilt`: so is the database it has swapped in, whoever has written to it
since; for a capture, which takes no lock, can only be at work on it if it began
its walk after the swap, and its untouched files contain the rebuild's. That is why
`RebuildIsComplete` needs no assumption on the commands. `CurrentInv` adds the same of an
update (`Current`): the entries it has still to visit are the ones it read at the start. That is true
only under the lock, and the run `index_lost_update` shows what happens when the store is
another one by then. Results:

- `RebuildIsComplete`: `Spec => []RebuildReflectsDisk`, with every kind of command running.
- `UpdateIsComplete`: `Spec => []UpdateReflectsDisk`, if `Kinds \subseteq Locking`.
- `ManifestIsHonest`: `Spec => BannerIsHonest`, if `Kinds \subseteq Locking`.
- `NoEntryGoesBack`: `Spec => NeverBackwards`, if `Kinds \subseteq Locking`.

`MemoryIndexProofs` shows that `CuratedIndex` implements `MemoryIndex`, with every kind of command
running. `HistoryInv` adds to `FreshInv` that the history covers each walk from its beginning
(`Recorded`) and what the walk knows in terms of it (`Noted`): the hash and the text in hand are
among what the file held; what it plans to remove was absent or is outside; what a rebuild has
passed is justified in its own database, so that all of it is when nothing is left to do and it is
swapped in; and a rebuild that reports has the live database open, since nobody else
swaps under the lock, so the search that goes on reads the index of that moment. Every
action is then a step of `MemoryIndex` or a stutter; a step of one slot keeps what the others know
(`OthersNoted`) and what they read (`ReadersKept`), for only inodes that nobody has open are reused. Results:

- `History`: `HistorySpec => []HistoryInv`.
- `IndexKeepsPromise`: `HistorySpec => ImplementsMemoryIndex`, the refinement.

**Past conversations.** `SessionPipelineProofs` has one type invariant, `PipelineTyped`, and
on it one invariant for each question, because the assumptions differ.

- `PipelineIsTyped`: `Spec => []TypeOK`, for any commands, processes and faults.
- `VectorsNameMessages`, `RepairCompletes`: `Spec => []VectorsHaveMessages` and
  `Spec => RepairIsComplete`, under `[]ForgetReadsInPeace`: while a forget has its rowids in hand nobody
  ingests the session or embeds a batch. The invariant is that a batch names messages, that
  a forget has the rowid of every message it will delete (`IdsInHand`), and that only the vectors
  in `unpurged` are without a message. `RepairCompletes` is then a fact on cardinalities: if no vector is
  without a message, equal counts mean that none is missing. It says so of a comparison
  made while `unpurged` is empty; a repair that gets past the comparison and ends misses nothing in any case.
- `ForgetCompletes`: `Spec => ForgetIsComplete`, under `[]ForgetUndisturbed`: nobody ingests the session
  between the two deletions. The invariant (`Forgotten`) is that the index stays empty of it.
- `CopiesKeepRows`: `Spec => CopyKeepsRows`, under `[][CopyUndisturbed]_vars`: from the examination of a
  transcript to the end of its copy nobody else writes or deletes a file of the session.
  `CopyOverwrites` says that the copy holds what it is about to overwrite.
- `ExcludedStaysOut`: `Spec => ExcludedNotIngested`, under `[]ExcludesAgree`: who writes an archive file
  while another command is past its sync excludes what that one does. After its sync the
  archive is rid of what it excludes, but for sessions of which a file could not be removed (they are no longer
  `quiet`), or it does not read it at all (`Cleaned`); what is excluded is not
  copied (`CopiesWanted`), and only a copy or a backfill adds rows (`WhoArchives`).
- `SkippedIsIndexed`: `Spec => []SkipIsSound`, without forget and under `[][ReadUndisturbed]_vars`: nobody
  else writes or deletes an archived file between its stat and its read. `SeenInv`: what
  is recorded as seen is indexed, or a version of a live transcript that will not return.
  The runs `sessions_parallel` and `sessions_rediscovery` show that both assumptions are needed.

These are about any number of commands at once. No lock enforces the assumptions: each names the
steps of another command that would break the property, and without them TLC finds it
violated with two slots. A command that is alone meets them all (`AloneUndisturbed`). The two
theorems on whole runs are about commands one at a time (`OneAtATime`):

- `SyncsArchive`: `Spec => SyncArchivesLive`, for one fault of any kind.
  `ManifestInv`: an entry with the stat of the live transcript is true of the file, if there is
  one; an entry without its file means that the fault is spent; what the sync has passed is archived.
- `RunsIndexLive`: `Spec => RunIndexesLive`, for one fault and no forget: the
  result that the others lead to. `SearchInv` joins four of their invariants (`SeenInv`,
  `ManifestInv`, `CleanedInv`, `VectorInv`) with two statements on the command at work. `Archived`: after
  its sync the transcripts that nobody touched are in the archive, and neither a backfill
  nor the removal of excluded sessions takes them out. `Ingested`: of the files that ingest reads,
  those of untouched sessions are still to visit, in hand, or indexed; a file that is
  skipped is indexed by `SeenInv`. What is then archived and visited is indexed, and `VectorInv` gives
  it vectors when the counts agree, as without a forget `unpurged` stays empty. A second fault makes it false as it does `SyncArchivesLive`; a
  forget of a session that is still live does so too (`sessions_rediscovery`).

**Behind a session.** `PluginSetupProofs` assumes `SetupAssumption`, no more: any number of sessions,
starts, kills and waits. `ReadyMeansBuilt` rests on `ReadyInv`: with no overlap, whoever is
between `TouchPartial` and `RemovePartial` is alone there, and an incomplete environment keeps its
`.partial` (`PartialInv`), also when its builder is dead. `OneBuilder` needs the locks.
`LockInv` says that until something disturbs them (a flock timeout or a misjudged directory,
which is what `disturbed` records; kills are not among them) the system's lock is in order: `FlockOrder` (who is past
the flock holds it) or `DirOrder`. Of the latter, `OwnerOrder` says that one session at a time owns the
directory, from `mkdir` up to its trap, and that its pid file says so once it is written; an owner
that has not created it looks alive, as `kill -0 0` succeeds. `ReaderOrder` says that a pid that was
read is there still as long as the directory is the same. So what is cleared without being misjudged is
the directory of a process that has ended, and nobody owns it. Results:

- `ReadyIsBuilt`: `SetupSpec => []ReadyMeansBuilt`.
- `SessionsBuildInTurn`: `SetupSpec => []OneBuilder`.
- `SetupIsTyped`: `SetupSpec => []SetupTypeOK`.

Of the reindex hook it proves `ReindexIsTyped` and `FlockedUpdatesExclude`, which is
`ReindexSpec => []UpdatesAreSerial`: where there is flock, whoever is past it holds it
(`FlockExclusion`), so no two shells update at once. Without it they may.

`AutoResumeProofs` needs no assumption: any number of ticks, sessions, freezes, tasks and
writers, every overlap with `enable`, `disable` and task commands. `ResumeInv` says of
each tick (`TickOK`) what it knows in each phase: the ledger names what it has
chosen; once it has read the journal, nothing forgotten before it began is left, once it
has read the ledger, nothing launched before it began; what it is about to launch is of
a session that was seen at work. It is needed because a tick decides on three reads
of three moments. `ForgetInv` adds that what was forgotten never returns to the
journal, `launched \subseteq Already` that the ledger is ahead of the launches. Results:

- `LaunchedOnce`: `ResumeSpec => OneLaunchPerFreeze`.
- `ForgottenForGood`: `ResumeSpec => DisableForgetsFreezes`.
- `ParkedStays`: `ResumeSpec => ParkedNotResumed`.
- `ResumeIsTyped`: `ResumeSpec => []ResumeTypeOK`.

The same module has the theorems about the task files that a tick reads. `TaskInv` says what an update
knows in each phase (`Knows`) by the number of writes that came since it first read:
after none, the file is what it read, twice; after one that came before the comparison, what it
parsed is one of two versions, and the comparison tells which. Results:

- `UpdatesAddUp`: `TaskSpec => UpdatesCompose`, for any number of writers and tasks.
- `TasksAreTyped`: `TaskSpec => []TaskTypeOK`.

**Jobs.** `MigrationProofs` assumes `MigrationAssumption`: any files, bodies, names and any number of
faults. `MigrationInv` strengthens the type invariant by what a run knows: an original
that is archived is imported, what a run has seen is in the memory home, a run
without errors has imported all that is no longer to do, and in the retiring phase
that is everything found. Each step then maps to a step of `LegacyImport` or to a stutter.
`CopiesInv` counts the copies of a body: one at most beyond the failed moves, and no more than
the failed moves while the run has not seen the body, which is why another may be
written; its lemmas are about the cardinality of the set of files that hold the body. Results:

- `MigrationTypeCorrect`: `MigrationSpec => []MigrationTypeOK`.
- `MigrationKeepsPromise`: `MigrationSpec => ImplementsImport`, the refinement.
- `BodiesImportedOnce`: `MigrationSpec => []ImportedOnce`.

`WorkflowsProofs` is about the other two jobs. For `BootstrapRun`, `BootstrapTyped` ties the text that
a command holds, and what its descriptor refers to, to the file it replaces. Three invariants
stand on it. `PlanInv`: every checkpoint, whether in place, in the temporary file or in a
command's hand, counts only review files that exist (`Accounted`), and a planner's count goes with what it
has still to write (`Counting`). `AloneInv`: until a file is `raced`, the command that
replaces it has seen all that is in it, and the temporary file is its own. `BudgetInv`: every text
on its way to `REKOL.md` fits, so the budget holds when promotions interleave as well.
For `IncludeIndexer`, `IncludeInv` says that a trusted marker stands for the directory (its
transcripts are the files in scope as they were when the manifest was taken), and that a
conversion which nobody disturbed has rows of exactly those files. Stamps only grow, so
a manifest that is true again is of texts that have not changed. Results:

- `ProgressIsKept`: `BootstrapSpec => ProgressKept`.
- `PlanOnDisk`: `BootstrapSpec => []PlanIsOnDisk`.
- `AlwaysOnIsKept`: `BootstrapSpec => AlwaysOnKept`.
- `CurrentStaysConverted`: `IncludeSpec => []CurrentIsConverted`.
- `BootstrapIsTyped`, `IncludeIsTyped`: the type invariants.

**Only model-checked.**

- Liveness under fairness is out of the prover's reach: `LockIsReleased`, `Converges`,
  `CatchesUp`, `FreezeIsServed`, `HookReturns`, `EditIsFollowed`.
- `ChunksPartition` and `SearchKeepsBest` fold over sequences; their proof would be an induction over
  data, which the provers cannot do.
- The properties of the runs that expect a violation are false, some of them true under an assumption
  that a theorem states.

## Plan

In this order; each with its runs, and with proofs where it says so. The modules
declare their parameters as constants with a named assumption, have an action
per operation, and use no recursive operator where a theorem is planned.

1. **CuratedIndex** and **MemoryIndex** (done). Its safety properties and the refinement are
   proved.
2. **TranscriptArchive**, **SessionIndex** and **SessionPipeline**, which
   composes them (done for one process, and for two as far as
   `sessions_parallel`). Still to do: two sessions that share the manifest, forget
   beside session-index, the identity guards of `sessions.db`.
3. **BootstrapRun**, **TaskClaims**, **AutoResume**, **ReindexHook**, **PluginSetup**,
   **Migration**, **IncludeIndexer**, **Chunker**, **SearchRanking** (done; the safety properties of the state machines
   are proved).

## Not modelled

- **Release check**: one small JSON file, written back whole after a network fetch. A dismissal made meanwhile is
  lost and the notice shown again; nothing else depends on it.
- **Propose and review**, **doctor**: they read the other components and print. **Session
  hooks**: counters of one session and text for its prompt.
- **Onboarding**, **installer and uninstaller**: one interactive or sequential pass over
  files that no other command writes at that time.
- Within modelled components: embeddings (arithmetic of a model), full-text scoring, text
  extraction, path sanitizing, the rules for single fields of a memory file, the keys
  of the configuration that only choose constants, the text of reports, plists and
  review files. `PROJECT.json` says for each component what is left out.
- Hazards without a property (`PROJECT.json`): captures beside a rebuild or beside an
  editor, the log files of SQLite between a rename and their removal, two syncs or a forget and a
  sync at once, the cut sidecar, the release check. Each has its reason there.
- Hazards whose property excepts a part of them: the note of the hazard says which part the code does get wrong
  or the model leaves out, under the name that the exception has in the module (`raced`, `cut`,
  `doubtful`, `late`, `Misjudged`, `Wedged`, `unpurged`, ...).

## Running

    tlc -workers 2 -config CuratedIndex_safety.cfg MCCuratedIndex
    tlc -workers 2 -config CuratedIndex_locked.cfg MCMemoryIndex
    tlc -workers 2 -config SessionPipeline_commands.cfg MCSessionPipeline
    tlc -workers 2 -config Background.cfg MCBackground
    tlc -workers 2 -config Workflows.cfg MCWorkflows
    tlapm CuratedIndexProofs.tla
    tlapm CuratedIndexFreshness.tla
    tlapm MemoryIndexProofs.tla
    tlapm SessionPipelineProofs.tla
    tlapm AutoResumeProofs.tla
    tlapm PluginSetupProofs.tla
    tlapm MigrationProofs.tla
    tlapm WorkflowsProofs.tla
