------------------------ MODULE SessionPipelineProofs ------------------------
(***************************************************************************)
(* Theorems about SessionPipeline, for every set of sessions, transcripts  *)
(* and processes and any number of edits.                                  *)
(*                                                                         *)
(* Types hold however commands interleave.  The invariants say what a      *)
(* command knows of the archive, the manifest and the index in each phase, *)
(* and since no lock keeps the others away, each theorem says what they    *)
(* must not do meanwhile: ForgetReadsInPeace, ForgetUndisturbed,           *)
(* CopyUndisturbed, ExcludesAgree and ReadUndisturbed, which all hold of a *)
(* command that is alone (AloneUndisturbed).  The last two theorems, on    *)
(* whole runs, are about commands one at a time.                           *)
(***************************************************************************)
EXTENDS SessionPipeline, FiniteSetTheorems, TLAPS

OneAtATime == \A p, q \in Procs : p = q

-----------------------------------------------------------------------------
(* The invariants *)

IsTranscript(f) == f \in File /\ f.rows \in Transcripts /\ f = Faithful(f.rows)

\* What a command has in hand, in the state r of its slot.
InHand(r) ==
    /\ r.phase \in {"copy", "write"} => r.path \in ArchivePaths /\ IsTranscript(r.stat)
    /\ r.phase = "write" => IsTranscript(r.copying)
    /\ r.phase \in {"read", "seen"} => r.path \in IndexedPaths /\ r.stat \in File
    /\ r.phase \in {"forget", "unlink"} => r.session \in Sessions /\ "forget" \in Commands
    /\ \A s \in Sessions : IsFiniteSet(r.texts[s])

PipelineTyped ==
    TypeOK /\ IsFiniteSet(index.messages) /\ \A p \in Procs : InHand(run[p])

MessageIds(d) == {m.id : m \in d.messages}

\* A batch to embed has rowids of messages; a forget has the rowid of every message that
\* it is about to delete.
IdsInHand(p) ==
    /\ run[p].phase = "embed" => run[p].ids \subseteq MessageIds(index)
    /\ run[p].phase = "forget" =>
          {m.id : m \in MessagesOf(index, run[p].session)} \subseteq run[p].ids

VectorInv == PipelineTyped /\ VectorsHaveMessages /\ \A p \in Procs : IdsInHand(p)

\* A forget that has come to the archive has emptied the index of the session.
Forgotten(p) ==
    run[p].phase = "unlink" => MessagesOf(index, run[p].session) = {}

ForgottenInv == PipelineTyped /\ \A p \in Procs : Forgotten(p)

\* What a copy is about to overwrite, or has emptied, is in the transcript.
CopyOverwrites(p) ==
    LET s == SessionOf(run[p].path) IN
    /\ run[p].phase = "copy" /\ run[p].man[s] # Backfill =>
          RowsOf(files[run[p].path]) \subseteq RowsOf(run[p].stat)
    /\ run[p].phase = "write" => RowsOf(files[run[p].path]) = {}
    /\ run[p].phase = "write" /\ run[p].man[s] # Backfill =>
          run[p].kept \subseteq RowsOf(run[p].stat) \union ArchivedRows(files, s)

CopyInv == PipelineTyped /\ \A p \in Procs : CopyOverwrites(p)

\* After the sync, the archive holds nothing of what was and is excluded, and
\* ingest reads live transcripts only where nothing was.
AfterSync == {"save", "open", "backfill", "ingest", "read", "seen"}

Cleaned(p) ==
    /\ run[p].phase # "idle" => run[p].quiet \cap run[p].excluded = run[p].quiet \cap excluded
    /\ run[p].root = Live => run[p].excluded = {}
    /\ run[p].phase \in {"ingest", "read", "seen"} =>
          \A path \in run[p].queue : (path[2] = Live) = (run[p].root = Live)
    /\ run[p].phase = "read" => (run[p].path[2] = Live) = (run[p].root = Live)
    /\ run[p].phase \in AfterSync =>
          \A path \in ArchivePaths :
             SessionOf(path) \in run[p].excluded \cap run[p].quiet =>
                RowsOf(files[path]) = {}

\* What is excluded is not copied.
CopiesWanted(p) ==
    run[p].phase \in {"copy", "write"} => SessionOf(run[p].path) \notin run[p].excluded

CleanedInv == PipelineTyped /\ \A p \in Procs : Cleaned(p) /\ CopiesWanted(p)

\* A version of a live transcript that will not come back.
Bygone(path, f) ==
    /\ path[2] = Live
    /\ f.rows \in past[SessionOf(path)] \ {live[SessionOf(path)], Absent}

Covered(path, f) ==
    Bygone(path, f) \/ TextsOf(f) \subseteq IndexedTexts(index, SessionOf(path))

\* The file in hand is as its stat says until it is read, and then in the index, or was
\* overtaken.
InHandSeen(p) ==
    /\ run[p].phase = "read" =>
          FileAt(run[p].path) = run[p].stat \/ Bygone(run[p].path, run[p].stat)
    /\ run[p].phase = "seen" => Covered(run[p].path, run[p].stat)

\* What was recorded as seen has been read, or was overtaken.
SeenInv ==
    /\ PipelineTyped
    /\ \A s \in Sessions : live[s] \in past[s] \union {Absent}
    /\ \A path \in IndexedPaths :
          index.seen[path] # None => Covered(path, index.seen[path])
    /\ \A p \in Procs : InHandSeen(p)

\* What the manifest says of an archived file is true: a file recorded with the
\* stat of the live transcript holds its rows, and only a fault leaves an entry
\* without its file.
TrueOfFile(man, s) ==
    LET f == files[CanonicalPath(s)] IN
    live[s] # Absent /\ man[s] = live[s] /\ f # Absent => ToSet(live[s]) \subseteq RowsOf(f)

TrueManifest(man, s) ==
    /\ TrueOfFile(man, s)
    /\ files[CanonicalPath(s)] = Absent /\ man[s] # None => faults > 0

Carrying == {"sync", "copy", "write", "backfill", "save"}

Copying(p, s) == run[p].phase \in {"copy", "write"} /\ SessionOf(run[p].path) = s

\* The transcript is archived, but for a sidecar that was cut short.
ArchivedLive(s) == ToSet(live[s]) \subseteq ArchivedRows(files, s) \/ CutSidecar(s, live[s])

\* The manifest and the transcripts name no version that is yet to come.
History(s) ==
    /\ live[s] \in past[s] \union {Absent}
    /\ manifest[s] \in past[s] \union {Backfill, None}

\* The manifest that a command carries is true in every phase but where the copy
\* has emptied the file; the one on disk is true again should the command die.
ManifestKnown(p, s) ==
    /\ run[p].man[s] \in past[s] \union {Backfill, None}
    /\ run[p].phase \notin Carrying => TrueManifest(manifest, s)
    /\ run[p].phase \in Carrying =>
          /\ TrueManifest(run[p].man, s)
             \/ (run[p].phase = "write" /\ run[p].path = CanonicalPath(s))
          /\ faults = 0 => TrueOfFile(manifest, s)
          /\ s \in run[p].todo \/ Copying(p, s) => run[p].man[s] = manifest[s]

\* What a copy of session s knows: of a transcript that has changed since, no
\* version that the manifest may record is live again.
CopyKnown(p, s) ==
    Copying(p, s) =>
       /\ s \notin run[p].todo
       /\ run[p].path \in {CanonicalPath(s), SidecarPath(s, run[p].stat.rows)}
       /\ run[p].stat.rows \in past[s]
       /\ s \in run[p].quiet => run[p].stat.rows = live[s]
       /\ run[p].path = CanonicalPath(s) /\ faults = 0 /\ live[s] # Absent =>
             manifest[s] # live[s]
       /\ run[p].phase = "write" /\ run[p].stat.rows = live[s] =>
             run[p].copying.rows = live[s]

\* What the sync has done, or has still to do.
SyncKnown(p, s) ==
    run[p].phase \in {"sync", "copy", "write"} =>
       (s \in run[p].quiet \ run[p].excluded /\ live[s] # Absent =>
          s \in run[p].todo \/ Copying(p, s) \/ ArchivedLive(s))

ManifestInv ==
    /\ PipelineTyped
    /\ \A s \in Sessions : History(s)
    /\ \A p \in Procs, s \in Sessions :
          ManifestKnown(p, s) /\ CopyKnown(p, s) /\ SyncKnown(p, s)

-----------------------------------------------------------------------------
(* Types *)

\* An idle slot is a typed slot with nothing in hand.
LEMMA IdleRunTyped == IdleRun \in Runs /\ InHand(IdleRun)
BY FS_EmptySet DEF IdleRun, Runs, Phases, InHand, Manifests

\* The rows of a file are finitely many numbers.
LEMMA RowsFinite ==
    ASSUME NEW rows \in Seq(Nat)
    PROVE  ToSet(rows) \subseteq Nat /\ IsFiniteSet(ToSet(rows))
<1>1. IsFiniteSet(1..Len(rows))
  BY FS_Interval
<1>2. rows \in Surjection(1..Len(rows), ToSet(rows))
  BY DEF Surjection, ToSet
<1>3. IsFiniteSet(ToSet(rows))
  BY <1>1, <1>2, FS_Surjection
<1> QED BY <1>3 DEF ToSet

\* So are the texts in it.
LEMMA TextsFinite ==
    ASSUME NEW f \in File \union {Absent}
    PROVE  TextsOf(f) \subseteq Texts /\ IsFiniteSet(TextsOf(f)) /\ RowsOf(f) \subseteq Nat
<1>1. RowsOf(f) \subseteq Nat /\ IsFiniteSet(RowsOf(f))
  BY RowsFinite, FS_EmptySet, NamesAssumption DEF RowsOf, File
<1>2. TextsOf(f) \in SUBSET RowsOf(f)
  BY DEF TextsOf
<1>3. IsFiniteSet(TextsOf(f))
  BY <1>1, <1>2, FS_Subset
<1> QED BY <1>1, <1>3 DEF TextsOf

\* Any finite set of numbers can be put in a sequence.
LEMMA SequenceOfSet ==
    ASSUME NEW S \in SUBSET Nat, IsFiniteSet(S)
    PROVE  SetToSeq(S) \in Seq(Nat)
<1>1. PICK f \in [1..Cardinality(S) -> S] : IsInjective(f)
  BY FS_CardinalityType DEF ExistsBijection, Bijection, Injection, IsInjective
<1>2. SetToSeq(S) \in [1..Cardinality(S) -> S]
  BY <1>1 DEF SetToSeq
<1>3. Cardinality(S) \in Nat
  BY FS_CardinalityType
<1>4. SetToSeq(S) \in [1..Cardinality(S) -> Nat]
  BY <1>2
<1> QED BY <1>3, <1>4

\* What a reader finds is a file or nothing.
LEMMA FileAtTyped ==
    ASSUME TypeOK, NEW path \in IndexedPaths
    PROVE  FileAt(path) \in File \union {Absent}
<1>1. path[1] \in Sessions /\ (path[2] # Live => path \in ArchivePaths)
  BY DEF IndexedPaths, ArchivePaths
<1>2. live[path[1]] # Absent => Faithful(live[path[1]]) \in File
  BY <1>1, ArchiveAssumption DEF TypeOK, Faithful, File
<1> QED BY <1>1, <1>2 DEF FileAt, TypeOK, SessionOf

\* The messages of a session are messages, and as finite.
LEMMA MessagesTyped ==
    ASSUME TypeOK, IsFiniteSet(index.messages), NEW s \in Sessions
    PROVE  /\ MessagesOf(index, s) \subseteq index.messages
           /\ MessagesOf(index, s) \subseteq Message
           /\ IndexedTexts(index, s) \subseteq Texts
           /\ IsFiniteSet(IndexedTexts(index, s))
<1>1. MessagesOf(index, s) \subseteq index.messages /\ index.messages \subseteq Message
  BY DEF MessagesOf, TypeOK, Index
<1>2. IsFiniteSet(MessagesOf(index, s))
  BY <1>1, FS_Subset
<1> DEFINE row == [m \in MessagesOf(index, s) |-> m.row]
<1>3. IsFiniteSet(IndexedTexts(index, s))
  <2>1. row \in Surjection(MessagesOf(index, s), IndexedTexts(index, s))
    BY DEF Surjection, IndexedTexts
  <2> QED BY <1>2, <2>1, FS_Surjection
<1>4. IndexedTexts(index, s) \subseteq Texts
  BY <1>1 DEF IndexedTexts, Message
<1> QED BY <1>1, <1>3, <1>4

\* The transaction of ingest_file keeps the index well formed.
LEMMA IngestTyped ==
    ASSUME NEW d \in Index, IsFiniteSet(d.messages), NEW path \in IndexedPaths, NEW f \in File,
           NEW embed \in BOOLEAN
    PROVE  /\ IngestFile(d, path, f, embed) \in Index
           /\ IsFiniteSet(IngestFile(d, path, f, embed).messages)
<1> DEFINE s   == SessionOf(path)
           new == TextsOf(f) \ IndexedTexts(d, s)
           id  == [r \in new |-> d.next + Cardinality({q \in new : q < r})]
           M(r) == [id |-> id[r], session |-> s, row |-> r, src |-> path]
<1>1. new \subseteq Texts /\ IsFiniteSet(new) /\ new \subseteq Nat
  <2>1. new \in SUBSET TextsOf(f)
    OBVIOUS
  <2> HIDE DEF new
  <2> QED BY <2>1, TextsFinite, FS_Subset, ArchiveAssumption
<1>2. s \in Sessions /\ d.next \in Nat
  BY DEF SessionOf, IndexedPaths, Index
<1>3. id \in [new -> Nat] /\ Cardinality(new) \in Nat
  <2>1. ASSUME NEW r \in new
        PROVE  Cardinality({q \in new : q < r}) \in Nat
    <3>1. {q \in new : q < r} \in SUBSET new
      OBVIOUS
    <3> HIDE DEF new
    <3> QED BY <1>1, <3>1, FS_Subset, FS_CardinalityType
  <2>2. Cardinality(new) \in Nat
    <3> HIDE DEF new
    <3> QED BY <1>1, FS_CardinalityType
  <2> HIDE DEF new
  <2> QED BY <1>2, <2>1, <2>2
<1>4. {M(r) : r \in new} \subseteq Message
  <2> HIDE DEF id, new, s
  <2> QED BY <1>1, <1>2, <1>3 DEF Message
<1>5. IsFiniteSet({M(r) : r \in new})
  <2> DEFINE message == [r \in new |-> M(r)]
  <2> HIDE DEF new, M
  <2>1. message \in Surjection(new, {M(r) : r \in new})
    BY DEF Surjection
  <2> QED BY <1>1, <2>1, FS_Surjection
<1>6. IsFiniteSet(d.messages \union {M(r) : r \in new})
  <2> DEFINE MM == {M(r) : r \in new}
  <2> HIDE DEF MM
  <2>1. IsFiniteSet(MM)
    BY <1>5 DEF MM
  <2>2. IsFiniteSet(d.messages \union MM)
    BY <2>1, FS_Union
  <2> QED BY <2>2 DEF MM
<1>7. {id[r] : r \in new} \subseteq Nat
  <2> HIDE DEF id, new
  <2> QED BY <1>3
<1>8. IngestFile(d, path, f, embed) =
         [d EXCEPT !.messages = @ \union {M(r) : r \in new},
                   !.vectors = IF embed THEN @ \union {id[r] : r \in new} ELSE @,
                   !.next = @ + Cardinality(new)]
  BY DEF IngestFile
<1> DEFINE MM == {M(r) : r \in new}  ids == {id[r] : r \in new}  e == IngestFile(d, path, f, embed)
<1>9. /\ e \in [made: BOOLEAN, messages: SUBSET Message, vectors: SUBSET Nat,
                 unpurged: SUBSET Nat, seen: [IndexedPaths -> File \union {None}], next: Nat]
      /\ e.messages = d.messages \union MM
  <2>1. e = [d EXCEPT !.messages = @ \union MM,
                      !.vectors = IF embed THEN @ \union ids ELSE @,
                      !.next = @ + Cardinality(new)]
    BY <1>8
  <2>2. MM \subseteq Message /\ ids \subseteq Nat /\ d.next + Cardinality(new) \in Nat
    BY <1>2, <1>3, <1>4, <1>7
  <2> HIDE DEF MM, ids, new, e
  <2> QED BY <2>1, <2>2 DEF Index
<1>10. IsFiniteSet(d.messages \union MM)
  BY <1>6
<1> HIDE DEF e, MM
<1> QED BY <1>9, <1>10 DEF Index, e

\* The state of one slot changes.
LEMMA SlotTyped ==
    ASSUME PipelineTyped, NEW p \in Procs, NEW r \in Runs, InHand(r), run' = [run EXCEPT ![p] = r]
    PROVE  run' \in [Procs -> Runs] /\ \A q \in Procs : InHand(run'[q])
BY DEF PipelineTyped, TypeOK

\* A fault counts, as long as the bound allows it.
LEMMA FaultsTyped ==
    ASSUME TypeOK, UNCHANGED faults \/ \E fault : Fails(fault)
    PROVE  faults' \in 0..MaxFaults /\ (faults' = faults \/ faults' > 0)
BY PipelineAssumption DEF TypeOK, Fails

\* A session is disturbed.
LEMMA DisturbedTyped ==
    ASSUME NEW g \in [Procs -> Runs], \A q \in Procs : InHand(g[q]), NEW s
    PROVE  /\ Disturbed(g, s) \in [Procs -> Runs]
           /\ \A q \in Procs : InHand(Disturbed(g, s)[q])
<1>1. ASSUME NEW q \in Procs
      PROVE  [g[q] EXCEPT !.quiet = @ \ {s}] \in Runs /\ InHand([g[q] EXCEPT !.quiet = @ \ {s}])
  <2>1. g[q] \in Runs /\ InHand(g[q])
    OBVIOUS
  <2>2. [g[q] EXCEPT !.quiet = @ \ {s}] \in Runs
    BY <2>1 DEF Runs
  <2> QED BY <2>1, <2>2 DEF Runs, InHand
<1> QED BY <1>1 DEF Disturbed

\* What the world outside does.
LEMMA OutsideTyped ==
    ASSUME PipelineTyped, Outside
    PROVE  PipelineTyped'
<1> PICK s \in Sessions :
       (\E t \in Transcripts : WriteTranscript(s, t)) \/ RotateTranscript(s) \/ ChangeExclude(s)
  BY DEF Outside
<1>1. Disturb(s)
  BY DEF WriteTranscript, RotateTranscript, ChangeExclude
<1>2. run' \in [Procs -> Runs] /\ \A q \in Procs : InHand(run'[q])
  BY <1>1, DisturbedTyped DEF PipelineTyped, TypeOK, Disturb
<1>3. edits' \in 0..MaxEdits
  BY <1>1, PipelineAssumption DEF Disturb, PipelineTyped, TypeOK
<1>4. CASE \E t \in Transcripts : WriteTranscript(s, t)
  BY <1>2, <1>3, <1>4 DEF WriteTranscript, PipelineTyped, TypeOK
<1>5. CASE RotateTranscript(s)
  BY <1>2, <1>3, <1>5 DEF RotateTranscript, PipelineTyped, TypeOK
<1>6. CASE ChangeExclude(s)
  BY <1>2, <1>3, <1>6 DEF ChangeExclude, PipelineTyped, TypeOK
<1> QED BY <1>4, <1>5, <1>6

\* A command that ends.
LEMMA ExitTyped ==
    ASSUME PipelineTyped, NEW p \in Procs, Exit(p)
    PROVE  run' \in [Procs -> Runs] /\ \A q \in Procs : InHand(run'[q])
BY IdleRunTyped, SlotTyped DEF Exit

\* An archive sync begins.
LEMMA StartSyncTyped ==
    ASSUME PipelineTyped, NEW p \in Procs, NEW cmd, StartSync(p, cmd)
    PROVE  PipelineTyped'
<1> DEFINE r == [IdleRun EXCEPT
                   !.phase = "sync", !.cmd = cmd, !.man = manifest, !.excluded = excluded,
                   !.todo = {s \in Sessions : live[s] # Absent}, !.quiet = Sessions]
<1>1. r \in Runs /\ InHand(r)
  <2>1. r \in Runs
    BY IdleRunTyped DEF StartSync, PipelineTyped, TypeOK, Runs, Phases
  <2>2. r.phase = "sync" /\ r.texts = IdleRun.texts
    BY DEF IdleRun
  <2> HIDE DEF r
  <2> QED BY <2>1, <2>2, IdleRunTyped DEF InHand
<1>2. run' = [run EXCEPT ![p] = r]
  BY DEF StartSync
<1> HIDE DEF r
<1>3. run' \in [Procs -> Runs] /\ \A q \in Procs : InHand(run'[q])
  BY <1>1, <1>2, SlotTyped
<1> QED BY <1>3 DEF StartSync, PipelineTyped, TypeOK

\* The path that a transcript is copied to.
LEMMA CopyTargetTyped ==
    ASSUME NEW fs, NEW man, NEW s \in Sessions, NEW t \in Transcripts,
           CopyTarget(fs, man, s, t) # None
    PROVE  /\ CopyTarget(fs, man, s, t) \in ArchivePaths
           /\ SessionOf(CopyTarget(fs, man, s, t)) = s
           /\ CopyTarget(fs, man, s, t) \in {CanonicalPath(s), SidecarPath(s, t)}
BY DEF CopyTarget, CanonicalPath, SidecarPath, ArchivePaths, SessionOf

\* A live transcript is a transcript.
LEMMA LiveTranscript ==
    ASSUME TypeOK, NEW s \in Sessions, live[s] # Absent
    PROVE  live[s] \in Transcripts /\ IsTranscript(Faithful(live[s]))
<1>1. live[s] \in Transcripts /\ live[s] \in Seq(Nat)
  BY ArchiveAssumption DEF TypeOK
<1> QED BY <1>1 DEF IsTranscript, Faithful, File

\* Looking at the next transcript of a sync keeps the types.
LEMMA ExamineTyped ==
    ASSUME PipelineTyped, NEW p \in Procs, ExamineTranscript(p)
    PROVE  PipelineTyped'
<1>1. run[p] \in Runs /\ InHand(run[p])
  BY DEF PipelineTyped, TypeOK
<1>2. PICK s \in run[p].todo :
         \/ run' = [run EXCEPT ![p].todo = @ \ {s}]
         \/ /\ live[s] # Absent /\ CopyTarget(files, run[p].man, s, live[s]) # None
            /\ run' = [run EXCEPT ![p].todo = @ \ {s}, ![p].phase = "copy",
                                  ![p].path = CopyTarget(files, run[p].man, s, live[s]),
                                  ![p].stat = Faithful(live[s])]
  BY DEF ExamineTranscript
<1>3. s \in Sessions
  BY <1>1 DEF Runs
<1>4. run' \in [Procs -> Runs] /\ \A q \in Procs : InHand(run'[q])
  <2>1. CASE run' = [run EXCEPT ![p].todo = @ \ {s}]
    <3>1. PICK r : r = [run[p] EXCEPT !.todo = @ \ {s}]
      OBVIOUS
    <3>2. r \in Runs /\ InHand(r)
      BY <1>1, <3>1 DEF Runs, InHand
    <3> QED BY <2>1, <3>1, <3>2, SlotTyped
  <2>2. CASE /\ live[s] # Absent /\ CopyTarget(files, run[p].man, s, live[s]) # None
             /\ run' = [run EXCEPT ![p].todo = @ \ {s}, ![p].phase = "copy",
                                   ![p].path = CopyTarget(files, run[p].man, s, live[s]),
                                   ![p].stat = Faithful(live[s])]
    <3>1. PICK path, stat : path = CopyTarget(files, run[p].man, s, live[s])
                            /\ stat = Faithful(live[s])
      OBVIOUS
    <3>2. path \in ArchivePaths /\ IsTranscript(stat)
      BY <1>3, <2>2, <3>1, LiveTranscript, CopyTargetTyped DEF PipelineTyped
    <3>3. PICK r : r = [run[p] EXCEPT !.todo = @ \ {s}, !.phase = "copy", !.path = path,
                                      !.stat = stat]
      OBVIOUS
    <3>4. path \in IndexedPaths /\ stat \in File
      BY <3>2 DEF ArchivePaths, IndexedPaths, IsTranscript
    <3>5. r \in Runs /\ InHand(r)
      BY <1>1, <3>2, <3>3, <3>4 DEF Runs, InHand, Phases
    <3> QED BY <2>2, <3>1, <3>3, <3>5, SlotTyped
  <2> QED BY <1>2, <2>1, <2>2
<1> QED BY <1>4 DEF ExamineTranscript, PipelineTyped, TypeOK

\* The end of a copy, whichever way it ended.
LEMMA AfterCopyTyped ==
    ASSUME NEW r \in Runs, InHand(r), NEW man \in Manifests
    PROVE  AfterCopy(r, man) \in Runs /\ InHand(AfterCopy(r, man))
<1>1. PICK a : a = AfterCopy(r, man)
  OBVIOUS
<1>2. a \in Runs /\ InHand(a)
  BY <1>1 DEF AfterCopy, Runs, Phases, InHand
<1> QED BY <1>1, <1>2

\* An empty file is a file.
LEMMA EmptyFile == Faithful(<< >>) \in File
BY DEF Faithful, File

\* Opening the copy, which truncates it, keeps the types.
LEMMA OpenCopyTyped ==
    ASSUME PipelineTyped, NEW p \in Procs, OpenCopy(p)
    PROVE  PipelineTyped'
<1> DEFINE path == run[p].path
<1>1. run[p] \in Runs /\ InHand(run[p]) /\ run[p].phase = "copy" /\ run[p].man \in Manifests
  BY DEF OpenCopy, PipelineTyped, TypeOK, Runs
<1>2. path \in ArchivePaths /\ SessionOf(path) \in Sessions
  BY <1>1 DEF InHand, ArchivePaths, SessionOf
<1>3. /\ run' \in [Procs -> Runs] /\ \A q \in Procs : InHand(run'[q])
      /\ files' \in [ArchivePaths -> File \union {Absent}]
  <2>1. CASE live[SessionOf(path)] = Absent
    <3>1. run' = [run EXCEPT ![p] = AfterCopy(run[p], run[p].man)] /\ files' = files
      BY <2>1 DEF OpenCopy
    <3> QED BY <1>1, <3>1, AfterCopyTyped, SlotTyped DEF PipelineTyped, TypeOK
  <2>2. CASE live[SessionOf(path)] # Absent
    <3>1. PICK kept, copying : /\ kept = ArchivedRows(files, SessionOf(path))
                               /\ copying = Faithful(live[SessionOf(path)])
      OBVIOUS
    <3>2. PICK r : r = [run[p] EXCEPT !.phase = "write", !.kept = kept, !.copying = copying]
      OBVIOUS
    <3>3. run' = [run EXCEPT ![p] = r] /\ files' = [files EXCEPT ![path] = Faithful(<< >>)]
      BY <2>2, <3>1, <3>2 DEF OpenCopy
    <3>4. IsTranscript(copying) /\ copying \in File
      BY <1>2, <2>2, <3>1, LiveTranscript DEF PipelineTyped, IsTranscript
    <3>5. kept \subseteq Nat
      BY <3>1, TextsFinite DEF ArchivedRows, PipelineTyped, TypeOK
    <3>6. r \in Runs /\ InHand(r)
      BY <1>1, <3>2, <3>4, <3>5 DEF Runs, InHand, Phases
    <3> QED BY <1>2, <3>3, <3>6, SlotTyped, EmptyFile DEF PipelineTyped, TypeOK
  <2> QED BY <2>1, <2>2
<1> QED BY <1>3 DEF OpenCopy, PipelineTyped, TypeOK

\* What a copy leaves in the manifest.
LEMMA RecordedTyped ==
    ASSUME NEW man \in Manifests, NEW path, NEW t \in Transcripts
    PROVE  Recorded(man, path, t) \in Manifests
BY DEF Recorded, Manifests

\* Filling the copy keeps the types.
LEMMA CopyTyped ==
    ASSUME PipelineTyped, NEW p \in Procs, CopyTranscript(p)
    PROVE  PipelineTyped'
<1>1. /\ run[p] \in Runs /\ InHand(run[p]) /\ run[p].phase = "write"
      /\ run[p].man \in Manifests
  BY DEF CopyTranscript, PipelineTyped, TypeOK, Runs
<1>2. /\ run[p].path \in ArchivePaths /\ run[p].copying \in File
      /\ run[p].stat.rows \in Transcripts
  BY <1>1 DEF InHand, IsTranscript
<1>3. PICK man : man = Recorded(run[p].man, run[p].path, run[p].stat.rows)
  OBVIOUS
<1>4. man \in Manifests
  BY <1>1, <1>2, <1>3, RecordedTyped
<1>5. /\ run' = [run EXCEPT ![p] = AfterCopy(run[p], man)]
      /\ files' = [files EXCEPT ![run[p].path] = run[p].copying]
  BY <1>3 DEF CopyTranscript
<1>6. run' \in [Procs -> Runs] /\ \A q \in Procs : InHand(run'[q])
  BY <1>1, <1>4, <1>5, AfterCopyTyped, SlotTyped
<1> QED BY <1>2, <1>5, <1>6 DEF CopyTranscript, PipelineTyped, TypeOK

\* The beginning of a transcript is a sequence of rows.
LEMMA TornFile ==
    ASSUME NEW t \in Seq(Nat), NEW n \in 0..(Len(t) - 1)
    PROVE  Faithful(SubSeq(t, 1, n)) \in File
BY DEF Faithful, File

\* A copy cut short keeps the types.
LEMMA TornCopyTyped ==
    ASSUME PipelineTyped, NEW p \in Procs, TornCopy(p)
    PROVE  PipelineTyped'
<1> DEFINE g == [run EXCEPT ![p] = AfterCopy(run[p], run[p].man)]
<1>1. /\ run[p] \in Runs /\ InHand(run[p]) /\ run[p].phase = "write"
      /\ run[p].man \in Manifests
  BY DEF TornCopy, PipelineTyped, TypeOK, Runs
<1>2. run[p].path \in ArchivePaths /\ run[p].copying.rows \in Seq(Nat)
  BY <1>1, ArchiveAssumption DEF InHand, IsTranscript
<1>3. PICK n \in 0..(Len(run[p].copying.rows) - 1) :
         files' = [files EXCEPT ![run[p].path] = Faithful(SubSeq(run[p].copying.rows, 1, n))]
  BY DEF TornCopy
<1>4. files' \in [ArchivePaths -> File \union {Absent}]
  BY <1>2, <1>3, TornFile DEF PipelineTyped, TypeOK
<1>5. g \in [Procs -> Runs] /\ \A q \in Procs : InHand(g[q])
  BY <1>1, AfterCopyTyped DEF PipelineTyped, TypeOK
<1>6. run' = Disturbed(g, SessionOf(run[p].path))
  BY DEF TornCopy
<1> HIDE DEF g
<1>7. run' \in [Procs -> Runs] /\ \A q \in Procs : InHand(run'[q])
  BY <1>5, <1>6, DisturbedTyped
<1>8. faults' \in 0..MaxFaults
  BY FaultsTyped DEF TornCopy, PipelineTyped
<1> QED BY <1>4, <1>7, <1>8 DEF TornCopy, PipelineTyped, TypeOK

\* What is removed from the archive and from its manifest leaves them well formed.
LEMMA UnlinkTyped ==
    ASSUME TypeOK, NEW paths
    PROVE  Unlink(files, paths) \in [ArchivePaths -> File \union {Absent}]
BY DEF Unlink, TypeOK

\* Dropping the entries of the removed files leaves a manifest.
LEMMA UnlistTyped ==
    ASSUME NEW man \in Manifests, NEW removed
    PROVE  Unlisted(man, removed) \in Manifests
BY DEF Unlisted, Manifests

\* The end of a sync in full: what stays of the excluded files, and what goes.
LEMMA SyncEnds ==
    ASSUME NEW p \in Procs, FinishSync(p)
    PROVE  \E stuck \in SUBSET FilesOfExcluded(files, run[p].excluded) : \E removed, gone :
              /\ removed = FilesOfExcluded(files, run[p].excluded) \ stuck
              /\ gone = {SessionOf(path) : path \in stuck}
              /\ files' = Unlink(files, removed)
              /\ run' = [run EXCEPT ![p].phase = "save", ![p].man = Unlisted(@, removed),
                                    ![p].quiet = @ \ gone]
              /\ UNCHANGED faults \/ \E fault : Fails(fault)
              /\ run[p].phase = "sync" /\ run[p].todo = {}
              /\ UNCHANGED <<live, past, excluded, manifest, marker, index, edits>>
BY DEF FinishSync, Left

\* The end of a sync, with its purge of excluded sessions, keeps the types.
LEMMA FinishSyncTyped ==
    ASSUME PipelineTyped, NEW p \in Procs, FinishSync(p)
    PROVE  PipelineTyped'
<1>1. run[p] \in Runs /\ InHand(run[p]) /\ run[p].man \in Manifests
  BY DEF PipelineTyped, TypeOK, Runs
<1>2. PICK removed, gone :
         /\ files' = Unlink(files, removed)
         /\ run' = [run EXCEPT ![p].phase = "save", ![p].man = Unlisted(@, removed),
                               ![p].quiet = @ \ gone]
         /\ UNCHANGED faults \/ \E fault : Fails(fault)
  BY SyncEnds
<1>3. PICK man : man = Unlisted(run[p].man, removed) /\ man \in Manifests
  BY <1>1, UnlistTyped
<1>4. PICK r : r = [run[p] EXCEPT !.phase = "save", !.man = man, !.quiet = @ \ gone]
  OBVIOUS
<1>5. r \in Runs /\ InHand(r)
  BY <1>1, <1>3, <1>4 DEF Runs, InHand, Phases
<1>6. run' = [run EXCEPT ![p] = r]
  BY <1>2, <1>3, <1>4
<1>7. run' \in [Procs -> Runs] /\ \A q \in Procs : InHand(run'[q])
  BY <1>5, <1>6, SlotTyped
<1>8. files' \in [ArchivePaths -> File \union {Absent}]
  BY <1>2, UnlinkTyped DEF PipelineTyped
<1>9. faults' \in 0..MaxFaults
  BY <1>2, FaultsTyped DEF PipelineTyped
<1> QED BY <1>7, <1>8, <1>9 DEF FinishSync, PipelineTyped, TypeOK

\* The sync is over and the store is opened next.
LEMMA SyncedTyped ==
    ASSUME NEW r \in Runs, InHand(r), NEW root \in {Canonical, Live}
    PROVE  SyncedRun(r, root) \in Runs /\ InHand(SyncedRun(r, root))
<1>1. PICK a, man : a = SyncedRun(r, root) /\ man = IdleRun.man
  OBVIOUS
<1>2. man \in Manifests
  BY <1>1, IdleRunTyped DEF Runs
<1>3. a \in Runs /\ InHand(a)
  BY <1>1, <1>2 DEF SyncedRun, Runs, Phases, InHand
<1> QED BY <1>1, <1>3

\* ingest_directory begins.
LEMMA BeginIngestTyped ==
    ASSUME NEW r \in Runs, InHand(r)
    PROVE  BeginIngest(r) \in Runs /\ InHand(BeginIngest(r))
<1>1. PICK a, man, texts, queue :
         /\ a = BeginIngest(r) /\ man = IdleRun.man /\ texts = IdleRun.texts
         /\ queue = {path \in IndexedPaths : (path[2] = Live) = (r.root = Live)
                                              /\ FileAt(path) # Absent}
  OBVIOUS
<1>2. /\ man \in Manifests /\ texts \in [Sessions -> SUBSET Texts]
      /\ \A s \in Sessions : IsFiniteSet(texts[s])
  BY <1>1, IdleRunTyped DEF Runs, InHand
<1>3. queue \subseteq IndexedPaths
  BY <1>1
<1>4. a = [r EXCEPT !.phase = "ingest", !.man = man, !.texts = texts, !.todo = {},
                    !.queue = queue]
  BY <1>1 DEF BeginIngest
<1>5. a \in Runs /\ InHand(a)
  BY <1>2, <1>3, <1>4 DEF Runs, Phases, InHand
<1> QED BY <1>1, <1>5

\* The backfill begins.
LEMMA BeginBackfillTyped ==
    ASSUME PipelineTyped, NEW r \in Runs, InHand(r)
    PROVE  BeginBackfill(r) \in Runs /\ InHand(BeginBackfill(r))
<1>1. PICK a, todo, texts :
         /\ a = BeginBackfill(r) /\ todo = {s \in Sessions : MessagesOf(index, s) # {}}
         /\ texts = [s \in Sessions |-> IndexedTexts(index, s)]
  OBVIOUS
<1>2. /\ texts \in [Sessions -> SUBSET Texts]
      /\ \A s \in Sessions : IsFiniteSet(texts[s])
  BY <1>1, MessagesTyped DEF PipelineTyped
<1>3. todo \subseteq Sessions /\ manifest \in Manifests /\ excluded \subseteq Sessions
  BY <1>1 DEF PipelineTyped, TypeOK
<1>4. a = [r EXCEPT !.phase = "backfill", !.root = Canonical, !.man = manifest,
                    !.excluded = excluded, !.todo = todo, !.texts = texts]
  BY <1>1 DEF BeginBackfill
<1>5. a \in Runs /\ InHand(a)
  BY <1>2, <1>3, <1>4 DEF Runs, Phases, InHand
<1> QED BY <1>1, <1>5

\* The sync fails and the live transcripts are read instead, or nothing is.
LEMMA DegradeSyncTyped ==
    ASSUME PipelineTyped, NEW p \in Procs, DegradeSync(p)
    PROVE  PipelineTyped'
<1>1. run[p] \in Runs /\ InHand(run[p])
  BY DEF PipelineTyped, TypeOK
<1>2. Exit(p) \/ run' = [run EXCEPT ![p] = SyncedRun(run[p], Live)]
  BY DEF DegradeSync
<1>3. run' \in [Procs -> Runs] /\ \A q \in Procs : InHand(run'[q])
  BY <1>1, <1>2, ExitTyped, SyncedTyped, SlotTyped
<1>4. faults' \in 0..MaxFaults
  BY FaultsTyped DEF DegradeSync, PipelineTyped
<1> QED BY <1>3, <1>4 DEF DegradeSync, PipelineTyped, TypeOK

\* Opening the store after a sync keeps the types.
LEMMA OpenStoreTyped ==
    ASSUME PipelineTyped, NEW p \in Procs, OpenStore(p)
    PROVE  PipelineTyped'
<1>1. run[p] \in Runs /\ InHand(run[p])
  BY DEF PipelineTyped, TypeOK
<1>2. \/ run' = [run EXCEPT ![p] = BeginIngest(run[p])]
      \/ run' = [run EXCEPT ![p] = BeginBackfill(run[p])]
  BY DEF OpenStore
<1>3. run' \in [Procs -> Runs] /\ \A q \in Procs : InHand(run'[q])
  BY <1>1, <1>2, BeginIngestTyped, BeginBackfillTyped, SlotTyped
<1>4. index' \in Index /\ index'.messages = index.messages
  BY DEF OpenStore, PipelineTyped, TypeOK, Index
<1>5. marker' \in BOOLEAN
  BY DEF OpenStore, PipelineTyped, TypeOK
<1> QED BY <1>3, <1>4, <1>5 DEF OpenStore, PipelineTyped, TypeOK

\* Starting a backfill from the index keeps the types.
LEMMA StartBackfillTyped ==
    ASSUME PipelineTyped, NEW p \in Procs, StartBackfill(p)
    PROVE  PipelineTyped'
<1>1. PICK r : r = [IdleRun EXCEPT !.cmd = "from-index"]
  OBVIOUS
<1>2. r \in Runs /\ InHand(r)
  BY <1>1, IdleRunTyped DEF StartBackfill, Runs, InHand
<1>3. run' = [run EXCEPT ![p] = BeginBackfill(r)]
  BY <1>1 DEF StartBackfill
<1>4. run' \in [Procs -> Runs] /\ \A q \in Procs : InHand(run'[q])
  BY <1>2, <1>3, BeginBackfillTyped, SlotTyped
<1> QED BY <1>4 DEF StartBackfill, PipelineTyped, TypeOK

\* A file rebuilt from messages is a file.
LEMMA LossyFile ==
    ASSUME NEW texts \in SUBSET Texts, IsFiniteSet(texts)
    PROVE  Lossy(SetToSeq(texts)) \in File
<1>1. SetToSeq(texts) \in Seq(Nat)
  BY SequenceOfSet, ArchiveAssumption
<1> QED BY <1>1 DEF Lossy, File

\* Rebuilding one session from the index keeps the types.
LEMMA BackfillSessionTyped ==
    ASSUME PipelineTyped, NEW p \in Procs, BackfillSession(p)
    PROVE  PipelineTyped'
<1>1. run[p] \in Runs /\ InHand(run[p]) /\ run[p].man \in Manifests
  BY DEF PipelineTyped, TypeOK, Runs
<1>2. PICK s \in run[p].todo :
         \/ run' = [run EXCEPT ![p].todo = @ \ {s}] /\ files' = files
         \/ /\ files' = [files EXCEPT ![CanonicalPath(s)] = Lossy(SetToSeq(run[p].texts[s]))]
            /\ run' = [run EXCEPT ![p].todo = @ \ {s}, ![p].man[s] = Backfill]
  BY DEF BackfillSession
<1>3. s \in Sessions
  BY <1>1 DEF Runs
<1>4. Lossy(SetToSeq(run[p].texts[s])) \in File
  BY <1>1, <1>3, LossyFile DEF Runs, InHand
<1>5. files' \in [ArchivePaths -> File \union {Absent}]
  BY <1>2, <1>4 DEF PipelineTyped, TypeOK
<1>6. PICK man : man = [run[p].man EXCEPT ![s] = Backfill]
  OBVIOUS
<1>7. man \in Manifests
  BY <1>1, <1>6 DEF Manifests
<1>8. PICK r : /\ r = [run[p] EXCEPT !.todo = @ \ {s}]
                  \/ r = [run[p] EXCEPT !.todo = @ \ {s}, !.man = man]
               /\ run' = [run EXCEPT ![p] = r]
  BY <1>2, <1>6
<1>9. r \in Runs /\ InHand(r)
  BY <1>1, <1>7, <1>8 DEF Runs, InHand
<1>10. run' \in [Procs -> Runs] /\ \A q \in Procs : InHand(run'[q])
  BY <1>8, <1>9, SlotTyped
<1> QED BY <1>5, <1>10 DEF BackfillSession, PipelineTyped, TypeOK

\* The end of a backfill keeps the types.
LEMMA FinishBackfillTyped ==
    ASSUME PipelineTyped, NEW p \in Procs, FinishBackfill(p)
    PROVE  PipelineTyped'
<1>1. run[p] \in Runs /\ InHand(run[p])
  BY DEF PipelineTyped, TypeOK
<1>2. PICK r : r = [run[p] EXCEPT !.phase = "save"]
  OBVIOUS
<1>3. r \in Runs /\ InHand(r) /\ run' = [run EXCEPT ![p] = r]
  BY <1>1, <1>2 DEF FinishBackfill, Runs, InHand, Phases
<1>4. run' \in [Procs -> Runs] /\ \A q \in Procs : InHand(run'[q])
  BY <1>3, SlotTyped
<1> QED BY <1>4 DEF FinishBackfill, PipelineTyped, TypeOK

\* A backfill that fails keeps the types.
LEMMA DegradeBackfillTyped ==
    ASSUME PipelineTyped, NEW p \in Procs, DegradeBackfill(p)
    PROVE  PipelineTyped'
<1>1. run[p] \in Runs /\ InHand(run[p])
  BY DEF PipelineTyped, TypeOK
<1>2. Exit(p) \/ run' = [run EXCEPT ![p] = BeginIngest(run[p])]
  BY DEF DegradeBackfill
<1>3. run' \in [Procs -> Runs] /\ \A q \in Procs : InHand(run'[q])
  BY <1>1, <1>2, ExitTyped, BeginIngestTyped, SlotTyped
<1>4. faults' \in 0..MaxFaults
  BY FaultsTyped DEF DegradeBackfill, PipelineTyped
<1> QED BY <1>3, <1>4 DEF DegradeBackfill, PipelineTyped, TypeOK

\* Saving the manifest keeps the types.
LEMMA SaveManifestTyped ==
    ASSUME PipelineTyped, NEW p \in Procs, SaveManifest(p)
    PROVE  PipelineTyped'
<1>1. run[p] \in Runs /\ InHand(run[p]) /\ run[p].man \in Manifests
  BY DEF PipelineTyped, TypeOK, Runs
<1>2. \/ Exit(p)
      \/ run' = [run EXCEPT ![p] = SyncedRun(run[p], Canonical)]
      \/ run' = [run EXCEPT ![p] = BeginIngest(run[p])]
  <2>1. CASE run[p].cmd \notin IndexCommands
    BY <2>1 DEF SaveManifest
  <2>2. CASE run[p].cmd \in IndexCommands /\ run[p].root = None
    BY <2>2 DEF SaveManifest
  <2>3. CASE run[p].cmd \in IndexCommands /\ run[p].root # None
    BY <2>3 DEF SaveManifest
  <2> QED BY <2>1, <2>2, <2>3
<1>3. run' \in [Procs -> Runs] /\ \A q \in Procs : InHand(run'[q])
  BY <1>1, <1>2, ExitTyped, SyncedTyped, BeginIngestTyped, SlotTyped
<1> QED BY <1>1, <1>3 DEF SaveManifest, PipelineTyped, TypeOK

\* Looking at the next file to ingest keeps the types.
LEMMA StatFileTyped ==
    ASSUME PipelineTyped, NEW p \in Procs, StatFile(p)
    PROVE  PipelineTyped'
<1>1. run[p] \in Runs /\ InHand(run[p])
  BY DEF PipelineTyped, TypeOK
<1>2. PICK path \in run[p].queue :
         \/ Exit(p)
         \/ run' = [run EXCEPT ![p].queue = @ \ {path}]
         \/ /\ FileAt(path) # Absent
            /\ run' = [run EXCEPT ![p].queue = @ \ {path}, ![p].phase = "read",
                                  ![p].path = path, ![p].stat = FileAt(path)]
  BY DEF StatFile
<1>3. path \in IndexedPaths
  BY <1>1 DEF Runs
<1>4. PICK f \in File \union {Absent} : f = FileAt(path)
  BY <1>3, FileAtTyped DEF PipelineTyped
<1>5. PICK a, b : /\ a = [run[p] EXCEPT !.queue = @ \ {path}]
                  /\ b = [run[p] EXCEPT !.queue = @ \ {path}, !.phase = "read",
                                        !.path = path, !.stat = f]
  OBVIOUS
<1>6. a \in Runs /\ InHand(a)
  BY <1>1, <1>5 DEF Runs, InHand
<1>7. f # Absent => b \in Runs /\ InHand(b)
  BY <1>1, <1>3, <1>4, <1>5 DEF Runs, InHand, Phases
<1>8. Exit(p) \/ run' = [run EXCEPT ![p] = a] \/ (f # Absent /\ run' = [run EXCEPT ![p] = b])
  BY <1>2, <1>4, <1>5
<1>9. run' \in [Procs -> Runs] /\ \A q \in Procs : InHand(run'[q])
  BY <1>6, <1>7, <1>8, ExitTyped, SlotTyped
<1> QED BY <1>9 DEF StatFile, PipelineTyped, TypeOK

\* Ingesting a file keeps the types.
LEMMA IngestRowsTyped ==
    ASSUME PipelineTyped, NEW p \in Procs, IngestRows(p)
    PROVE  PipelineTyped'
<1>1. run[p] \in Runs /\ InHand(run[p]) /\ run[p].phase = "read" /\ index \in Index
  BY DEF IngestRows, PipelineTyped, TypeOK
<1>2. PICK f : f = FileAt(run[p].path)
  OBVIOUS
<1>3. run[p].path \in IndexedPaths
  BY <1>1 DEF InHand
<1>4. f \in File \union {Absent}
  BY <1>2, <1>3, FileAtTyped DEF PipelineTyped
<1>5. CASE f = Absent
  <2>1. Exit(p) /\ index' = index
    BY <1>2, <1>5 DEF IngestRows
  <2>2. run' \in [Procs -> Runs] /\ \A q \in Procs : InHand(run'[q])
    BY <2>1, ExitTyped
  <2> QED BY <2>1, <2>2 DEF IngestRows, PipelineTyped, TypeOK
<1>6. CASE f # Absent
  <2>1. PICK r : r = [run[p] EXCEPT !.phase = "seen"]
    OBVIOUS
  <2>2. index' = IngestFile(index, run[p].path, f, Embeds(p)) /\ run' = [run EXCEPT ![p] = r]
    BY <1>2, <1>6, <2>1 DEF IngestRows
  <2>3. Embeds(p) \in BOOLEAN
    BY DEF Embeds
  <2>4. index' \in Index /\ IsFiniteSet(index'.messages)
    BY <1>1, <1>3, <1>4, <1>6, <2>2, <2>3, IngestTyped DEF PipelineTyped
  <2>5. r \in Runs /\ InHand(r)
    BY <1>1, <2>1 DEF Runs, InHand, Phases
  <2>6. run' \in [Procs -> Runs] /\ \A q \in Procs : InHand(run'[q])
    BY <2>2, <2>5, SlotTyped
  <2> QED BY <2>4, <2>6 DEF IngestRows, PipelineTyped, TypeOK
<1> QED BY <1>5, <1>6

\* Recording a file as seen keeps the types.
LEMMA RecordSeenTyped ==
    ASSUME PipelineTyped, NEW p \in Procs, RecordSeen(p)
    PROVE  PipelineTyped'
<1>1. run[p] \in Runs /\ InHand(run[p]) /\ run[p].phase = "seen" /\ index \in Index
  BY DEF RecordSeen, PipelineTyped, TypeOK
<1>2. PICK r : r = [run[p] EXCEPT !.phase = "ingest", !.path = None, !.stat = None]
  OBVIOUS
<1>3. r \in Runs /\ InHand(r) /\ run' = [run EXCEPT ![p] = r]
  BY <1>1, <1>2 DEF RecordSeen, Runs, InHand, Phases
<1>4. run' \in [Procs -> Runs] /\ \A q \in Procs : InHand(run'[q])
  BY <1>3, SlotTyped
<1>5. index' \in Index /\ index'.messages = index.messages
  BY <1>1 DEF RecordSeen, RecordFileSeen, Index, InHand
<1> QED BY <1>4, <1>5 DEF RecordSeen, PipelineTyped, TypeOK

\* The repair pass.
LEMMA RepairTyped ==
    ASSUME PipelineTyped, NEW p \in Procs, CountGuard(p) \/ FetchBatch(p) \/ EmbedBatch(p)
    PROVE  PipelineTyped'
<1>1. run[p] \in Runs /\ InHand(run[p]) /\ index \in Index
  BY DEF PipelineTyped, TypeOK
<1>2. PICK ids : ids = FetchUnembedded(index)
  OBVIOUS
<1>3. ids \subseteq Nat
  BY <1>1, <1>2 DEF FetchUnembedded, Index, Message
<1>4. PICK a, b, c : /\ a = [run[p] EXCEPT !.phase = "repair"]
                     /\ b = [run[p] EXCEPT !.phase = "embed", !.ids = ids]
                     /\ c = [run[p] EXCEPT !.phase = "repair", !.ids = {}]
  OBVIOUS
<1>5. a \in Runs /\ InHand(a) /\ b \in Runs /\ InHand(b) /\ c \in Runs /\ InHand(c)
  BY <1>1, <1>3, <1>4 DEF Runs, InHand, Phases
<1>6. Exit(p) \/ \E r \in {a, b, c} : run' = [run EXCEPT ![p] = r]
  BY <1>2, <1>4 DEF CountGuard, FetchBatch, EmbedBatch
<1>7. run' \in [Procs -> Runs] /\ \A q \in Procs : InHand(run'[q])
  BY <1>5, <1>6, ExitTyped, SlotTyped
<1>8. index' \in Index /\ index'.messages = index.messages
  <2>1. CASE EmbedBatch(p)
    <3>1. run[p].ids \subseteq Nat
      BY <1>1 DEF Runs
    <3> QED BY <1>1, <2>1, <3>1 DEF EmbedBatch, UpsertEmbeddings, Index
  <2> QED BY <1>1, <2>1 DEF CountGuard, FetchBatch
<1> QED BY <1>7, <1>8 DEF CountGuard, FetchBatch, EmbedBatch, PipelineTyped, TypeOK

\* Starting a forget keeps the types.
LEMMA StartForgetTyped ==
    ASSUME PipelineTyped, NEW p \in Procs, NEW s \in Sessions, StartForget(p, s)
    PROVE  PipelineTyped'
<1>1. PICK phase, ids, paths :
         /\ phase = IF MessagesOf(index, s) = {} THEN "unlink" ELSE "forget"
         /\ ids = {m.id : m \in MessagesOf(index, s)}
         /\ paths = {m.src : m \in MessagesOf(index, s)}
  OBVIOUS
<1>2. ids \subseteq Nat /\ paths \subseteq IndexedPaths /\ phase \in {"unlink", "forget"}
  BY <1>1, MessagesTyped DEF PipelineTyped, Message
<1>3. PICK r : r = [IdleRun EXCEPT !.cmd = "forget", !.session = s, !.phase = phase,
                                   !.ids = ids, !.paths = paths]
  OBVIOUS
<1>4. run' = [run EXCEPT ![p] = r] /\ "forget" \in Commands
  BY <1>1, <1>3 DEF StartForget
<1>5. r \in Runs /\ InHand(r)
  BY <1>2, <1>3, <1>4, IdleRunTyped DEF Runs, InHand, Phases
<1>6. run' \in [Procs -> Runs] /\ \A q \in Procs : InHand(run'[q])
  BY <1>4, <1>5, SlotTyped
<1>7. edits' \in 0..MaxEdits
  BY PipelineAssumption DEF StartForget, PipelineTyped, TypeOK
<1> QED BY <1>6, <1>7 DEF StartForget, PipelineTyped, TypeOK

\* What either form of the deletion leaves of the index.
LEMMA DeletedIndex ==
    ASSUME NEW d \in Index, NEW s, NEW ids, NEW paths,
           NEW e, \/ e = DeleteSession(d, s, ids, paths)
                  \/ e = UnpurgedDeleteSession(d, s, ids, paths)
    PROVE  /\ e \in Index /\ e.messages = d.messages \ MessagesOf(d, s)
           /\ \/ e.vectors = d.vectors \ ids /\ e.unpurged = d.unpurged
              \/ e.vectors = d.vectors /\ e.unpurged = d.unpurged \union (ids \cap d.vectors)
<1>1. ASSUME NEW gone
      PROVE  /\ DeleteSession(d, s, gone, paths) \in Index
             /\ DeleteSession(d, s, gone, paths).messages = d.messages \ MessagesOf(d, s)
             /\ DeleteSession(d, s, gone, paths).vectors = d.vectors \ gone
             /\ DeleteSession(d, s, gone, paths).unpurged = d.unpurged
  BY DEF DeleteSession, Index
<1>2. CASE e = DeleteSession(d, s, ids, paths)
  BY <1>1, <1>2
<1>3. CASE e = UnpurgedDeleteSession(d, s, ids, paths)
  <2>1. PICK c : c = DeleteSession(d, s, {}, paths)
    OBVIOUS
  <2>2. /\ c \in Index /\ c.messages = d.messages \ MessagesOf(d, s)
        /\ c.vectors = d.vectors \ {} /\ c.unpurged = d.unpurged
    BY <1>1, <2>1
  <2>3. e = [c EXCEPT !.unpurged = @ \union (ids \cap d.vectors)]
    BY <1>3, <2>1 DEF UnpurgedDeleteSession
  <2>4. ids \cap d.vectors \subseteq Nat
    BY DEF Index
  <2>5. d.vectors \ {} = d.vectors
    OBVIOUS
  <2> QED BY <2>2, <2>3, <2>4, <2>5 DEF Index
<1> QED BY <1>2, <1>3

\* Neither form leaves the type.
LEMMA DeletedTyped ==
    ASSUME NEW d \in Index, NEW s, NEW ids, NEW paths
    PROVE  DeleteSession(d, s, ids, paths) \in Index /\ UnpurgedDeleteSession(d, s, ids, paths) \in Index
BY DeletedIndex, Zenon

\* Deleting a session from the index keeps the types.
LEMMA ForgetMessagesTyped ==
    ASSUME PipelineTyped, NEW p \in Procs, ForgetMessages(p)
    PROVE  PipelineTyped'
<1>1. run[p] \in Runs /\ InHand(run[p]) /\ index \in Index /\ IsFiniteSet(index.messages)
  BY DEF PipelineTyped, TypeOK
<1>2. PICK r : r = [run[p] EXCEPT !.phase = "unlink", !.ids = {}, !.paths = {}]
  OBVIOUS
<1>3. r \in Runs /\ InHand(r) /\ run' = [run EXCEPT ![p] = r]
  BY <1>1, <1>2 DEF ForgetMessages, Runs, InHand, Phases
<1>4. run' \in [Procs -> Runs] /\ \A q \in Procs : InHand(run'[q])
  BY <1>3, SlotTyped
<1>5. index' \in Index /\ index'.messages \in SUBSET index.messages
  <2>1. \/ index' = DeleteSession(index, run[p].session, run[p].ids, run[p].paths)
        \/ index' = UnpurgedDeleteSession(index, run[p].session, run[p].ids, run[p].paths)
    BY DEF ForgetMessages
  <2>2. index' \in Index
    BY <1>1, <2>1, DeletedTyped, Zenon
  <2>3. index'.messages = index.messages \ MessagesOf(index, run[p].session)
    BY <1>1, <2>1, DeletedIndex
  <2> QED BY <2>2, <2>3
<1>6. IsFiniteSet(index'.messages)
  BY <1>1, <1>5, FS_Subset
<1>7. faults' \in 0..MaxFaults
  BY FaultsTyped DEF ForgetMessages, PipelineTyped
<1> QED BY <1>4, <1>5, <1>6, <1>7 DEF ForgetMessages, PipelineTyped, TypeOK

\* Deleting a session from the archive keeps the types.
LEMMA UnlinkSessionTyped ==
    ASSUME PipelineTyped, NEW p \in Procs, UnlinkSession(p)
    PROVE  PipelineTyped'
<1>1. run[p] \in Runs /\ InHand(run[p]) /\ run[p].phase = "unlink"
  BY DEF UnlinkSession, PipelineTyped, TypeOK
<1>2. PICK man : man = Unlisted(manifest, FilesOf(files, run[p].session))
  OBVIOUS
<1>3. man \in Manifests
  BY <1>2, UnlistTyped DEF PipelineTyped, TypeOK
<1>4. PICK r : /\ r = IdleRun \/ r = [IdleRun EXCEPT !.phase = "save", !.cmd = "forget",
                                                     !.man = man]
               /\ run' = Disturbed([run EXCEPT ![p] = r], run[p].session)
  BY <1>2 DEF UnlinkSession
<1>5. "forget" \in Commands
  BY <1>1 DEF InHand
<1>6. r \in Runs /\ InHand(r)
  BY <1>3, <1>4, <1>5, IdleRunTyped DEF Runs, InHand, Phases
<1>7. PICK g : g = [run EXCEPT ![p] = r]
  OBVIOUS
<1>8. g \in [Procs -> Runs] /\ \A q \in Procs : InHand(g[q])
  BY <1>6, <1>7 DEF PipelineTyped, TypeOK
<1>9. run' \in [Procs -> Runs] /\ \A q \in Procs : InHand(run'[q])
  BY <1>4, <1>7, <1>8, DisturbedTyped
<1>10. files' \in [ArchivePaths -> File \union {Absent}]
  BY UnlinkTyped DEF UnlinkSession, PipelineTyped
<1> QED BY <1>9, <1>10 DEF UnlinkSession, PipelineTyped, TypeOK

\* A forget that cannot remove a file keeps the types.
LEMMA StuckForgetTyped ==
    ASSUME PipelineTyped, NEW p \in Procs, StuckForget(p)
    PROVE  PipelineTyped'
<1>1. PICK g : g = [run EXCEPT ![p] = IdleRun]
  OBVIOUS
<1>2. g \in [Procs -> Runs] /\ \A q \in Procs : InHand(g[q])
  BY <1>1, IdleRunTyped DEF PipelineTyped, TypeOK
<1>3. run' = Disturbed(g, run[p].session)
  BY <1>1 DEF StuckForget
<1>4. run' \in [Procs -> Runs] /\ \A q \in Procs : InHand(run'[q])
  BY <1>2, <1>3, DisturbedTyped
<1>5. files' \in [ArchivePaths -> File \union {Absent}]
  BY UnlinkTyped DEF StuckForget, PipelineTyped
<1>6. faults' \in 0..MaxFaults
  BY FaultsTyped DEF StuckForget, PipelineTyped
<1> QED BY <1>4, <1>5, <1>6 DEF StuckForget, PipelineTyped, TypeOK

\* Clearing the archive keeps the types.
LEMMA StartPruneTyped ==
    ASSUME PipelineTyped, NEW p \in Procs, StartPrune(p)
    PROVE  PipelineTyped'
<1>1. PICK r : r = [IdleRun EXCEPT !.phase = "save", !.cmd = "prune"]
  OBVIOUS
<1>2. r \in Runs /\ InHand(r)
  BY <1>1, IdleRunTyped DEF StartPrune, Runs, InHand, Phases
<1>3. ASSUME NEW q \in Procs
      PROVE  [run[q] EXCEPT !.quiet = {}] \in Runs /\ InHand([run[q] EXCEPT !.quiet = {}])
  <2>1. run[q] \in Runs /\ InHand(run[q])
    BY DEF PipelineTyped, TypeOK
  <2> QED BY <2>1 DEF Runs, InHand
<1>4. run' = [q \in Procs |-> IF q = p THEN r ELSE [run[q] EXCEPT !.quiet = {}]]
  BY <1>1 DEF StartPrune
<1>5. run' \in [Procs -> Runs] /\ \A q \in Procs : InHand(run'[q])
  BY <1>2, <1>3, <1>4
<1>6. files' \in [ArchivePaths -> File \union {Absent}]
  BY UnlinkTyped DEF StartPrune, PipelineTyped
<1>7. faults' \in 0..MaxFaults
  BY FaultsTyped DEF StartPrune, Left, PipelineTyped
<1> QED BY <1>5, <1>6, <1>7 DEF StartPrune, PipelineTyped, TypeOK

\* A kill keeps the types.
LEMMA KillTyped ==
    ASSUME PipelineTyped, NEW p \in Procs, Kill(p)
    PROVE  PipelineTyped'
<1>1. run' \in [Procs -> Runs] /\ \A q \in Procs : InHand(run'[q])
  BY ExitTyped DEF Kill
<1>2. faults' \in 0..MaxFaults
  BY FaultsTyped DEF Kill, PipelineTyped
<1> QED BY <1>1, <1>2 DEF Kill, PipelineTyped, TypeOK

\* The state before the first command is typed.
LEMMA InitTyped == Init => PipelineTyped
<1> SUFFICES ASSUME Init
             PROVE  PipelineTyped
  OBVIOUS
<1>1. index \in Index /\ IsFiniteSet(index.messages)
  BY FS_EmptySet DEF Init, EmptyIndex, Index
<1>2. run \in [Procs -> Runs] /\ \A p \in Procs : InHand(run[p])
  BY IdleRunTyped DEF Init
<1>3. /\ live \in [Sessions -> Transcripts \union {Absent}]
      /\ past \in [Sessions -> SUBSET (Transcripts \union {Absent})]
  BY DEF Init
<1> QED BY <1>1, <1>2, <1>3, PipelineAssumption DEF Init, PipelineTyped, TypeOK, Manifests

\* Every step keeps the types.
LEMMA NextTyped ==
    ASSUME PipelineTyped, [Next]_vars
    PROVE  PipelineTyped'
<1>1. CASE UNCHANGED vars
  BY <1>1 DEF vars, PipelineTyped, TypeOK
<1>2. CASE Outside
  BY <1>2, OutsideTyped
<1>3. CASE \E p \in Procs : Start(p)
  BY <1>3, StartSyncTyped, StartBackfillTyped, StartPruneTyped, StartForgetTyped DEF Start
<1>4. CASE \E p \in Procs : Step(p)
  BY <1>4, ExamineTyped, OpenCopyTyped, CopyTyped, FinishSyncTyped, OpenStoreTyped,
     BackfillSessionTyped, FinishBackfillTyped, StatFileTyped, IngestRowsTyped,
     RecordSeenTyped, RepairTyped, ForgetMessagesTyped, UnlinkSessionTyped, SaveManifestTyped
     DEF Step
<1>5. CASE \E p \in Procs : Fault(p)
  BY <1>5, TornCopyTyped, DegradeSyncTyped, DegradeBackfillTyped, StuckForgetTyped, KillTyped
     DEF Fault
<1> QED BY <1>1, <1>2, <1>3, <1>4, <1>5 DEF Next

\* The type invariant: what the commands keep in their archive, manifest and index
\* is well formed however they interleave, fail and are killed.
THEOREM PipelineIsTyped == Spec => []TypeOK
<1>1. PipelineTyped /\ [Next]_vars => PipelineTyped'
  BY NextTyped
<1>2. PipelineTyped => TypeOK
  BY DEF PipelineTyped
<1> QED BY InitTyped, <1>1, <1>2, PTL DEF Spec

-----------------------------------------------------------------------------
(* Vectors and messages *)

\* What the command of slot q has in hand stays as it is.
Undisturbed(q) ==
    /\ run'[q].phase = run[q].phase /\ run'[q].cmd = run[q].cmd
    /\ run'[q].ids = run[q].ids /\ run'[q].session = run[q].session
    /\ run'[q].path = run[q].path /\ run'[q].man = run[q].man /\ run'[q].stat = run[q].stat
    /\ run'[q].copying = run[q].copying /\ run'[q].kept = run[q].kept
    /\ run'[q].queue = run[q].queue /\ run'[q].root = run[q].root
    /\ run'[q].excluded = run[q].excluded /\ run'[q].quiet \subseteq run[q].quiet

\* A step of slot p leaves what the others have in hand alone.
LEMMA OthersKeep ==
    ASSUME PipelineTyped, NEW p \in Procs, Start(p) \/ Step(p) \/ Fault(p),
           NEW q \in Procs \ {p}
    PROVE  Undisturbed(q)
<1>1. run \in [Procs -> Runs] /\ run[q] \in Runs
  BY DEF PipelineTyped, TypeOK
<1>2. ASSUME NEW quiet, quiet \subseteq run[q].quiet, run'[q] = [run[q] EXCEPT !.quiet = quiet]
      PROVE  Undisturbed(q)
  BY <1>1, <1>2 DEF Runs, Undisturbed
<1>3. run'[q] = run[q] => Undisturbed(q)
  BY DEF Undisturbed
<1>4. ASSUME NEW g, g[q] = run[q], NEW s, run' = Disturbed(g, s)
      PROVE  Undisturbed(q)
  <2>1. run'[q] = [run[q] EXCEPT !.quiet = run[q].quiet \ {s}]
    BY <1>4 DEF Disturbed
  <2> QED BY <1>2, <2>1
<1>5. CASE Start(p)
  <2>1. CASE StartPrune(p)
    <3>1. run'[q] = [run[q] EXCEPT !.quiet = {}]
      BY <2>1 DEF StartPrune
    <3> QED BY <1>2, <3>1
  <2> QED BY <1>1, <1>3, <1>5, <2>1 DEF Start, StartSync, StartBackfill, StartForget
<1>6. CASE Step(p)
  <2>1. CASE UnlinkSession(p)
    <3>1. PICK r : run' = Disturbed([run EXCEPT ![p] = r], run[p].session)
      BY <2>1 DEF UnlinkSession
    <3>2. [run EXCEPT ![p] = r][q] = run[q]
      BY <1>1
    <3> QED BY <1>4, <3>1, <3>2
  <2>2. CASE ExamineTranscript(p) \/ OpenCopy(p) \/ CopyTranscript(p)
    BY <1>1, <1>3, <2>2 DEF ExamineTranscript, OpenCopy, CopyTranscript
  <2>3. CASE OpenStore(p) \/ BackfillSession(p) \/ FinishBackfill(p) \/ StatFile(p)
             \/ IngestRows(p) \/ RecordSeen(p) \/ SaveManifest(p)
    BY <1>1, <1>3, <2>3 DEF OpenStore, BackfillSession, FinishBackfill, StatFile, IngestRows,
       RecordSeen, SaveManifest, Exit
  <2>4. CASE CountGuard(p) \/ FetchBatch(p) \/ EmbedBatch(p) \/ ForgetMessages(p)
    BY <1>1, <1>3, <2>4 DEF CountGuard, FetchBatch, EmbedBatch, ForgetMessages, Exit
  <2>5. CASE FinishSync(p)
    <3>1. run'[q] = run[q]
      BY <1>1, <2>5, SyncEnds
    <3> QED BY <1>3, <3>1
  <2> QED BY <1>6, <2>1, <2>2, <2>3, <2>4, <2>5 DEF Step
<1>7. CASE Fault(p)
  <2>1. CASE TornCopy(p)
    <3>1. [run EXCEPT ![p] = AfterCopy(run[p], run[p].man)][q] = run[q]
      BY <1>1
    <3> QED BY <1>4, <2>1, <3>1 DEF TornCopy
  <2>2. CASE StuckForget(p)
    <3>1. [run EXCEPT ![p] = IdleRun][q] = run[q]
      BY <1>1
    <3> QED BY <1>4, <2>2, <3>1 DEF StuckForget
  <2> QED BY <1>1, <1>3, <1>7, <2>1, <2>2 DEF Fault, DegradeSync, DegradeBackfill, Kill, Exit
<1> QED BY <1>5, <1>6, <1>7

\* Where a step leaves its command.
LEMMA PhaseAfter ==
    ASSUME PipelineTyped, NEW p \in Procs
    PROVE  /\ \A cmd : StartSync(p, cmd) => run'[p].phase = "sync"
           /\ StartBackfill(p) => run'[p].phase = "backfill"
           /\ StartPrune(p) => run'[p].phase = "save"
           /\ \A s \in Sessions : StartForget(p, s) => run'[p].phase \in {"forget", "unlink"}
           /\ ExamineTranscript(p) => run'[p].phase \in {"sync", "copy"}
           /\ OpenCopy(p) => run'[p].phase \in {"sync", "write"}
           /\ CopyTranscript(p) \/ TornCopy(p) => run'[p].phase = "sync"
           /\ FinishSync(p) \/ FinishBackfill(p) => run'[p].phase = "save"
           /\ DegradeSync(p) => run'[p].phase \in {"idle", "open"}
           /\ OpenStore(p) => run'[p].phase \in {"backfill", "ingest"}
           /\ BackfillSession(p) => run'[p].phase = "backfill"
           /\ DegradeBackfill(p) => run'[p].phase \in {"idle", "ingest"}
           /\ SaveManifest(p) => run'[p].phase \in {"idle", "open", "ingest"}
           /\ StatFile(p) => run'[p].phase \in {"idle", "ingest", "read"}
           /\ IngestRows(p) => run'[p].phase \in {"idle", "seen"}
           /\ RecordSeen(p) => run'[p].phase = "ingest"
           /\ CountGuard(p) => run'[p].phase \in {"idle", "repair"}
           /\ FetchBatch(p) => run'[p].phase \in {"idle", "embed"}
           /\ EmbedBatch(p) => run'[p].phase = "repair"
           /\ ForgetMessages(p) => run'[p].phase = "unlink"
           /\ UnlinkSession(p) => run'[p].phase \in {"idle", "save"}
           /\ StuckForget(p) \/ Kill(p) => run'[p].phase = "idle"
<1>1. run \in [Procs -> Runs] /\ run[p] \in Runs
  BY DEF PipelineTyped, TypeOK
<1>2. Exit(p) => run'[p].phase = "idle"
  BY <1>1 DEF Exit, IdleRun
<1>3. /\ \A man : AfterCopy(run[p], man).phase = "sync"
      /\ \A root : SyncedRun(run[p], root).phase = "open"
      /\ \A r \in Runs : BeginIngest(r).phase = "ingest" /\ BeginBackfill(r).phase = "backfill"
  BY <1>1 DEF AfterCopy, SyncedRun, BeginIngest, BeginBackfill, Runs
<1>4. ASSUME NEW cmd, StartSync(p, cmd)
      PROVE  run'[p].phase = "sync"
  BY <1>1, <1>4 DEF StartSync, IdleRun
<1>5. ASSUME StartBackfill(p)
      PROVE  run'[p].phase = "backfill"
  <2>1. [IdleRun EXCEPT !.cmd = "from-index"] \in Runs
    BY <1>5, IdleRunTyped DEF StartBackfill, Runs
  <2> QED BY <1>1, <1>3, <1>5, <2>1 DEF StartBackfill
<1>6. StartPrune(p) => run'[p].phase = "save"
  BY DEF StartPrune, IdleRun
<1>7. ASSUME NEW s \in Sessions, StartForget(p, s)
      PROVE  run'[p].phase \in {"forget", "unlink"}
  BY <1>1, <1>7 DEF StartForget, IdleRun
<1>8. ASSUME ExamineTranscript(p)
      PROVE  run'[p].phase \in {"sync", "copy"}
  <2>1. PICK s \in run[p].todo :
             \/ run' = [run EXCEPT ![p].todo = @ \ {s}]
             \/ run' = [run EXCEPT ![p].todo = @ \ {s}, ![p].phase = "copy",
                                   ![p].path = CopyTarget(files, run[p].man, s, live[s]),
                                   ![p].stat = Faithful(live[s])]
    BY <1>8 DEF ExamineTranscript
  <2> QED BY <1>1, <1>8, <2>1 DEF ExamineTranscript, Runs
<1>9. OpenCopy(p) => run'[p].phase \in {"sync", "write"}
  BY <1>1, <1>3 DEF OpenCopy, Runs
<1>10. CopyTranscript(p) => run'[p].phase = "sync"
  BY <1>1, <1>3 DEF CopyTranscript
<1>11. ASSUME TornCopy(p)
       PROVE  run'[p].phase = "sync"
  <2>1. PICK r : r = AfterCopy(run[p], run[p].man)
    OBVIOUS
  <2>2. r \in Runs /\ r.phase = "sync"
    BY <1>1, <1>3, <2>1, AfterCopyTyped DEF PipelineTyped, Runs
  <2>3. run'[p] = [r EXCEPT !.quiet = @ \ {SessionOf(run[p].path)}]
    BY <1>1, <1>11, <2>1 DEF TornCopy, Disturbed
  <2> QED BY <2>2, <2>3 DEF Runs
<1>12. ASSUME FinishSync(p)
       PROVE  run'[p].phase = "save"
  <2>1. PICK man, gone :
           run' = [run EXCEPT ![p].phase = "save", ![p].man = man, ![p].quiet = @ \ gone]
    BY <1>12 DEF FinishSync
  <2> QED BY <1>1, <1>3, <2>1 DEF Runs
<1>13. FinishBackfill(p) => run'[p].phase = "save"
  BY <1>1 DEF FinishBackfill, Runs
<1>14. DegradeSync(p) => run'[p].phase \in {"idle", "open"}
  BY <1>1, <1>2, <1>3 DEF DegradeSync
<1>15. OpenStore(p) => run'[p].phase \in {"backfill", "ingest"}
  BY <1>1, <1>3 DEF OpenStore
<1>16. BackfillSession(p) => run'[p].phase = "backfill"
  BY <1>1 DEF BackfillSession, Runs
<1>17. DegradeBackfill(p) => run'[p].phase \in {"idle", "ingest"}
  BY <1>1, <1>2, <1>3 DEF DegradeBackfill
<1>18. SaveManifest(p) => run'[p].phase \in {"idle", "open", "ingest"}
  BY <1>1, <1>2, <1>3 DEF SaveManifest
<1>19. StatFile(p) => run'[p].phase \in {"idle", "ingest", "read"}
  BY <1>1, <1>2 DEF StatFile, Runs
<1>20. IngestRows(p) => run'[p].phase \in {"idle", "seen"}
  BY <1>1, <1>2 DEF IngestRows, Runs
<1>21. RecordSeen(p) => run'[p].phase = "ingest"
  BY <1>1 DEF RecordSeen, Runs
<1>22. CountGuard(p) => run'[p].phase \in {"idle", "repair"}
  BY <1>1, <1>2 DEF CountGuard, Runs
<1>23. FetchBatch(p) => run'[p].phase \in {"idle", "embed"}
  BY <1>1, <1>2 DEF FetchBatch, Runs
<1>24. EmbedBatch(p) => run'[p].phase = "repair"
  BY <1>1 DEF EmbedBatch, Runs
<1>25. ForgetMessages(p) => run'[p].phase = "unlink"
  BY <1>1 DEF ForgetMessages, Runs
<1>26. ASSUME UnlinkSession(p)
       PROVE  run'[p].phase \in {"idle", "save"}
  <2> DEFINE man == Unlisted(manifest, FilesOf(files, run[p].session))
  <2>1. PICK r : /\ r \in {IdleRun, [IdleRun EXCEPT !.phase = "save", !.cmd = "forget",
                                                    !.man = man]}
                 /\ run' = Disturbed([run EXCEPT ![p] = r], run[p].session)
    BY <1>26 DEF UnlinkSession
  <2> HIDE DEF man
  <2>2. run'[p] = [r EXCEPT !.quiet = @ \ {run[p].session}]
    BY <1>1, <2>1 DEF Disturbed
  <2>3. CASE r = IdleRun
    BY <2>2, <2>3 DEF IdleRun
  <2>4. CASE r = [IdleRun EXCEPT !.phase = "save", !.cmd = "forget", !.man = man]
    BY <2>2, <2>4 DEF IdleRun
  <2> QED BY <2>1, <2>3, <2>4
<1>27. Kill(p) => run'[p].phase = "idle"
  BY <1>2 DEF Kill
<1>28. ASSUME StuckForget(p)
       PROVE  run'[p].phase = "idle"
  <2>1. run'[p] = [IdleRun EXCEPT !.quiet = @ \ {run[p].session}]
    BY <1>1, <1>28 DEF StuckForget, Disturbed
  <2> QED BY <2>1 DEF IdleRun
<1> QED BY <1>4, <1>5, <1>6, <1>7, <1>8, <1>9, <1>10, <1>11, <1>12, <1>13, <1>14, <1>15, <1>16,
     <1>17, <1>18, <1>19, <1>20, <1>21, <1>22, <1>23, <1>24, <1>25, <1>26, <1>27, <1>28

\* Only a fetch and the beginning of a forget read rowids.
LEMMA IdsAreRead ==
    ASSUME PipelineTyped, NEW p \in Procs, Start(p) \/ Step(p) \/ Fault(p)
    PROVE  \/ run'[p].phase \notin {"embed", "forget"}
           \/ FetchBatch(p) \/ \E s \in Sessions : StartForget(p, s)
BY PhaseAfter DEF Start, Step, Fault

\* Only four kinds of step change the index.
LEMMA IndexIsKept ==
    ASSUME NEW p \in Procs, Start(p) \/ Step(p) \/ Fault(p),
           ~IngestRows(p), ~EmbedBatch(p), ~ForgetMessages(p), TypeOK
    PROVE  /\ index'.messages = index.messages /\ index'.vectors = index.vectors
           /\ index'.unpurged = index.unpurged
<1>1. index \in Index
  BY DEF TypeOK
<1>2. CASE OpenStore(p) \/ RecordSeen(p)
  BY <1>1, <1>2 DEF OpenStore, RecordSeen, RecordFileSeen, Index
<1>3. CASE ~OpenStore(p) /\ ~RecordSeen(p)
  <2>1. CASE Start(p)
    BY <2>1 DEF Start, StartSync, StartBackfill, StartPrune, StartForget
  <2>2. CASE Step(p)
    BY <1>3, <2>2 DEF Step, ExamineTranscript, OpenCopy, CopyTranscript, FinishSync,
       BackfillSession, FinishBackfill, StatFile, CountGuard, FetchBatch, UnlinkSession,
       SaveManifest
  <2>3. CASE Fault(p)
    BY <2>3 DEF Fault, TornCopy, DegradeSync, DegradeBackfill, StuckForget, Kill
  <2> QED BY <2>1, <2>2, <2>3
<1> QED BY <1>2, <1>3

\* What the guards of the comparison read: where every vector has its message, a
\* repair that finds as many vectors as messages finds all of them.
LEMMA CountsTell ==
    ASSUME VectorsHaveMessages, index.unpurged = {}, IsFiniteSet(index.messages), CountsAgree(index)
    PROVE  MessageIds(index) \subseteq index.vectors
<1> DEFINE id == [m \in index.messages |-> m.id]
<1>1. id \in Surjection(index.messages, MessageIds(index))
  BY DEF Surjection, MessageIds
<1>2. /\ IsFiniteSet(MessageIds(index))
      /\ Cardinality(MessageIds(index)) <= Cardinality(index.messages)
  <2> HIDE DEF id
  <2> QED BY <1>1, FS_Surjection
<1>3. index.vectors \in SUBSET MessageIds(index)
  BY DEF VectorsHaveMessages, MessageIds
<1>4. /\ Cardinality(index.vectors) <= Cardinality(MessageIds(index))
      /\ Cardinality(MessageIds(index)) = Cardinality(index.vectors) =>
            MessageIds(index) = index.vectors
      /\ IsFiniteSet(index.vectors)
  BY <1>2, <1>3, FS_Subset
<1>5. /\ Cardinality(index.vectors) \in Nat /\ Cardinality(MessageIds(index)) \in Nat
      /\ Cardinality(index.messages) \in Nat
  BY <1>2, <1>4, FS_CardinalityType
<1> QED BY <1>2, <1>4, <1>5 DEF CountsAgree

\* The empty index has no vector.
LEMMA InitVectors == Init => VectorInv
<1> SUFFICES ASSUME Init
             PROVE  VectorInv
  OBVIOUS
<1>1. PipelineTyped
  BY InitTyped
<1>2. \A p \in Procs : run[p].phase = "idle"
  BY DEF Init, IdleRun
<1> QED BY <1>1, <1>2 DEF Init, EmptyIndex, VectorInv, VectorsHaveMessages, IdsInHand

\* A step that keeps messages and vectors.
LEMMA SameVectors ==
    ASSUME VectorInv, PipelineTyped', index'.messages = index.messages,
           index'.vectors = index.vectors, index'.unpurged = index.unpurged,
           \A q \in Procs :
              \/ run'[q].phase \notin {"embed", "forget"}
              \/ /\ run'[q].phase = run[q].phase /\ run'[q].ids = run[q].ids
                 /\ run'[q].session = run[q].session
              \/ IdsInHand(q)'
    PROVE  VectorInv'
<1>1. VectorsHaveMessages'
  BY DEF VectorInv, VectorsHaveMessages
<1>2. \A s : MessagesOf(index, s)' = MessagesOf(index, s)
  BY DEF MessagesOf
<1>3. MessageIds(index)' = MessageIds(index)
  BY DEF MessageIds
<1>4. ASSUME NEW q \in Procs
      PROVE  IdsInHand(q)'
  <2>1. CASE run'[q].phase \notin {"embed", "forget"}
    BY <2>1 DEF IdsInHand
  <2>2. CASE /\ run'[q].phase = run[q].phase /\ run'[q].ids = run[q].ids
             /\ run'[q].session = run[q].session
    <3>1. MessagesOf(index', run'[q].session) = MessagesOf(index, run[q].session)
      BY <1>2, <2>2
    <3> QED BY <1>3, <2>2, <3>1 DEF VectorInv, IdsInHand
  <2> QED BY <2>1, <2>2
<1> QED BY <1>1, <1>4 DEF VectorInv

\* Ids that ingest_file gives its messages are those it gives its vectors.
LEMMA IngestVectors ==
    ASSUME NEW d \in Index, NEW path, NEW f, NEW embed \in BOOLEAN,
           d.vectors \ d.unpurged \subseteq MessageIds(d)
    PROVE  LET e == IngestFile(d, path, f, embed) IN
           /\ e.vectors \ e.unpurged \subseteq MessageIds(e)
           /\ d.messages \subseteq e.messages
<1> DEFINE s   == SessionOf(path)
           new == TextsOf(f) \ IndexedTexts(d, s)
           id  == [r \in new |-> d.next + Cardinality({q \in new : q < r})]
           M(r) == [id |-> id[r], session |-> s, row |-> r, src |-> path]
           e == IngestFile(d, path, f, embed)
<1>1. /\ e.messages = d.messages \union {M(r) : r \in new}
      /\ e.vectors = IF embed THEN d.vectors \union {id[r] : r \in new} ELSE d.vectors
      /\ e.unpurged = d.unpurged
  BY DEF IngestFile, Index
<1>2. ASSUME NEW r \in new
      PROVE  id[r] \in MessageIds(e)
  <2>1. M(r) \in e.messages /\ M(r).id = id[r]
    BY <1>1, <1>2
  <2> HIDE DEF e, M, id
  <2> QED BY <2>1 DEF MessageIds
<1>3. MessageIds(d) \subseteq MessageIds(e)
  <2> HIDE DEF M, id, new, e
  <2> QED BY <1>1 DEF MessageIds
<1> HIDE DEF M, id, new, e
<1>4. e.vectors \ e.unpurged \subseteq MessageIds(e) /\ d.messages \subseteq e.messages
  BY <1>1, <1>2, <1>3
<1> QED BY <1>4 DEF e

\* The messages of the other sessions stay as they are, and a file without rows
\* brings none.
LEMMA IngestOthers ==
    ASSUME NEW d \in Index, NEW path, NEW f, NEW embed \in BOOLEAN, NEW s,
           SessionOf(path) # s \/ RowsOf(f) = {}
    PROVE  MessagesOf(IngestFile(d, path, f, embed), s) = MessagesOf(d, s)
<1> DEFINE x   == SessionOf(path)
           new == TextsOf(f) \ IndexedTexts(d, x)
           id  == [r \in new |-> d.next + Cardinality({q \in new : q < r})]
           MM  == {[id |-> id[r], session |-> x, row |-> r, src |-> path] : r \in new}
<1>1. IngestFile(d, path, f, embed).messages = d.messages \union MM
  BY DEF IngestFile, Index
<1>2. \A m \in MM : m.session = x
  <2> HIDE DEF new, id, x
  <2> QED OBVIOUS
<1>3. CASE x # s
  <2> HIDE DEF MM, x
  <2> QED BY <1>1, <1>2, <1>3 DEF MessagesOf
<1>4. CASE RowsOf(f) = {}
  <2>1. MM = {}
    BY <1>4 DEF TextsOf
  <2> HIDE DEF MM
  <2> QED BY <1>1, <2>1 DEF MessagesOf
<1> QED BY <1>3, <1>4

\* Between the moment a forget reads the rowids and its transaction, nobody ingests the
\* session and nobody has a batch to embed.
ForgetReadsInPeace ==
    \A p, q \in Procs :
       run[p].phase = "forget" =>
          /\ run[q].phase # "embed"
          /\ run[q].phase = "read" => SessionOf(run[q].path) # run[p].session

\* An ingest adds vectors with the messages they name.
LEMMA IngestKeepsVectors ==
    ASSUME VectorInv, PipelineTyped', ForgetReadsInPeace, NEW p \in Procs, IngestRows(p)
    PROVE  VectorInv'
<1>1. PipelineTyped /\ index \in Index /\ run \in [Procs -> Runs] /\ run[p].phase = "read"
  BY DEF IngestRows, VectorInv, PipelineTyped, TypeOK
<1>2. CASE index' = index
  <2>1. run'[p].phase \notin {"embed", "forget"}
    BY <1>1 DEF IngestRows, Exit, IdleRun, Runs
  <2>2. \A q \in Procs \ {p} : /\ run'[q].phase = run[q].phase /\ run'[q].ids = run[q].ids
                               /\ run'[q].session = run[q].session
    BY <1>1, OthersKeep DEF Step, Undisturbed
  <2> QED BY <1>2, <2>1, <2>2, SameVectors
<1>3. CASE index' # index
  <2>1. /\ index' = IngestFile(index, run[p].path, FileAt(run[p].path), Embeds(p))
        /\ run' = [run EXCEPT ![p].phase = "seen"]
    BY <1>3 DEF IngestRows
  <2>2. Embeds(p) \in BOOLEAN
    BY DEF Embeds
  <2>3. index.vectors \ index.unpurged \subseteq MessageIds(index)
    BY DEF VectorInv, VectorsHaveMessages, MessageIds
  <2>4. index'.vectors \ index'.unpurged \subseteq MessageIds(index') /\ index.messages \subseteq index'.messages
    BY <1>1, <2>1, <2>2, <2>3, IngestVectors
  <2>5. MessageIds(index) \subseteq MessageIds(index')
    BY <2>4 DEF MessageIds
  <2>6. ASSUME NEW q \in Procs
        PROVE  IdsInHand(q)'
    <3>1. CASE q = p
      <4>1. run'[q].phase = "seen"
        BY <1>1, <2>1, <3>1 DEF Runs
      <4> QED BY <4>1 DEF IdsInHand
    <3>2. CASE q # p
      <4>1. run'[q] = run[q]
        BY <1>1, <2>1, <3>2
      <4>2. ASSUME run[q].phase = "forget"
            PROVE  MessagesOf(index', run[q].session) = MessagesOf(index, run[q].session)
        <5>1. SessionOf(run[p].path) # run[q].session
          BY <1>1, <4>2 DEF ForgetReadsInPeace
        <5> QED BY <1>1, <2>1, <2>2, <5>1, IngestOthers
      <4> QED BY <2>5, <4>1, <4>2 DEF VectorInv, IdsInHand
    <3> QED BY <3>1, <3>2
  <2> QED BY <2>4, <2>6 DEF VectorInv, VectorsHaveMessages, MessageIds
<1> QED BY <1>2, <1>3

\* A repair embeds messages that are still there.
LEMMA EmbedKeepsVectors ==
    ASSUME VectorInv, PipelineTyped', NEW p \in Procs, EmbedBatch(p)
    PROVE  VectorInv'
<1>1. index \in Index /\ run \in [Procs -> Runs] /\ run[p].phase = "embed"
  BY DEF EmbedBatch, VectorInv, PipelineTyped, TypeOK
<1>2. /\ run[p].ids \subseteq MessageIds(index)
      /\ index.vectors \ index.unpurged \subseteq MessageIds(index)
  BY <1>1 DEF VectorInv, IdsInHand, VectorsHaveMessages, MessageIds
<1>3. /\ index'.messages = index.messages /\ index'.vectors = index.vectors \union run[p].ids
      /\ index'.unpurged = index.unpurged
  BY <1>1 DEF EmbedBatch, UpsertEmbeddings, Index
<1>4. VectorsHaveMessages'
  BY <1>2, <1>3 DEF VectorsHaveMessages, MessageIds
<1>5. MessageIds(index') = MessageIds(index)
      /\ \A s : MessagesOf(index', s) = MessagesOf(index, s)
  BY <1>3 DEF MessageIds, MessagesOf
<1>6. ASSUME NEW q \in Procs
      PROVE  IdsInHand(q)'
  <2>1. CASE q = p
    <3>1. run'[q].phase = "repair"
      BY <1>1, <2>1 DEF EmbedBatch, Runs
    <3> QED BY <3>1 DEF IdsInHand
  <2>2. CASE q # p
    <3>1. run'[q] = run[q]
      BY <1>1, <2>2 DEF EmbedBatch
    <3> QED BY <1>5, <3>1 DEF VectorInv, IdsInHand
  <2> QED BY <2>1, <2>2
<1> QED BY <1>4, <1>6 DEF VectorInv

\* A forget deletes vectors with their messages, or counts them as unpurged.
LEMMA ForgetKeepsVectors ==
    ASSUME VectorInv, PipelineTyped', ForgetReadsInPeace, NEW p \in Procs, ForgetMessages(p)
    PROVE  VectorInv'
<1>1. index \in Index /\ run \in [Procs -> Runs] /\ run[p].phase = "forget"
  BY DEF ForgetMessages, VectorInv, PipelineTyped, TypeOK
<1>2. {m.id : m \in MessagesOf(index, run[p].session)} \subseteq run[p].ids
  BY <1>1 DEF VectorInv, IdsInHand
<1>3. /\ \/ /\ index'.vectors = index.vectors \ run[p].ids
            /\ index'.unpurged = index.unpurged
         \/ /\ index'.vectors = index.vectors
            /\ index'.unpurged = index.unpurged \union (run[p].ids \cap index.vectors)
      /\ index'.messages = index.messages \ MessagesOf(index, run[p].session)
  BY <1>1, DeletedIndex DEF ForgetMessages
<1>4. VectorsHaveMessages'
  BY <1>2, <1>3 DEF VectorInv, VectorsHaveMessages
<1>5. run'[p].phase = "unlink"
  BY <1>1 DEF ForgetMessages, Runs
<1>6. ASSUME NEW q \in Procs \ {p}
      PROVE  IdsInHand(q)'
  <2>1. run'[q] = run[q] /\ run[q].phase # "embed"
    BY <1>1 DEF ForgetMessages, ForgetReadsInPeace
  <2>2. MessagesOf(index', run[q].session) \subseteq MessagesOf(index, run[q].session)
    BY <1>3 DEF MessagesOf
  <2> QED BY <2>1, <2>2 DEF VectorInv, IdsInHand
<1> QED BY <1>4, <1>5, <1>6 DEF VectorInv, IdsInHand

\* Every step keeps the vectors' messages, unless another command interferes with the
\* reads of a forget.
LEMMA NextVectors ==
    ASSUME VectorInv, ForgetReadsInPeace, [Next]_vars
    PROVE  VectorInv'
<1>1. PipelineTyped /\ PipelineTyped'
  BY NextTyped DEF VectorInv
<1>2. CASE UNCHANGED vars
  BY <1>1, <1>2, SameVectors DEF vars
<1>3. CASE Outside
  <2>1. PICK s \in Sessions : Disturb(s) /\ index' = index
    BY <1>3 DEF Outside, WriteTranscript, RotateTranscript, ChangeExclude
  <2>2. ASSUME NEW q \in Procs
        PROVE  /\ run'[q].phase = run[q].phase /\ run'[q].ids = run[q].ids
               /\ run'[q].session = run[q].session
    <3>1. run'[q] = [run[q] EXCEPT !.quiet = @ \ {s}] /\ run[q] \in Runs
      BY <1>1, <2>1 DEF Disturb, Disturbed, PipelineTyped, TypeOK
    <3> QED BY <3>1 DEF Runs
  <2> QED BY <1>1, <2>1, <2>2, SameVectors
<1>4. ASSUME NEW p \in Procs, Start(p) \/ Step(p) \/ Fault(p)
      PROVE  VectorInv'
  <2>1. CASE ~IngestRows(p) /\ ~EmbedBatch(p) /\ ~ForgetMessages(p)
    <3>1. /\ index'.messages = index.messages /\ index'.vectors = index.vectors
          /\ index'.unpurged = index.unpurged
      BY <1>1, <1>4, <2>1, IndexIsKept DEF PipelineTyped
    <3>2. \A q \in Procs \ {p} : /\ run'[q].phase = run[q].phase /\ run'[q].ids = run[q].ids
                                 /\ run'[q].session = run[q].session
      BY <1>1, <1>4, OthersKeep DEF Undisturbed
    <3>3. run'[p].phase \notin {"embed", "forget"} \/ IdsInHand(p)'
      <4>1. CASE FetchBatch(p)
        <5>1. /\ index' = index /\ run[p].phase = "repair"
              /\ \/ Exit(p)
                 \/ run' = [run EXCEPT ![p].phase = "embed", ![p].ids = FetchUnembedded(index)]
          BY <4>1 DEF FetchBatch
        <5>2. \/ run'[p].phase = "idle"
              \/ run'[p].phase = "embed" /\ run'[p].ids = FetchUnembedded(index)
          BY <1>1, <5>1 DEF Exit, IdleRun, PipelineTyped, TypeOK, Runs
        <5>3. FetchUnembedded(index) \subseteq MessageIds(index')
          BY <5>1 DEF FetchUnembedded, MessageIds
        <5> QED BY <5>2, <5>3 DEF IdsInHand
      <4>2. CASE \E s \in Sessions : StartForget(p, s)
        <5>1. PICK s \in Sessions : StartForget(p, s)
          BY <4>2
        <5>2. PICK phase, ids, paths :
                 /\ phase = IF MessagesOf(index, s) = {} THEN "unlink" ELSE "forget"
                 /\ ids = {m.id : m \in MessagesOf(index, s)}
                 /\ paths = {m.src : m \in MessagesOf(index, s)}
          OBVIOUS
        <5>3. index' = index
              /\ run' = [run EXCEPT ![p] = [IdleRun EXCEPT !.cmd = "forget", !.session = s,
                            !.phase = phase, !.ids = ids, !.paths = paths]]
          BY <5>1, <5>2 DEF StartForget
        <5>4. /\ run'[p].phase \in {"unlink", "forget"}
              /\ run'[p].ids = ids /\ run'[p].session = s
          BY <1>1, <5>2, <5>3 DEF IdleRun, PipelineTyped, TypeOK
        <5> QED BY <5>2, <5>3, <5>4 DEF IdsInHand
      <4> QED BY <1>1, <1>4, <4>1, <4>2, IdsAreRead
    <3> QED BY <1>1, <3>1, <3>2, <3>3, SameVectors
  <2> QED BY <1>1, <2>1, IngestKeepsVectors, EmbedKeepsVectors, ForgetKeepsVectors
<1> QED BY <1>2, <1>3, <1>4 DEF Next

\* No vector outlives its message, whatever runs meanwhile, but those that a forget
\* cannot purge because sqlite-vec does not load any more, unless another command
\* adds messages or vectors while a forget has its rowids in hand
\* (_delete_session_from_index reads them before its transaction; embed_missing
\* fetches its batch before it embeds it).
THEOREM VectorsNameMessages == Spec /\ []ForgetReadsInPeace => []VectorsHaveMessages
<1>1. VectorInv /\ ForgetReadsInPeace /\ [Next]_vars => VectorInv'
  BY NextVectors
<1>2. VectorInv => VectorsHaveMessages
  BY DEF VectorInv
<1> QED BY InitVectors, <1>1, <1>2, PTL DEF Spec

\* An embedding command that ends has found no message without its vector.
LEMMA EmbedEnds ==
    ASSUME VectorInv, NEW p \in Procs, (CountGuard(p) /\ index.unpurged = {}) \/ FetchBatch(p),
           Embeds(p), run'[p].phase = "idle"
    PROVE  {m.id : m \in index.messages} \subseteq index.vectors
<1>1. run \in [Procs -> Runs] /\ IsFiniteSet(index.messages)
  BY DEF VectorInv, PipelineTyped, TypeOK
<1>2. CASE CountGuard(p) /\ index.unpurged = {}
  <2>1. CountsAgree(index)
    BY <1>1, <1>2 DEF CountGuard, Runs
  <2> QED BY <1>1, <1>2, <2>1, CountsTell DEF VectorInv, MessageIds
<1>3. CASE FetchBatch(p)
  <2>1. FetchUnembedded(index) = {}
    BY <1>1, <1>3 DEF FetchBatch, Runs
  <2> QED BY <2>1 DEF FetchUnembedded
<1> QED BY <1>2, <1>3

\* So an embedding command that ends has left no message without its vector: the
\* comparison of two counts is enough as long as no forget had to leave vectors,
\* and the search for messages without one is enough in any case (embed_missing).
THEOREM RepairCompletes == Spec /\ []ForgetReadsInPeace => RepairIsComplete
<1>1. VectorInv /\ ForgetReadsInPeace /\ [Next]_vars => VectorInv'
  BY NextVectors
<1>2. ASSUME VectorInv, NEW p \in Procs,
             (CountGuard(p) /\ index.unpurged = {}) \/ FetchBatch(p),
             Embeds(p), run'[p].phase = "idle"
      PROVE  {m.id : m \in index.messages} \subseteq index.vectors
  BY <1>2, EmbedEnds
<1>3. VectorInv =>
         \A p \in Procs :
           ((CountGuard(p) /\ index.unpurged = {}) \/ FetchBatch(p))
           /\ Embeds(p) /\ run'[p].phase = "idle" =>
              {m.id : m \in index.messages} \subseteq index.vectors
  BY <1>2
<1> QED BY InitVectors, <1>1, <1>3, PTL DEF Spec, RepairIsComplete

-----------------------------------------------------------------------------
(* What a forget removes *)

\* What happens outside changes nothing that the commands keep, but the history
\* of what was left alone.
LEMMA OutsideKeeps ==
    ASSUME PipelineTyped, Outside
    PROVE  /\ files' = files /\ manifest' = manifest /\ index' = index /\ faults' = faults
           /\ \E s \in Sessions :
                /\ excluded' = excluded \/ excluded' = (excluded \ {s}) \union ({s} \ excluded)
                /\ \A q \in Procs : run'[q] = [run[q] EXCEPT !.quiet = @ \ {s}]
BY DEF Outside, WriteTranscript, RotateTranscript, ChangeExclude, Disturb, Disturbed

\* A step that is not one of slot p or of the world outside changes nothing.
LEMMA OneActs ==
    ASSUME OneAtATime, NEW p \in Procs, Next
    PROVE  Outside \/ Start(p) \/ Step(p) \/ Fault(p)
BY DEF OneAtATime, Next

\* Once a forget has come to the archive, nobody ingests the session.
ForgetUndisturbed ==
    \A p, q \in Procs :
       run[p].phase = "unlink" /\ run[q].phase = "read" =>
          SessionOf(run[q].path) # run[p].session

\* The index gets messages from an ingest only, and those are of one session.
LEMMA OthersMessages ==
    ASSUME PipelineTyped, NEW p \in Procs, Start(p) \/ Step(p) \/ Fault(p), NEW s,
           run[p].phase = "read" => SessionOf(run[p].path) # s
    PROVE  MessagesOf(index', s) \subseteq MessagesOf(index, s)
<1>1. index \in Index /\ TypeOK
  BY DEF PipelineTyped, TypeOK
<1>2. CASE IngestRows(p)
  <2>1. /\ SessionOf(run[p].path) # s
        /\ \/ index' = index
           \/ index' = IngestFile(index, run[p].path, FileAt(run[p].path), Embeds(p))
    BY <1>2 DEF IngestRows
  <2>2. Embeds(p) \in BOOLEAN
    BY DEF Embeds
  <2>3. MessagesOf(IngestFile(index, run[p].path, FileAt(run[p].path), Embeds(p)), s)
           = MessagesOf(index, s)
    BY <1>1, <2>1, <2>2, IngestOthers
  <2> QED BY <2>1, <2>3
<1>3. CASE EmbedBatch(p) \/ ForgetMessages(p)
  <2>1. EmbedBatch(p) => index'.messages = index.messages
    BY <1>1 DEF EmbedBatch, UpsertEmbeddings, Index
  <2>2. ForgetMessages(p) =>
           index'.messages = index.messages \ MessagesOf(index, run[p].session)
    BY <1>1 DEF ForgetMessages, DeleteSession, UnpurgedDeleteSession, Index
  <2> QED BY <1>3, <2>1, <2>2 DEF MessagesOf
<1>4. CASE ~IngestRows(p) /\ ~EmbedBatch(p) /\ ~ForgetMessages(p)
  BY <1>1, <1>4, IndexIsKept DEF MessagesOf
<1> QED BY <1>2, <1>3, <1>4

\* Every step keeps the index empty of a session whose forget has reached the
\* archive, unless it ingests that session.
LEMMA NextForgotten ==
    ASSUME ForgottenInv, ForgetUndisturbed, [Next]_vars
    PROVE  ForgottenInv'
<1>1. PipelineTyped /\ PipelineTyped'
  BY NextTyped DEF ForgottenInv
<1>2. ASSUME NEW p \in Procs
      PROVE  Forgotten(p)'
  <2>1. run \in [Procs -> Runs] /\ run[p] \in Runs /\ index \in Index /\ Forgotten(p)
    BY <1>1 DEF ForgottenInv, PipelineTyped, TypeOK
  <2>2. CASE UNCHANGED vars
    BY <2>1, <2>2 DEF vars, Forgotten, MessagesOf
  <2>3. CASE Outside
    <3>1. /\ index' = index /\ run'[p].phase = run[p].phase /\ run'[p].session = run[p].session
      BY <1>1, <2>1, <2>3, OutsideKeeps DEF Runs
    <3> QED BY <2>1, <3>1 DEF Forgotten
  <2>4. CASE \E s \in Sessions : StartForget(p, s)
    <3>1. PICK s \in Sessions : StartForget(p, s)
      BY <2>4
    <3>2. PICK phase, ids, paths :
             /\ phase = IF MessagesOf(index, s) = {} THEN "unlink" ELSE "forget"
             /\ ids = {m.id : m \in MessagesOf(index, s)}
             /\ paths = {m.src : m \in MessagesOf(index, s)}
      OBVIOUS
    <3>3. index' = index
          /\ run' = [run EXCEPT ![p] = [IdleRun EXCEPT !.cmd = "forget", !.session = s,
                        !.phase = phase, !.ids = ids, !.paths = paths]]
      BY <3>1, <3>2 DEF StartForget
    <3>4. run'[p].phase = phase /\ run'[p].session = s
      BY <2>1, <3>3 DEF IdleRun
    <3> QED BY <3>2, <3>3, <3>4 DEF Forgotten
  <2>5. CASE ForgetMessages(p)
    <3>1. index'.messages = index.messages \ MessagesOf(index, run[p].session)
          /\ run'[p].session = run[p].session
      BY <2>1, <2>5 DEF ForgetMessages, DeleteSession, UnpurgedDeleteSession, Index, Runs
    <3> QED BY <3>1 DEF Forgotten, MessagesOf
  <2>6. CASE (Start(p) \/ Step(p) \/ Fault(p)) /\ run'[p].phase # "unlink"
    BY <2>6 DEF Forgotten
  <2>7. ASSUME NEW q \in Procs \ {p}, Start(q) \/ Step(q) \/ Fault(q)
        PROVE  Forgotten(p)'
    <3>1. run'[p].phase = run[p].phase /\ run'[p].session = run[p].session
      BY <1>1, <2>7, OthersKeep DEF Undisturbed
    <3>2. run[p].phase = "unlink" =>
             MessagesOf(index', run[p].session) \subseteq MessagesOf(index, run[p].session)
      BY <1>1, <2>7, OthersMessages DEF ForgetUndisturbed
    <3> QED BY <2>1, <3>1, <3>2 DEF Forgotten
  <2>8. CASE Start(p) \/ Step(p) \/ Fault(p)
    BY <1>1, <2>4, <2>5, <2>6, <2>8, PhaseAfter DEF Start, Step, Fault
  <2> QED BY <2>2, <2>3, <2>7, <2>8 DEF Next
<1> QED BY <1>1, <1>2 DEF ForgottenInv

\* What the files of a session hold once those with its rows are removed.
LEMMA UnlinkedRows ==
    ASSUME NEW fs, NEW s \in Sessions, NEW paths, FilesOf(fs, s) \subseteq paths,
           NEW path \in ArchivePaths, SessionOf(path) = s
    PROVE  RowsOf(Unlink(fs, paths)[path]) = {}
<1>1. CASE path \in paths
  BY <1>1 DEF Unlink, RowsOf
<1>2. CASE path \notin paths
  <2>1. Unlink(fs, paths)[path] = fs[path] /\ (fs[path] = Absent \/ fs[path].rows = << >>)
    BY <1>2 DEF Unlink, FilesOf
  <2> QED BY <2>1 DEF RowsOf, ToSet
<1> QED BY <1>1, <1>2

\* A forget has removed the session from the index and from the archive, the sidecars
\* and what a crash left included, unless another command ingests the session between
\* its two deletions (_forget_session).
THEOREM ForgetCompletes == Spec /\ []ForgetUndisturbed => ForgetIsComplete
<1>1. Init => ForgottenInv
  BY InitTyped DEF Init, IdleRun, ForgottenInv, Forgotten
<1>2. ForgottenInv /\ ForgetUndisturbed /\ [Next]_vars => ForgottenInv'
  BY NextForgotten
<1>3. ASSUME ForgottenInv, NEW p \in Procs, UnlinkSession(p)
      PROVE  LET s == run[p].session IN
             MessagesOf(index', s) = {} /\ ArchivedRows(files', s) = {}
  <2>1. run[p].phase = "unlink" /\ index' = index /\ run[p].session \in Sessions
    BY <1>3 DEF UnlinkSession, ForgottenInv, PipelineTyped, InHand
  <2>2. MessagesOf(index', run[p].session) = {}
    BY <1>3, <2>1 DEF ForgottenInv, Forgotten
  <2>3. files' = Unlink(files, FilesOf(files, run[p].session))
    BY <1>3 DEF UnlinkSession
  <2>4. ArchivedRows(files', run[p].session) = {}
    BY <2>1, <2>3, UnlinkedRows DEF ArchivedRows
  <2> QED BY <2>2, <2>4
<1>4. ForgottenInv =>
         \A p \in Procs : UnlinkSession(p) =>
            LET s == run[p].session IN
            MessagesOf(index', s) = {} /\ ArchivedRows(files', s) = {}
  BY <1>3
<1> QED BY <1>1, <1>2, <1>4, PTL DEF Spec, ForgetIsComplete

-----------------------------------------------------------------------------
(* What a copy overwrites *)

\* The rows of a prefix are rows of the whole.
LEMMA PrefixRows ==
    ASSUME NEW a \in Seq(Nat), NEW b \in Seq(Nat), IsPrefix(a, b)
    PROVE  ToSet(a) \subseteq ToSet(b)
<1>1. Len(a) <= Len(b) /\ SubSeq(a, 1, Len(a)) = SubSeq(b, 1, Len(a))
  BY DEF IsPrefix
<1>2. ASSUME NEW i \in 1..Len(a)
      PROVE  a[i] = b[i]
  <2>1. SubSeq(a, 1, Len(a))[i] = a[i] /\ SubSeq(b, 1, Len(a))[i] = b[i]
    BY <1>1
  <2> QED BY <1>1, <2>1
<1> QED BY <1>1, <1>2 DEF ToSet

\* A copy goes where nothing is that it would lose.
LEMMA TargetIsCovered ==
    ASSUME TypeOK, NEW man \in Manifests, NEW s \in Sessions, NEW t \in Transcripts,
           CopyTarget(files, man, s, t) # None, man[s] # Backfill
    PROVE  RowsOf(files[CopyTarget(files, man, s, t)]) \subseteq RowsOf(Faithful(t))
<1> DEFINE f == files[CanonicalPath(s)]
<1>1. t \in Seq(Nat) /\ RowsOf(Faithful(t)) = ToSet(t)
  <2>1. Faithful(t) \in File /\ t \in Seq(Nat)
    BY ArchiveAssumption DEF Faithful, File
  <2>2. Faithful(t) # Absent
    BY <2>1, NamesAssumption
  <2> QED BY <2>1, <2>2 DEF RowsOf, Faithful
<1>2. f \in File \union {Absent}
  BY DEF TypeOK, CanonicalPath, ArchivePaths
<1>3. CASE CopyTarget(files, man, s, t) = CanonicalPath(s) /\ f # Absent
  <2>1. ArchivedIsPrefixOfLive(f, t) \/ CopyTarget(files, man, s, t) = SidecarPath(s, t)
    BY <1>3 DEF CopyTarget
  <2>2. CanonicalPath(s) # SidecarPath(s, t)
    BY ArchiveAssumption DEF CanonicalPath, SidecarPath
  <2>3. f.rows \in Seq(Nat) /\ (f.rows = << >> \/ IsPrefix(f.rows, t))
    BY <1>2, <1>3, <2>1, <2>2 DEF ArchivedIsPrefixOfLive, File
  <2>4. ToSet(f.rows) \subseteq ToSet(t)
    <3>1. CASE f.rows = << >>
      BY <3>1 DEF ToSet
    <3>2. CASE IsPrefix(f.rows, t)
      BY <1>1, <2>3, <3>2, PrefixRows
    <3> QED BY <2>3, <3>1, <3>2
  <2> QED BY <1>1, <1>3, <2>4 DEF RowsOf
<1>4. CASE files[CopyTarget(files, man, s, t)] = Absent
  BY <1>4 DEF RowsOf
<1> QED BY <1>3, <1>4 DEF CopyTarget

\* What is archived of a session when one of its files is emptied or replaced.
LEMMA ReplacedRows ==
    ASSUME TypeOK, NEW path \in ArchivePaths, NEW f, files' = [files EXCEPT ![path] = f]
    PROVE  /\ ArchivedRows(files, SessionOf(path)) \subseteq
                RowsOf(files[path]) \union ArchivedRows(files', SessionOf(path))
           /\ RowsOf(f) \subseteq ArchivedRows(files', SessionOf(path))
           /\ RowsOf(files[path]) = {} =>
                ArchivedRows(files, SessionOf(path)) \subseteq
                   ArchivedRows(files', SessionOf(path))
<1>1. files'[path] = f /\ \A q \in ArchivePaths \ {path} : files'[q] = files[q]
  BY DEF TypeOK
<1>2. RowsOf(f) \subseteq ArchivedRows(files', SessionOf(path))
  BY <1>1 DEF ArchivedRows
<1>3. ASSUME NEW q \in ArchivePaths, SessionOf(q) = SessionOf(path), NEW x \in RowsOf(files[q])
      PROVE  x \in RowsOf(files[path]) \/ x \in ArchivedRows(files', SessionOf(path))
  BY <1>1, <1>3 DEF ArchivedRows
<1>4. ArchivedRows(files, SessionOf(path)) \subseteq
         RowsOf(files[path]) \union ArchivedRows(files', SessionOf(path))
  BY <1>3 DEF ArchivedRows
<1> QED BY <1>2, <1>4

\* From the examination of a transcript to the end of its copy, nobody else writes or
\* deletes a file of the session: only the copy's own steps change its phase.
CopyUndisturbed ==
    \A p \in Procs :
       run[p].phase \in {"copy", "write"} /\ run'[p].phase = run[p].phase =>
          \A path \in ArchivePaths :
             SessionOf(path) = SessionOf(run[p].path) => files'[path] = files[path]

\* Every step keeps what is known of the copy in hand.
LEMMA NextCopy ==
    ASSUME CopyInv, [CopyUndisturbed]_vars, [Next]_vars
    PROVE  CopyInv'
<1>1. PipelineTyped /\ PipelineTyped' /\ TypeOK
  BY NextTyped DEF CopyInv, PipelineTyped
<1>2. ASSUME NEW p \in Procs
      PROVE  CopyOverwrites(p)'
  <2>1. run \in [Procs -> Runs] /\ run[p] \in Runs /\ CopyOverwrites(p) /\ InHand(run[p])
        /\ run[p].man \in Manifests
    BY <1>1 DEF CopyInv, PipelineTyped, TypeOK, Runs
  <2>2. CASE UNCHANGED vars
    BY <2>1, <2>2 DEF vars, CopyOverwrites
  <2>3. CASE Outside
    <3>1. /\ files' = files /\ run'[p].phase = run[p].phase /\ run'[p].path = run[p].path
          /\ run'[p].man = run[p].man /\ run'[p].stat = run[p].stat
          /\ run'[p].kept = run[p].kept
      BY <1>1, <2>1, <2>3, OutsideKeeps DEF Runs
    <3> QED BY <2>1, <3>1 DEF CopyOverwrites
  <2>4. CASE ExamineTranscript(p) /\ run'[p].phase = "copy"
    <3>1. PICK s \in run[p].todo :
             \/ run' = [run EXCEPT ![p].todo = @ \ {s}]
             \/ /\ live[s] # Absent /\ CopyTarget(files, run[p].man, s, live[s]) # None
                /\ run' = [run EXCEPT ![p].todo = @ \ {s}, ![p].phase = "copy",
                                      ![p].path = CopyTarget(files, run[p].man, s, live[s]),
                                      ![p].stat = Faithful(live[s])]
      BY <2>4 DEF ExamineTranscript
    <3>2. run[p].phase = "sync" /\ s \in Sessions /\ files' = files
      BY <2>1, <2>4 DEF ExamineTranscript, Runs
    <3>3. /\ live[s] # Absent /\ CopyTarget(files, run[p].man, s, live[s]) # None
          /\ run'[p].path = CopyTarget(files, run[p].man, s, live[s])
          /\ run'[p].stat = Faithful(live[s]) /\ run'[p].man = run[p].man
      BY <2>1, <2>4, <3>1, <3>2 DEF Runs
    <3>4. live[s] \in Transcripts /\ SessionOf(run'[p].path) = s
      BY <1>1, <3>2, <3>3, LiveTranscript, CopyTargetTyped
    <3>5. run[p].man[s] # Backfill =>
             RowsOf(files[run'[p].path]) \subseteq RowsOf(run'[p].stat)
      BY <1>1, <2>1, <3>2, <3>3, <3>4, TargetIsCovered
    <3> QED BY <2>4, <3>2, <3>3, <3>4, <3>5 DEF CopyOverwrites
  <2>5. CASE OpenCopy(p) /\ run'[p].phase = "write"
    <3> DEFINE path == run[p].path  s == SessionOf(path)
    <3>1. run[p].phase = "copy" /\ path \in ArchivePaths
      BY <2>1, <2>5 DEF OpenCopy, InHand
    <3>2. /\ files' = [files EXCEPT ![path] = Faithful(<< >>)]
          /\ run' = [run EXCEPT ![p].phase = "write", ![p].kept = ArchivedRows(files, s),
                                ![p].copying = Faithful(live[s])]
      <4>1. AfterCopy(run[p], run[p].man).phase = "sync"
        BY <2>1 DEF AfterCopy, Runs
      <4> QED BY <2>1, <2>5, <4>1 DEF OpenCopy
    <3>3. /\ run'[p].path = path /\ run'[p].man = run[p].man /\ run'[p].stat = run[p].stat
          /\ run'[p].kept = ArchivedRows(files, s)
      BY <2>1, <3>2 DEF Runs
    <3>4. ArchivedRows(files, s) \subseteq RowsOf(files[path]) \union ArchivedRows(files', s)
      BY <1>1, <3>1, <3>2, ReplacedRows
    <3>5. files'[path] = Faithful(<< >>) /\ RowsOf(Faithful(<< >>)) = {}
      BY <1>1, <3>1, <3>2 DEF TypeOK, RowsOf, Faithful, ToSet
    <3> QED BY <2>1, <2>5, <3>1, <3>3, <3>4, <3>5 DEF CopyOverwrites
  <2>6. CASE run'[p].phase \notin {"copy", "write"}
    BY <2>6 DEF CopyOverwrites
  <2>7. CASE Start(p) \/ Step(p) \/ Fault(p)
    BY <1>1, <2>4, <2>5, <2>6, <2>7, PhaseAfter DEF Start, Step, Fault
  <2>8. ASSUME NEW q \in Procs \ {p}, Start(q) \/ Step(q) \/ Fault(q),
               run'[p].phase \in {"copy", "write"}, CopyUndisturbed
        PROVE  CopyOverwrites(p)'
    <3>1. /\ run'[p].phase = run[p].phase /\ run'[p].path = run[p].path
          /\ run'[p].man = run[p].man /\ run'[p].stat = run[p].stat
          /\ run'[p].kept = run[p].kept
      BY <1>1, <2>8, OthersKeep DEF Undisturbed
    <3>2. run[p].path \in ArchivePaths
      BY <2>1, <2>8, <3>1 DEF InHand
    <3>3. \A path \in ArchivePaths :
             SessionOf(path) = SessionOf(run[p].path) => files'[path] = files[path]
      BY <2>8, <3>1 DEF CopyUndisturbed
    <3>4. /\ files'[run[p].path] = files[run[p].path]
          /\ ArchivedRows(files', SessionOf(run[p].path)) =
                ArchivedRows(files, SessionOf(run[p].path))
      BY <3>2, <3>3 DEF ArchivedRows
    <3> QED BY <2>1, <3>1, <3>4 DEF CopyOverwrites
  <2> QED BY <2>2, <2>3, <2>6, <2>7, <2>8 DEF Next
<1> QED BY <1>1, <1>2 DEF CopyInv

\* A copy of a transcript that was not rewritten after it was examined keeps every row
\* that the archive held of the session, except what a rebuilt file held, unless another
\* command touches the session's files meanwhile (archive_file never overwrites a version
\* that diverged).
THEOREM CopiesKeepRows == Spec /\ [][CopyUndisturbed]_vars => CopyKeepsRows
<1>1. Init => CopyInv
  BY InitTyped DEF Init, IdleRun, CopyInv, CopyOverwrites
<1>2. CopyInv /\ [CopyUndisturbed]_vars /\ [Next]_vars => CopyInv'
  BY NextCopy
<1>3. ASSUME CopyInv, NEW p \in Procs, CopyTranscript(p), run[p].stat = run[p].copying,
             run[p].man[SessionOf(run[p].path)] # Backfill
      PROVE  run[p].kept \subseteq ArchivedRows(files', SessionOf(run[p].path))
  <2>1. /\ run[p].phase = "write" /\ CopyOverwrites(p) /\ TypeOK /\ InHand(run[p])
        /\ files' = [files EXCEPT ![run[p].path] = run[p].copying]
    BY <1>3 DEF CopyTranscript, CopyInv, PipelineTyped
  <2>2. run[p].path \in ArchivePaths
    BY <2>1 DEF InHand
  <2>3. /\ RowsOf(run[p].copying) \subseteq ArchivedRows(files', SessionOf(run[p].path))
        /\ RowsOf(files[run[p].path]) = {} =>
              ArchivedRows(files, SessionOf(run[p].path)) \subseteq
                 ArchivedRows(files', SessionOf(run[p].path))
    BY <2>1, <2>2, ReplacedRows
  <2> QED BY <1>3, <2>1, <2>3 DEF CopyOverwrites
<1>4. CopyInv =>
         \A p \in Procs :
           CopyTranscript(p) /\ run[p].stat = run[p].copying
           /\ run[p].man[SessionOf(run[p].path)] # Backfill =>
              run[p].kept \subseteq ArchivedRows(files', SessionOf(run[p].path))
  BY <1>3
<1> QED BY <1>1, <1>2, <1>4, PTL DEF Spec, CopyKeepsRows

-----------------------------------------------------------------------------
(* What is excluded *)

\* A slot that is free, or whose command has only begun, knows nothing yet.
LEMMA FreshCleaned ==
    ASSUME NEW p \in Procs, run'[p].quiet = {}, run'[p].queue = {}, run'[p].root # Live,
           run'[p].phase # "read"
    PROVE  Cleaned(p)'
BY DEF Cleaned

\* A step that adds nothing to what is archived of an excluded session.
LEMMA KeepsCleaned ==
    ASSUME NEW p \in Procs, Cleaned(p), run[p].phase # "idle", excluded' = excluded,
           run'[p].quiet \subseteq run[p].quiet, run'[p].excluded = run[p].excluded,
           run'[p].root = Live => run[p].root = Live,
           run'[p].phase \in {"ingest", "read", "seen"} =>
              \A path \in run'[p].queue : (path[2] = Live) = (run'[p].root = Live),
           run'[p].phase = "read" => (run'[p].path[2] = Live) = (run'[p].root = Live),
           run'[p].phase \in AfterSync =>
              \A path \in ArchivePaths :
                 SessionOf(path) \in run[p].excluded \cap run'[p].quiet =>
                    RowsOf(files'[path]) = {}
    PROVE  Cleaned(p)'
<1>1. run'[p].quiet \cap run'[p].excluded = run'[p].quiet \cap excluded'
  BY DEF Cleaned
<1>2. run'[p].root = Live => run'[p].excluded = {}
  BY DEF Cleaned
<1> QED BY <1>1, <1>2 DEF Cleaned

\* What ingest_directory lists.
LEMMA IngestFields ==
    ASSUME NEW r \in Runs
    PROVE  /\ BeginIngest(r).phase = "ingest" /\ BeginIngest(r).quiet = r.quiet
           /\ BeginIngest(r).excluded = r.excluded /\ BeginIngest(r).root = r.root
           /\ \A path \in BeginIngest(r).queue : (path[2] = Live) = (r.root = Live)
BY DEF BeginIngest, Runs

\* What a slot holds when its sync has ended.
LEMMA SyncedFields ==
    ASSUME NEW r \in Runs, NEW root
    PROVE  /\ SyncedRun(r, root).phase = "open" /\ SyncedRun(r, root).quiet = r.quiet
           /\ SyncedRun(r, root).excluded = r.excluded /\ SyncedRun(r, root).root = root
BY DEF SyncedRun, Runs

\* What a slot holds when a copy is done with.
LEMMA AfterCopyFields ==
    ASSUME NEW r \in Runs, NEW man
    PROVE  /\ AfterCopy(r, man).phase = "sync" /\ AfterCopy(r, man).quiet = r.quiet
           /\ AfterCopy(r, man).excluded = r.excluded /\ AfterCopy(r, man).root = r.root
           /\ AfterCopy(r, man).todo = r.todo /\ AfterCopy(r, man).man = man
BY DEF AfterCopy, Runs

\* The commands that start.
LEMMA StartCleaned ==
    ASSUME PipelineTyped, NEW p \in Procs, Start(p)
    PROVE  Cleaned(p)'
<1>1. run \in [Procs -> Runs] /\ None # Live /\ Canonical # Live
  BY ArchiveAssumption DEF PipelineTyped, TypeOK
<1>2. CASE \E cmd \in {"session-index", "no-embed", "full", "archive"} : StartSync(p, cmd)
  <2>1. /\ run'[p].phase = "sync" /\ run'[p].root = None
        /\ run'[p].excluded = excluded /\ excluded' = excluded
    BY <1>1, <1>2 DEF StartSync, IdleRun
  <2> QED BY <1>1, <2>1 DEF Cleaned, AfterSync
<1>3. CASE StartBackfill(p)
  <2>1. PICK r : r = [IdleRun EXCEPT !.cmd = "from-index"]
    OBVIOUS
  <2>2. r.quiet = {} /\ r.queue = {} /\ r \in Runs
    BY <1>3, <2>1, IdleRunTyped DEF IdleRun, Runs, StartBackfill
  <2>3. run'[p] = BeginBackfill(r)
    BY <1>1, <1>3, <2>1 DEF StartBackfill
  <2>4. /\ run'[p].quiet = {} /\ run'[p].queue = {} /\ run'[p].root = Canonical
        /\ run'[p].phase = "backfill"
    BY <2>2, <2>3 DEF BeginBackfill, Runs
  <2> QED BY <1>1, <2>4, FreshCleaned
<1>4. CASE StartPrune(p)
  <2>1. /\ run'[p].quiet = {} /\ run'[p].queue = {} /\ run'[p].root = None
        /\ run'[p].phase = "save"
    BY <1>1, <1>4 DEF StartPrune, IdleRun
  <2> QED BY <1>1, <2>1, FreshCleaned
<1>5. CASE \E s \in Sessions : StartForget(p, s)
  <2>1. /\ run'[p].quiet = {} /\ run'[p].queue = {} /\ run'[p].root = None
    BY <1>1, <1>5 DEF StartForget, IdleRun
  <2>2. run'[p].phase # "read"
    BY <1>5, PhaseAfter
  <2> QED BY <1>1, <2>1, <2>2, FreshCleaned
<1> QED BY <1>2, <1>3, <1>4, <1>5 DEF Start

\* A command that ends, whichever way.
LEMMA ExitCleaned ==
    ASSUME PipelineTyped, NEW p \in Procs, Exit(p)
    PROVE  Cleaned(p)'
<1>1. run'[p] = IdleRun
  BY DEF Exit, PipelineTyped, TypeOK
<1> QED BY <1>1, FreshCleaned, ArchiveAssumption DEF IdleRun

\* The sync.
LEMMA SyncCleaned ==
    ASSUME CleanedInv, NEW p \in Procs,
           \/ ExamineTranscript(p) \/ OpenCopy(p) \/ CopyTranscript(p) \/ TornCopy(p)
           \/ FinishSync(p) \/ DegradeSync(p)
    PROVE  Cleaned(p)'
<1>1. /\ run \in [Procs -> Runs] /\ run[p] \in Runs /\ Cleaned(p) /\ PipelineTyped
      /\ None # Live /\ Canonical # Live
  BY ArchiveAssumption DEF CleanedInv, PipelineTyped, TypeOK
<1>2. CASE ExamineTranscript(p)
  <2>1. PICK s \in run[p].todo :
             \/ run' = [run EXCEPT ![p].todo = @ \ {s}]
             \/ run' = [run EXCEPT ![p].todo = @ \ {s}, ![p].phase = "copy",
                                   ![p].path = CopyTarget(files, run[p].man, s, live[s]),
                                   ![p].stat = Faithful(live[s])]
    BY <1>2 DEF ExamineTranscript
  <2>2. /\ run'[p].quiet = run[p].quiet /\ run'[p].excluded = run[p].excluded
        /\ run'[p].root = run[p].root
    BY <1>1, <2>1 DEF Runs
  <2>3. run'[p].phase \in {"sync", "copy"}
    BY <1>1, <1>2, PhaseAfter
  <2>4. run[p].phase = "sync" /\ excluded' = excluded
    BY <1>2 DEF ExamineTranscript
  <2> QED BY <1>1, <2>2, <2>3, <2>4, KeepsCleaned DEF AfterSync
<1>3. CASE OpenCopy(p)
  <2>1. /\ run[p].phase = "copy" /\ excluded' = excluded
        /\ run'[p].quiet = run[p].quiet /\ run'[p].excluded = run[p].excluded
        /\ run'[p].root = run[p].root /\ run'[p].phase \in {"sync", "write"}
    BY <1>1, <1>3, AfterCopyFields DEF OpenCopy, Runs
  <2> QED BY <1>1, <2>1, KeepsCleaned DEF AfterSync
<1>4. CASE CopyTranscript(p)
  <2>1. /\ run[p].phase = "write" /\ excluded' = excluded
        /\ run'[p].quiet = run[p].quiet /\ run'[p].excluded = run[p].excluded
        /\ run'[p].root = run[p].root /\ run'[p].phase = "sync"
    BY <1>1, <1>4, AfterCopyFields DEF CopyTranscript
  <2> QED BY <1>1, <2>1, KeepsCleaned DEF AfterSync
<1>5. CASE TornCopy(p)
  <2>1. PICK r : r = AfterCopy(run[p], run[p].man)
    OBVIOUS
  <2>2. /\ r \in Runs /\ r.phase = "sync" /\ r.quiet = run[p].quiet
        /\ r.excluded = run[p].excluded /\ r.root = run[p].root
    BY <1>1, <2>1, AfterCopyFields, AfterCopyTyped DEF PipelineTyped, Runs
  <2>3. run'[p] = [r EXCEPT !.quiet = @ \ {SessionOf(run[p].path)}]
    BY <1>1, <1>5, <2>1 DEF TornCopy, Disturbed
  <2>4. /\ run[p].phase = "write" /\ excluded' = excluded
        /\ run'[p].quiet \subseteq run[p].quiet /\ run'[p].excluded = run[p].excluded
        /\ run'[p].root = run[p].root /\ run'[p].phase = "sync"
    BY <1>5, <2>2, <2>3 DEF TornCopy, Runs
  <2> QED BY <1>1, <2>4, KeepsCleaned DEF AfterSync
<1>6. CASE FinishSync(p)
  <2>1. PICK stuck \in SUBSET FilesOfExcluded(files, run[p].excluded) : \E removed, gone :
           /\ removed = FilesOfExcluded(files, run[p].excluded) \ stuck
           /\ gone = {SessionOf(path) : path \in stuck}
           /\ files' = Unlink(files, removed)
           /\ run' = [run EXCEPT ![p].phase = "save", ![p].man = Unlisted(@, removed),
                                 ![p].quiet = @ \ gone]
           /\ run[p].phase = "sync" /\ excluded' = excluded
    BY <1>6, SyncEnds
  <2>2. PICK removed, gone :
           /\ removed = FilesOfExcluded(files, run[p].excluded) \ stuck
           /\ gone = {SessionOf(path) : path \in stuck}
           /\ files' = Unlink(files, removed)
           /\ run' = [run EXCEPT ![p].phase = "save", ![p].man = Unlisted(@, removed),
                                 ![p].quiet = @ \ gone]
           /\ run[p].phase = "sync" /\ excluded' = excluded
    BY <2>1
  <2>3. /\ run'[p].quiet = run[p].quiet \ gone /\ run'[p].excluded = run[p].excluded
        /\ run'[p].root = run[p].root /\ run'[p].phase = "save"
    BY <1>1, <2>2 DEF Runs
  <2>4. ASSUME NEW path \in ArchivePaths, SessionOf(path) \in run[p].excluded \ gone
        PROVE  RowsOf(files'[path]) = {}
    <3>1. FilesOf(files, SessionOf(path)) \subseteq FilesOfExcluded(files, run[p].excluded)
      BY <2>4 DEF FilesOfExcluded
    <3>2. FilesOf(files, SessionOf(path)) \cap stuck = {}
      BY <2>2, <2>4 DEF FilesOf
    <3>3. FilesOf(files, SessionOf(path)) \subseteq removed
      BY <2>2, <3>1, <3>2
    <3>4. SessionOf(path) \in Sessions
      BY DEF ArchivePaths, SessionOf
    <3> QED BY <2>2, <3>3, <3>4, UnlinkedRows
  <2> QED BY <1>1, <2>2, <2>3, <2>4, KeepsCleaned
<1>7. CASE DegradeSync(p)
  <2>1. CASE Exit(p)
    BY <1>1, <2>1, ExitCleaned
  <2>2. CASE ~Exit(p)
    <3>1. run[p].excluded = {} /\ run' = [run EXCEPT ![p] = SyncedRun(run[p], Live)]
      BY <1>7, <2>2 DEF DegradeSync
    <3>2. /\ run[p].phase # "idle" /\ excluded' = excluded
          /\ run'[p].quiet = run[p].quiet /\ run'[p].excluded = {} /\ run'[p].phase = "open"
      BY <1>1, <1>7, <3>1, SyncedFields DEF DegradeSync, Syncing
    <3> QED BY <1>1, <3>1, <3>2 DEF Cleaned
  <2> QED BY <2>1, <2>2
<1> QED BY <1>2, <1>3, <1>4, <1>5, <1>6, <1>7

\* The backfill and the save.
LEMMA BackfillCleaned ==
    ASSUME CleanedInv, NEW p \in Procs,
           \/ OpenStore(p) \/ BackfillSession(p) \/ FinishBackfill(p) \/ DegradeBackfill(p)
           \/ SaveManifest(p)
    PROVE  Cleaned(p)'
<1>1. /\ run \in [Procs -> Runs] /\ run[p] \in Runs /\ Cleaned(p) /\ PipelineTyped
      /\ None # Live /\ Canonical # Live /\ TypeOK
  BY ArchiveAssumption DEF CleanedInv, PipelineTyped, TypeOK
<1>2. ASSUME run' = [run EXCEPT ![p] = BeginIngest(run[p])], files' = files,
             excluded' = excluded, run[p].phase \in AfterSync
      PROVE  Cleaned(p)'
  <2>1. run'[p] = BeginIngest(run[p])
    BY <1>1, <1>2
  <2>2. /\ run'[p].phase = "ingest" /\ run'[p].quiet = run[p].quiet
        /\ run'[p].excluded = run[p].excluded /\ run'[p].root = run[p].root
        /\ \A path \in run'[p].queue : (path[2] = Live) = (run[p].root = Live)
    BY <1>1, <2>1, IngestFields
  <2>3. \A path \in ArchivePaths :
           SessionOf(path) \in run[p].excluded \cap run[p].quiet => RowsOf(files'[path]) = {}
    BY <1>1, <1>2 DEF Cleaned
  <2> QED BY <1>1, <1>2, <2>2, <2>3, KeepsCleaned DEF AfterSync
<1>3. CASE OpenStore(p)
  <2>1. /\ files' = files /\ excluded' = excluded /\ run[p].phase = "open"
    BY <1>3 DEF OpenStore
  <2>2. CASE run' = [run EXCEPT ![p] = BeginBackfill(run[p])]
    <3>1. run'[p] = BeginBackfill(run[p])
      BY <1>1, <2>2
    <3>2. /\ run'[p].phase = "backfill" /\ run'[p].quiet = run[p].quiet
          /\ run'[p].excluded = excluded /\ run'[p].root = Canonical
      BY <1>1, <3>1 DEF BeginBackfill, Runs
    <3>3. run[p].quiet \cap run[p].excluded = run[p].quiet \cap excluded
      BY <1>1, <2>1 DEF Cleaned
    <3>4. \A path \in ArchivePaths :
             SessionOf(path) \in excluded \cap run[p].quiet => RowsOf(files'[path]) = {}
      BY <1>1, <2>1, <3>3 DEF Cleaned, AfterSync
    <3> QED BY <1>1, <2>1, <3>2, <3>4 DEF Cleaned
  <2> QED BY <1>2, <1>3, <2>1, <2>2 DEF OpenStore, AfterSync
<1>4. CASE BackfillSession(p)
  <2>1. PICK s \in run[p].todo :
           \/ run' = [run EXCEPT ![p].todo = @ \ {s}] /\ files' = files
           \/ /\ s \notin run[p].excluded
              /\ files' = [files EXCEPT ![CanonicalPath(s)] =
                              Lossy(SetToSeq(run[p].texts[s]))]
              /\ run' = [run EXCEPT ![p].todo = @ \ {s}, ![p].man[s] = Backfill]
    BY <1>4 DEF BackfillSession
  <2>2. /\ run[p].phase = "backfill" /\ excluded' = excluded /\ run'[p].phase = "backfill"
        /\ run'[p].quiet = run[p].quiet /\ run'[p].excluded = run[p].excluded
        /\ run'[p].root = run[p].root
    BY <1>1, <1>4, <2>1 DEF BackfillSession, Runs
  <2>3. ASSUME NEW path \in ArchivePaths, SessionOf(path) \in run[p].excluded \cap run[p].quiet
        PROVE  RowsOf(files'[path]) = {}
    <3>1. RowsOf(files[path]) = {}
      BY <1>1, <2>2, <2>3 DEF Cleaned, AfterSync
    <3>2. files'[path] = files[path]
      BY <1>1, <2>1, <2>3 DEF CanonicalPath, SessionOf, TypeOK
    <3> QED BY <3>1, <3>2
  <2> QED BY <1>1, <2>2, <2>3, KeepsCleaned
<1>5. CASE FinishBackfill(p)
  <2>1. /\ run[p].phase = "backfill" /\ excluded' = excluded /\ run'[p].phase = "save"
        /\ run'[p].quiet = run[p].quiet /\ run'[p].excluded = run[p].excluded
        /\ run'[p].root = run[p].root /\ files' = files
    BY <1>1, <1>5 DEF FinishBackfill, Runs
  <2>2. \A path \in ArchivePaths :
           SessionOf(path) \in run[p].excluded \cap run[p].quiet => RowsOf(files'[path]) = {}
    BY <1>1, <2>1 DEF Cleaned, AfterSync
  <2> QED BY <1>1, <2>1, <2>2, KeepsCleaned
<1>6. CASE DegradeBackfill(p)
  <2>1. run[p].phase \in AfterSync /\ files' = files /\ excluded' = excluded
    BY <1>6 DEF DegradeBackfill, AfterSync
  <2> QED BY <1>1, <1>2, <1>6, <2>1, ExitCleaned DEF DegradeBackfill
<1>7. CASE SaveManifest(p)
  <2>1. run[p].phase = "save" /\ files' = files /\ excluded' = excluded
    BY <1>7 DEF SaveManifest
  <2>2. CASE run' = [run EXCEPT ![p] = SyncedRun(run[p], Canonical)]
    <3>1. run'[p] = SyncedRun(run[p], Canonical)
      BY <1>1, <2>2
    <3>2. /\ run'[p].phase = "open" /\ run'[p].quiet = run[p].quiet
          /\ run'[p].excluded = run[p].excluded /\ run'[p].root = Canonical
      BY <1>1, <3>1, SyncedFields
    <3>3. \A path \in ArchivePaths :
             SessionOf(path) \in run[p].excluded \cap run[p].quiet => RowsOf(files'[path]) = {}
      BY <1>1, <2>1 DEF Cleaned, AfterSync
    <3> QED BY <1>1, <2>1, <3>2, <3>3, KeepsCleaned
  <2>3. CASE Exit(p)
    BY <1>1, <2>3, ExitCleaned
  <2>4. \/ Exit(p)
        \/ run' = [run EXCEPT ![p] = SyncedRun(run[p], Canonical)]
        \/ run' = [run EXCEPT ![p] = BeginIngest(run[p])]
    <3>1. CASE run[p].cmd \notin IndexCommands
      BY <1>7, <3>1 DEF SaveManifest
    <3>2. CASE run[p].cmd \in IndexCommands /\ run[p].root = None
      BY <1>7, <3>2 DEF SaveManifest
    <3>3. CASE run[p].cmd \in IndexCommands /\ run[p].root # None
      BY <1>7, <3>3 DEF SaveManifest
    <3> QED BY <3>1, <3>2, <3>3
  <2> QED BY <1>2, <2>1, <2>2, <2>3, <2>4 DEF AfterSync
<1> QED BY <1>3, <1>4, <1>5, <1>6, <1>7

\* Ingest and repair.
LEMMA IngestCleaned ==
    ASSUME CleanedInv, NEW p \in Procs,
           \/ StatFile(p) \/ IngestRows(p) \/ RecordSeen(p)
           \/ CountGuard(p) \/ FetchBatch(p) \/ EmbedBatch(p)
    PROVE  Cleaned(p)'
<1>1. /\ run \in [Procs -> Runs] /\ run[p] \in Runs /\ Cleaned(p) /\ PipelineTyped
  BY DEF CleanedInv, PipelineTyped, TypeOK
<1>2. files' = files /\ excluded' = excluded /\ run[p].phase # "idle"
  BY DEF StatFile, IngestRows, RecordSeen, CountGuard, FetchBatch, EmbedBatch
<1>3. CASE Exit(p)
  BY <1>1, <1>3, ExitCleaned
<1>4. CASE StatFile(p) /\ ~Exit(p)
  <2>1. PICK path \in run[p].queue :
             \/ run' = [run EXCEPT ![p].queue = @ \ {path}]
             \/ run' = [run EXCEPT ![p].queue = @ \ {path}, ![p].phase = "read",
                                   ![p].path = path, ![p].stat = FileAt(path)]
    BY <1>4 DEF StatFile
  <2>2. run[p].phase = "ingest"
    BY <1>4 DEF StatFile
  <2>3. /\ run'[p].quiet = run[p].quiet /\ run'[p].excluded = run[p].excluded
        /\ run'[p].root = run[p].root /\ run'[p].queue \subseteq run[p].queue
        /\ run'[p].phase = "ingest" \/ (run'[p].phase = "read" /\ run'[p].path = path)
    BY <1>1, <2>1, <2>2 DEF Runs
  <2>4. /\ \A q \in run[p].queue : (q[2] = Live) = (run[p].root = Live)
        /\ \A q \in ArchivePaths :
              SessionOf(q) \in run[p].excluded \cap run[p].quiet => RowsOf(files'[q]) = {}
    BY <1>1, <1>2, <2>2 DEF Cleaned, AfterSync
  <2> QED BY <1>1, <1>2, <2>3, <2>4, KeepsCleaned
<1>5. CASE (IngestRows(p) \/ RecordSeen(p)) /\ ~Exit(p)
  <2>1. /\ run[p].phase \in {"read", "seen"} /\ run'[p].phase \in {"seen", "ingest"}
        /\ run'[p].quiet = run[p].quiet /\ run'[p].excluded = run[p].excluded
        /\ run'[p].root = run[p].root /\ run'[p].queue = run[p].queue
    BY <1>1, <1>5 DEF IngestRows, RecordSeen, Runs
  <2>2. /\ \A q \in run[p].queue : (q[2] = Live) = (run[p].root = Live)
        /\ \A q \in ArchivePaths :
              SessionOf(q) \in run[p].excluded \cap run[p].quiet => RowsOf(files'[q]) = {}
    BY <1>1, <1>2, <2>1 DEF Cleaned, AfterSync
  <2> QED BY <1>1, <1>2, <2>1, <2>2, KeepsCleaned
<1>6. CASE (CountGuard(p) \/ FetchBatch(p) \/ EmbedBatch(p)) /\ ~Exit(p)
  <2>1. /\ run'[p].phase \in {"repair", "embed"}
        /\ run'[p].quiet = run[p].quiet /\ run'[p].excluded = run[p].excluded
        /\ run'[p].root = run[p].root
    BY <1>1, <1>6 DEF CountGuard, FetchBatch, EmbedBatch, Runs
  <2> QED BY <1>1, <1>2, <2>1, KeepsCleaned DEF AfterSync
<1> QED BY <1>3, <1>4, <1>5, <1>6

\* The end of a forget.
LEMMA ForgetCleaned ==
    ASSUME CleanedInv, NEW p \in Procs, ForgetMessages(p) \/ UnlinkSession(p) \/ StuckForget(p)
    PROVE  Cleaned(p)'
<1>1. /\ run \in [Procs -> Runs] /\ run[p] \in Runs /\ Cleaned(p) /\ PipelineTyped
      /\ None # Live
  BY ArchiveAssumption DEF CleanedInv, PipelineTyped, TypeOK
<1>2. CASE ForgetMessages(p)
  <2>1. /\ run[p].phase = "forget" /\ excluded' = excluded /\ run'[p].phase = "unlink"
        /\ run'[p].quiet = run[p].quiet /\ run'[p].excluded = run[p].excluded
        /\ run'[p].root = run[p].root
    BY <1>1, <1>2 DEF ForgetMessages, Runs
  <2> QED BY <1>1, <2>1, KeepsCleaned DEF AfterSync
<1>3. CASE UnlinkSession(p)
  <2> DEFINE man == Unlisted(manifest, FilesOf(files, run[p].session))
  <2>1. PICK r : /\ r \in {IdleRun, [IdleRun EXCEPT !.phase = "save", !.cmd = "forget",
                                                    !.man = man]}
                 /\ run' = Disturbed([run EXCEPT ![p] = r], run[p].session)
    BY <1>3 DEF UnlinkSession
  <2> HIDE DEF man
  <2>2. run'[p] = [r EXCEPT !.quiet = @ \ {run[p].session}]
    BY <1>1, <2>1 DEF Disturbed
  <2>3. run'[p].quiet = {} /\ run'[p].queue = {} /\ run'[p].root = None
    <3>1. CASE r = IdleRun
      BY <2>2, <3>1 DEF IdleRun
    <3>2. CASE r = [IdleRun EXCEPT !.phase = "save", !.cmd = "forget", !.man = man]
      BY <2>2, <3>2 DEF IdleRun
    <3> QED BY <2>1, <3>1, <3>2
  <2>4. run'[p].phase # "read"
    BY <1>1, <1>3, PhaseAfter
  <2> QED BY <1>1, <2>3, <2>4, FreshCleaned
<1>4. CASE StuckForget(p)
  <2>1. run'[p] = [IdleRun EXCEPT !.quiet = @ \ {run[p].session}]
    BY <1>1, <1>4 DEF StuckForget, Disturbed
  <2>2. /\ run'[p].quiet = {} /\ run'[p].queue = {} /\ run'[p].root = None
        /\ run'[p].phase # "read"
    BY <2>1 DEF IdleRun
  <2> QED BY <1>1, <2>2, FreshCleaned
<1> QED BY <1>2, <1>3, <1>4

\* The commands write no live transcript.
LEMMA CommandsReadLive ==
    ASSUME NEW p \in Procs, Start(p) \/ Step(p) \/ Fault(p)
    PROVE  live' = live /\ past' = past /\ excluded' = excluded
<1>1. CASE Start(p)
  BY <1>1 DEF Start, StartSync, StartBackfill, StartPrune, StartForget
<1>2. CASE Step(p)
  BY <1>2 DEF Step, ExamineTranscript, OpenCopy, CopyTranscript, FinishSync, OpenStore,
     BackfillSession, FinishBackfill, StatFile, IngestRows, RecordSeen, CountGuard,
     FetchBatch, EmbedBatch, ForgetMessages, UnlinkSession, SaveManifest
<1>3. CASE Fault(p)
  BY <1>3 DEF Fault, TornCopy, DegradeSync, DegradeBackfill, StuckForget, Kill
<1> QED BY <1>1, <1>2, <1>3

\* Who writes an archive file while another command is past its sync excludes what that
\* command does: the user changes no excludes between the two.
ExcludesAgree ==
    \A p, q \in Procs :
       run[p].phase \in AfterSync /\ run[q].phase \in {"write", "backfill"} =>
          run[p].excluded \cap run[p].quiet \subseteq run[q].excluded

\* Every step goes on copying only what is not excluded.
LEMMA NextWanted ==
    ASSUME CleanedInv, [Next]_vars, NEW p \in Procs
    PROVE  CopiesWanted(p)'
<1>1. /\ PipelineTyped /\ PipelineTyped' /\ TypeOK /\ CopiesWanted(p)
      /\ run \in [Procs -> Runs] /\ run[p] \in Runs
  BY NextTyped DEF CleanedInv, PipelineTyped, TypeOK
<1>2. ASSUME run'[p].phase = run[p].phase, run'[p].path = run[p].path,
             run'[p].excluded = run[p].excluded
      PROVE  CopiesWanted(p)'
  BY <1>1, <1>2 DEF CopiesWanted
<1>3. CASE UNCHANGED vars
  BY <1>2, <1>3 DEF vars
<1>4. CASE Outside
  BY <1>1, <1>2, <1>4, OutsideKeeps DEF Runs
<1>5. ASSUME NEW q \in Procs \ {p}, Start(q) \/ Step(q) \/ Fault(q)
      PROVE  CopiesWanted(p)'
  BY <1>1, <1>2, <1>5, OthersKeep DEF Undisturbed
<1>6. CASE ExamineTranscript(p)
  <2>1. PICK s \in run[p].todo :
           \/ run' = [run EXCEPT ![p].todo = @ \ {s}]
           \/ /\ live[s] # Absent /\ s \notin run[p].excluded
              /\ CopyTarget(files, run[p].man, s, live[s]) # None
              /\ run' = [run EXCEPT ![p].todo = @ \ {s}, ![p].phase = "copy",
                                    ![p].path = CopyTarget(files, run[p].man, s, live[s]),
                                    ![p].stat = Faithful(live[s])]
    BY <1>6 DEF ExamineTranscript
  <2>2. CASE run' = [run EXCEPT ![p].todo = @ \ {s}]
    BY <1>1, <1>2, <2>2 DEF Runs
  <2>3. CASE run' # [run EXCEPT ![p].todo = @ \ {s}]
    <3>1. /\ s \in Sessions /\ live[s] # Absent /\ s \notin run[p].excluded
          /\ CopyTarget(files, run[p].man, s, live[s]) # None
          /\ run'[p].path = CopyTarget(files, run[p].man, s, live[s])
          /\ run'[p].excluded = run[p].excluded /\ run[p].man \in Manifests
      BY <1>1, <2>1, <2>3 DEF Runs
    <3>2. SessionOf(run'[p].path) = s
      BY <1>1, <3>1, LiveTranscript, CopyTargetTyped
    <3> QED BY <3>1, <3>2 DEF CopiesWanted
  <2> QED BY <2>2, <2>3
<1>7. CASE OpenCopy(p) /\ run'[p].phase = "write"
  <2>1. run[p].phase = "copy" /\ AfterCopy(run[p], run[p].man).phase = "sync"
    BY <1>1, <1>7, AfterCopyFields DEF OpenCopy
  <2>2. run'[p].path = run[p].path /\ run'[p].excluded = run[p].excluded
    BY <1>1, <1>7, <2>1 DEF OpenCopy, Runs
  <2> QED BY <1>1, <2>1, <2>2 DEF CopiesWanted
<1>8. CASE run'[p].phase \notin {"copy", "write"}
  BY <1>8 DEF CopiesWanted
<1>9. CASE Start(p) \/ Step(p) \/ Fault(p)
  BY <1>1, <1>6, <1>7, <1>8, <1>9, PhaseAfter DEF Start, Step, Fault
<1> QED BY <1>3, <1>4, <1>5, <1>9 DEF Next

\* Nobody adds rows to the archive but a copy or a backfill, and those add none of what
\* they exclude.
LEMMA WhoArchives ==
    ASSUME CleanedInv, NEW q \in Procs, Start(q) \/ Step(q) \/ Fault(q),
           NEW path \in ArchivePaths
    PROVE  \/ RowsOf(files'[path]) \subseteq RowsOf(files[path])
           \/ run[q].phase \in {"write", "backfill"} /\ SessionOf(path) \notin run[q].excluded
<1>1. /\ run[q] \in Runs /\ TypeOK /\ CopiesWanted(q)
      /\ files \in [ArchivePaths -> File \union {Absent}]
  BY DEF CleanedInv, PipelineTyped, TypeOK
<1>2. ASSUME NEW paths, files' = Unlink(files, paths)
      PROVE  RowsOf(files'[path]) \subseteq RowsOf(files[path])
  BY <1>2 DEF Unlink, RowsOf
<1>3. CASE files' = files
  BY <1>3
<1>4. CASE OpenCopy(q) /\ files' # files
  <2>1. files' = [files EXCEPT ![run[q].path] = Faithful(<< >>)]
    BY <1>4 DEF OpenCopy
  <2>2. RowsOf(Faithful(<< >>)) = {}
    BY DEF RowsOf, Faithful, ToSet
  <2> QED BY <1>1, <2>1, <2>2
<1>5. CASE CopyTranscript(q) \/ TornCopy(q)
  <2>1. run[q].phase = "write" /\ \E f : files' = [files EXCEPT ![run[q].path] = f]
    BY <1>5 DEF CopyTranscript, TornCopy
  <2> QED BY <1>1, <2>1 DEF CopiesWanted
<1>6. CASE BackfillSession(q) /\ files' # files
  <2>1. PICK s \in run[q].todo :
           /\ s \notin run[q].excluded
           /\ \E f : files' = [files EXCEPT ![CanonicalPath(s)] = f]
    BY <1>6 DEF BackfillSession
  <2>2. run[q].phase = "backfill" /\ SessionOf(CanonicalPath(s)) = s
    BY <1>6 DEF BackfillSession, CanonicalPath, SessionOf
  <2> QED BY <1>1, <2>1, <2>2
<1>7. CASE FinishSync(q) \/ UnlinkSession(q) \/ StuckForget(q) \/ (Start(q) /\ files' # files)
  <2>1. \E paths : files' = Unlink(files, paths)
    BY <1>7 DEF FinishSync, UnlinkSession, StuckForget, Start, StartSync, StartBackfill,
       StartPrune, StartForget
  <2> QED BY <1>2, <2>1
<1>8. CASE Step(q) /\ files' # files
  <2>1. OpenCopy(q) \/ CopyTranscript(q) \/ FinishSync(q) \/ BackfillSession(q)
        \/ UnlinkSession(q)
    BY <1>8 DEF Step, ExamineTranscript, OpenStore, FinishBackfill, StatFile, IngestRows,
       RecordSeen, CountGuard, FetchBatch, EmbedBatch, ForgetMessages, SaveManifest
  <2> QED BY <1>4, <1>5, <1>6, <1>7, <1>8, <2>1
<1>9. CASE Fault(q) /\ files' # files
  BY <1>5, <1>7, <1>9 DEF Fault, DegradeSync, DegradeBackfill, Kill
<1> QED BY <1>3, <1>7, <1>8, <1>9

\* Every step keeps the archive clean of excluded sessions after a sync, unless another
\* command that does not exclude them archives one.
LEMMA NextCleaned ==
    ASSUME CleanedInv, ExcludesAgree, [Next]_vars
    PROVE  CleanedInv'
<1>1. PipelineTyped /\ PipelineTyped'
  BY NextTyped DEF CleanedInv
<1>2. ASSUME NEW p \in Procs
      PROVE  Cleaned(p)'
  <2>1. run \in [Procs -> Runs] /\ run[p] \in Runs /\ Cleaned(p)
    BY <1>1 DEF CleanedInv, PipelineTyped, TypeOK
  <2>2. CASE UNCHANGED vars
    BY <2>1, <2>2 DEF vars, Cleaned
  <2>3. CASE Outside
    <3>1. PICK s \in Sessions :
             /\ excluded' = excluded \/ excluded' = (excluded \ {s}) \union ({s} \ excluded)
             /\ run'[p] = [run[p] EXCEPT !.quiet = @ \ {s}]
      BY <1>1, <2>3, OutsideKeeps
    <3>2. /\ files' = files /\ run'[p].phase = run[p].phase /\ run'[p].path = run[p].path
          /\ run'[p].queue = run[p].queue /\ run'[p].root = run[p].root
          /\ run'[p].excluded = run[p].excluded /\ run'[p].quiet = run[p].quiet \ {s}
      BY <1>1, <2>1, <2>3, <3>1, OutsideKeeps DEF Runs
    <3>3. run'[p].phase # "idle" =>
             run'[p].quiet \cap run'[p].excluded = run'[p].quiet \cap excluded'
      BY <2>1, <3>1, <3>2 DEF Cleaned
    <3> QED BY <2>1, <3>2, <3>3 DEF Cleaned
  <2>4. CASE Start(p)
    BY <1>1, <2>4, StartCleaned
  <2>5. CASE Step(p)
    BY <2>5, SyncCleaned, BackfillCleaned, IngestCleaned, ForgetCleaned DEF Step
  <2>6. CASE Fault(p)
    BY <1>1, <2>6, SyncCleaned, BackfillCleaned, ForgetCleaned, ExitCleaned DEF Fault, Kill
  <2>7. ASSUME NEW q \in Procs \ {p}, Start(q) \/ Step(q) \/ Fault(q)
        PROVE  Cleaned(p)'
    <3>1. /\ run'[p].phase = run[p].phase /\ run'[p].path = run[p].path
          /\ run'[p].queue = run[p].queue /\ run'[p].root = run[p].root
          /\ run'[p].excluded = run[p].excluded /\ run'[p].quiet \subseteq run[p].quiet
          /\ excluded' = excluded
      BY <1>1, <2>7, OthersKeep, CommandsReadLive DEF Undisturbed
    <3>2. ASSUME run[p].phase \in AfterSync, NEW path \in ArchivePaths,
                 SessionOf(path) \in run[p].excluded \cap run[p].quiet
          PROVE  RowsOf(files'[path]) = {}
      <4>1. RowsOf(files[path]) = {}
        BY <2>1, <3>2 DEF Cleaned
      <4>2. RowsOf(files'[path]) \subseteq RowsOf(files[path])
        BY <2>7, <3>2, WhoArchives DEF ExcludesAgree
      <4> QED BY <4>1, <4>2
    <3>3. CASE run[p].phase = "idle"
      BY <2>1, <3>1, <3>3 DEF Cleaned, AfterSync
    <3>4. CASE run[p].phase # "idle"
      <4>1. run[p].phase \in {"ingest", "read", "seen"} =>
               \A path \in run[p].queue : (path[2] = Live) = (run[p].root = Live)
        BY <2>1 DEF Cleaned
      <4>2. run[p].phase = "read" => (run[p].path[2] = Live) = (run[p].root = Live)
        BY <2>1 DEF Cleaned
      <4> QED BY <2>1, <3>1, <3>2, <3>4, <4>1, <4>2, KeepsCleaned
    <3> QED BY <3>3, <3>4
  <2> QED BY <2>2, <2>3, <2>4, <2>5, <2>6, <2>7 DEF Next
<1> QED BY <1>1, <1>2, NextWanted DEF CleanedInv

\* At the start no command has finished a sync.
LEMMA InitCleaned == Init => CleanedInv
<1> SUFFICES ASSUME Init
             PROVE  CleanedInv
  OBVIOUS
<1>1. PipelineTyped /\ \A p \in Procs : run[p] = IdleRun
  BY InitTyped DEF Init
<1> QED BY <1>1, ArchiveAssumption DEF CleanedInv, Cleaned, CopiesWanted, IdleRun, AfterSync

\* A run indexes nothing of a session that was excluded before it began and stayed so,
\* also when its sync or its backfill degrades, unless its sync could not remove a file
\* of it or a command that began before the session was excluded archives it meanwhile
\* (_sync_archive_then_pick_ingest_root).
THEOREM ExcludedStaysOut == Spec /\ []ExcludesAgree => ExcludedNotIngested
<1>1. Init => CleanedInv
  BY InitCleaned
<1>2. CleanedInv /\ ExcludesAgree /\ [Next]_vars => CleanedInv'
  BY NextCleaned
<1>3. ASSUME CleanedInv, NEW p \in Procs, IngestRows(p),
             NEW s \in run[p].excluded \cap run[p].quiet
      PROVE  MessagesOf(index', s) = MessagesOf(index, s)
  <2>1. /\ run[p].phase = "read" /\ Cleaned(p) /\ TypeOK /\ InHand(run[p]) /\ index \in Index
    BY <1>3 DEF IngestRows, CleanedInv, PipelineTyped, TypeOK
  <2> DEFINE path == run[p].path
  <2>2. path \in IndexedPaths /\ path[2] # Live
    BY <1>3, <2>1 DEF Cleaned, InHand
  <2>3. path \in ArchivePaths /\ FileAt(path) = files[path]
    BY <2>2 DEF IndexedPaths, ArchivePaths, FileAt
  <2>4. SessionOf(path) # s \/ RowsOf(FileAt(path)) = {}
    BY <1>3, <2>1, <2>3 DEF Cleaned, AfterSync
  <2>5. index' = index \/ index' = IngestFile(index, path, FileAt(path), Embeds(p))
    BY <1>3 DEF IngestRows
  <2>6. Embeds(p) \in BOOLEAN
    BY DEF Embeds
  <2> HIDE DEF path
  <2> QED BY <2>1, <2>4, <2>5, <2>6, IngestOthers
<1>4. CleanedInv =>
         \A p \in Procs : IngestRows(p) =>
            \A s \in run[p].excluded \cap run[p].quiet :
               MessagesOf(index', s) = MessagesOf(index, s)
  BY <1>3
<1> QED BY <1>1, <1>2, <1>4, PTL DEF Spec, ExcludedNotIngested

-----------------------------------------------------------------------------
(* What is skipped as unchanged *)

\* What has been indexed or overtaken stays so, as long as messages are only added.
LEMMA CoveredStays ==
    ASSUME NEW path, NEW f, Covered(path, f), live' = live, past' = past,
           index.messages \subseteq index'.messages
    PROVE  Covered(path, f)'
<1>1. CASE Bygone(path, f)
  BY <1>1 DEF Bygone, Covered
<1>2. CASE TextsOf(f) \subseteq IndexedTexts(index, SessionOf(path))
  <2>1. IndexedTexts(index, SessionOf(path)) \subseteq IndexedTexts(index', SessionOf(path))
    BY DEF IndexedTexts, MessagesOf
  <2> QED BY <1>2, <2>1 DEF Covered
<1> QED BY <1>1, <1>2 DEF Covered

\* The same when a transcript is written or deleted: no version comes back.
LEMMA OutsideCovered ==
    ASSUME SeenInv, Outside, NEW path \in IndexedPaths, NEW f
    PROVE  /\ Covered(path, f) => Covered(path, f)'
           /\ Bygone(path, f) => Bygone(path, f)'
           /\ f \in File /\ FileAt(path) = f => FileAt(path)' = f \/ Bygone(path, f)'
<1>1. /\ live \in [Sessions -> Transcripts \union {Absent}]
      /\ past \in [Sessions -> SUBSET (Transcripts \union {Absent})]
      /\ \A s \in Sessions : live[s] \in past[s] \union {Absent}
      /\ Absent \notin Transcripts /\ Absent \notin File
  BY ArchiveAssumption, NamesAssumption DEF SeenInv, PipelineTyped, TypeOK
<1>2. index' = index /\ files' = files
  BY OutsideKeeps DEF SeenInv
<1>3. path[1] \in Sessions
  BY DEF IndexedPaths
<1>4. PICK s \in Sessions :
         \/ live' = live /\ past' = past
         \/ /\ past' = past /\ live' = [live EXCEPT ![s] = Absent]
         \/ \E t \in Transcripts :
              /\ t \notin past[s] /\ live' = [live EXCEPT ![s] = t]
              /\ past' = [past EXCEPT ![s] = @ \union {t}]
  BY DEF Outside, WriteTranscript, RotateTranscript, ChangeExclude
<1>5. ASSUME Bygone(path, f)
      PROVE  Bygone(path, f)'
  BY <1>1, <1>3, <1>4, <1>5 DEF Bygone, SessionOf
<1>6. Covered(path, f) => Covered(path, f)'
  BY <1>2, <1>5 DEF Covered
<1>7. ASSUME f \in File, FileAt(path) = f
      PROVE  FileAt(path)' = f \/ Bygone(path, f)'
  <2>1. CASE path[2] # Live
    BY <1>2, <1>7, <2>1 DEF FileAt
  <2>2. CASE path[2] = Live
    <3>1. live[path[1]] # Absent /\ f = Faithful(live[path[1]])
      BY <1>1, <1>7, <2>2 DEF FileAt, SessionOf
    <3>2. f.rows = live[path[1]] /\ live[path[1]] \in past[path[1]]
      BY <1>1, <1>3, <3>1 DEF Faithful
    <3>3. CASE live'[path[1]] = live[path[1]]
      BY <2>2, <3>1, <3>3 DEF FileAt, SessionOf
    <3>4. CASE live'[path[1]] # live[path[1]]
      <4>1. live[path[1]] \in past'[path[1]]
        BY <1>1, <1>3, <1>4, <3>2
      <4> QED BY <2>2, <3>1, <3>2, <3>4, <4>1 DEF Bygone, SessionOf
    <3> QED BY <3>3, <3>4
  <2> QED BY <2>1, <2>2
<1> QED BY <1>5, <1>6, <1>7

\* All the texts of a file that ingest_file has read are in the index.
LEMMA IngestCovers ==
    ASSUME NEW d \in Index, NEW path, NEW f, NEW embed \in BOOLEAN
    PROVE  /\ TextsOf(f) \subseteq IndexedTexts(IngestFile(d, path, f, embed), SessionOf(path))
           /\ d.messages \subseteq IngestFile(d, path, f, embed).messages
           /\ IngestFile(d, path, f, embed).seen = d.seen
<1> DEFINE x   == SessionOf(path)
           new == TextsOf(f) \ IndexedTexts(d, x)
           id  == [r \in new |-> d.next + Cardinality({q \in new : q < r})]
           M(r) == [id |-> id[r], session |-> x, row |-> r, src |-> path]
           e == IngestFile(d, path, f, embed)
<1>1. e.messages = d.messages \union {M(r) : r \in new} /\ e.seen = d.seen
  BY DEF IngestFile, Index
<1>2. ASSUME NEW r \in TextsOf(f)
      PROVE  r \in IndexedTexts(e, x)
  <2>1. CASE r \in new
    <3>1. M(r) \in e.messages
      BY <1>1, <2>1
    <3>2. M(r).session = x /\ M(r).row = r
      OBVIOUS
    <3> HIDE DEF M, e, x, new
    <3> QED BY <3>1, <3>2 DEF IndexedTexts, MessagesOf
  <2>2. CASE r \notin new
    <3>1. r \in IndexedTexts(d, x) /\ d.messages \subseteq e.messages
      BY <1>1, <1>2, <2>2
    <3> HIDE DEF e, x
    <3> QED BY <3>1 DEF IndexedTexts, MessagesOf
  <2> QED BY <2>1, <2>2
<1> HIDE DEF M, e, new, id
<1>3. TextsOf(f) \subseteq IndexedTexts(e, x) /\ d.messages \subseteq e.messages /\ e.seen = d.seen
  BY <1>1, <1>2
<1> QED BY <1>3 DEF e

\* A step that adds no file to those seen.
LEMMA SeenStays ==
    ASSUME SeenInv, PipelineTyped', live' = live, past' = past,
           index.messages \subseteq index'.messages, index'.seen = index.seen,
           \A p \in Procs : InHandSeen(p)'
    PROVE  SeenInv'
<1>1. \A path \in IndexedPaths :
         index.seen[path] # None => Covered(path, index.seen[path])'
  BY CoveredStays DEF SeenInv
<1> QED BY <1>1 DEF SeenInv

\* Only three steps change the messages and the files seen.
LEMMA SeenIsKept ==
    ASSUME PipelineTyped, NEW p \in Procs, Start(p) \/ Step(p) \/ Fault(p),
           ~IngestRows(p), ~RecordSeen(p), ~ForgetMessages(p)
    PROVE  index'.messages = index.messages /\ index'.seen = index.seen
<1>1. index \in Index
  BY DEF PipelineTyped, TypeOK
<1>2. CASE EmbedBatch(p)
  BY <1>1, <1>2 DEF EmbedBatch, UpsertEmbeddings, Index
<1>3. CASE OpenStore(p)
  BY <1>1, <1>3 DEF OpenStore, Index
<1>4. CASE index' = index
  BY <1>4
<1>5. Start(p) => index' = index
  BY DEF Start, StartSync, StartBackfill, StartPrune, StartForget
<1>6. Step(p) => index' = index \/ EmbedBatch(p) \/ OpenStore(p)
  BY DEF Step, ExamineTranscript, OpenCopy, CopyTranscript, FinishSync,
     BackfillSession, FinishBackfill, StatFile,
     CountGuard, FetchBatch, UnlinkSession, SaveManifest
<1>7. Fault(p) => index' = index
  BY DEF Fault, TornCopy, DegradeSync, DegradeBackfill, StuckForget, Kill
<1> QED BY <1>2, <1>3, <1>4, <1>5, <1>6, <1>7

\* The step of a command that stats a file, and of one that does not come to it.
LEMMA StatSeen ==
    ASSUME SeenInv, PipelineTyped', NEW p \in Procs,
           Start(p) \/ Step(p) \/ Fault(p),
           ~IngestRows(p), ~RecordSeen(p), ~ForgetMessages(p),
           \A q \in Procs \ {p} : InHandSeen(q)'
    PROVE  SeenInv'
<1>1. PipelineTyped /\ PipelineTyped'
  BY DEF SeenInv
<1>2. live' = live /\ past' = past
  BY CommandsReadLive
<1>3. index'.messages = index.messages /\ index'.seen = index.seen
  BY <1>1, SeenIsKept
<1>4. run'[p].phase # "seen"
  BY <1>1, PhaseAfter, Zenon DEF Start, Step, Fault
<1>5. ASSUME run'[p].phase = "read"
      PROVE  FileAt(run[p].path)' = run'[p].stat
  <2>1. StatFile(p)
    BY <1>1, <1>5, PhaseAfter, Zenon DEF Start, Step, Fault
  <2>2. PICK path \in run[p].queue :
           run' = [run EXCEPT ![p].queue = @ \ {path}, ![p].phase = "read",
                              ![p].path = path, ![p].stat = FileAt(path)]
    <3>1. run \in [Procs -> Runs] /\ run[p] \in Runs /\ run[p].phase = "ingest"
      BY <1>1, <2>1 DEF PipelineTyped, TypeOK, StatFile
    <3>2. ~Exit(p)
      BY <1>5, <3>1 DEF Exit, IdleRun, Runs
    <3>3. \A path : run' # [run EXCEPT ![p].queue = @ \ {path}]
      BY <1>5, <3>1 DEF Runs
    <3> QED BY <2>1, <3>2, <3>3 DEF StatFile
  <2>3. run'[p].path = path /\ run'[p].stat = FileAt(path)
    <3>1. run \in [Procs -> Runs] /\ run[p] \in Runs
      BY <1>1 DEF PipelineTyped, TypeOK
    <3> QED BY <2>2, <3>1 DEF Runs
  <2>4. files' = files
    BY <2>1 DEF StatFile
  <2>5. FileAt(run[p].path)' = FileAt(path)
    BY <1>2, <2>3, <2>4 DEF FileAt
  <2> QED BY <2>3, <2>5
<1>6. InHandSeen(p)'
  BY <1>4, <1>5 DEF InHandSeen
<1> QED BY <1>1, <1>2, <1>3, <1>6, SeenStays

\* Between the stat and the read of an archived file, nobody else writes or deletes it.
ReadUndisturbed ==
    \A p \in Procs :
       run[p].phase = "read" /\ run'[p].phase = "read" /\ run[p].path \in ArchivePaths =>
          files'[run[p].path] = files[run[p].path]

\* What another command has in hand, when nobody removes messages.
LEMMA OthersSeen ==
    ASSUME SeenInv, [ReadUndisturbed]_vars, NEW p \in Procs, Start(p) \/ Step(p) \/ Fault(p),
           index.messages \subseteq index'.messages, NEW q \in Procs \ {p}
    PROVE  InHandSeen(q)'
<1>1. PipelineTyped /\ InHandSeen(q) /\ InHand(run[q])
  BY DEF SeenInv, PipelineTyped
<1>2. /\ run'[q].phase = run[q].phase /\ run'[q].path = run[q].path
      /\ run'[q].stat = run[q].stat /\ live' = live /\ past' = past
  BY <1>1, OthersKeep, CommandsReadLive DEF Undisturbed
<1>3. PICK path, f : path = run[q].path /\ f = run[q].stat
  OBVIOUS
<1>4. ASSUME run[q].phase = "read"
      PROVE  (FileAt(run[q].path) = run[q].stat \/ Bygone(run[q].path, run[q].stat))'
  <2>1. path \in IndexedPaths
    BY <1>1, <1>3, <1>4 DEF InHand
  <2>2. path[2] # Live => files'[path] = files[path]
    <3>1. path[2] # Live => path \in ArchivePaths
      BY <2>1 DEF IndexedPaths, ArchivePaths
    <3>2. CASE vars' = vars
      BY <3>2 DEF vars
    <3>3. CASE ReadUndisturbed
      BY <1>2, <1>3, <1>4, <3>1, <3>3 DEF ReadUndisturbed
    <3> QED BY <3>2, <3>3
  <2>3. FileAt(path)' = FileAt(path)
    BY <1>2, <2>2 DEF FileAt
  <2>4. Bygone(path, f) => Bygone(path, f)'
    BY <1>2 DEF Bygone
  <2>5. FileAt(path) = f \/ Bygone(path, f)
    BY <1>1, <1>3, <1>4 DEF InHandSeen
  <2>6. FileAt(run[q].path)' = FileAt(path)'
    BY <1>2, <1>3 DEF FileAt
  <2>7. Bygone(run[q].path, run[q].stat)' <=> Bygone(path, f)'
    BY <1>2, <1>3 DEF Bygone
  <2> QED BY <1>2, <1>3, <2>3, <2>4, <2>5, <2>6, <2>7
<1>5. ASSUME run[q].phase = "seen"
      PROVE  Covered(run[q].path, run[q].stat)'
  <2>1. Covered(path, f)
    BY <1>1, <1>3, <1>5 DEF InHandSeen
  <2>2. Covered(path, f)'
    BY <1>2, <2>1, CoveredStays
  <2> QED BY <1>2, <1>3, <2>2 DEF Covered, Bygone
<1> QED BY <1>2, <1>4, <1>5 DEF InHandSeen

\* A command that is alone is disturbed by nobody.
LEMMA AloneUndisturbed ==
    ASSUME PipelineTyped, OneAtATime, [Next]_vars
    PROVE  /\ ForgetReadsInPeace /\ ForgetUndisturbed /\ ExcludesAgree
           /\ [CopyUndisturbed]_vars /\ [ReadUndisturbed]_vars
<1>1. ForgetReadsInPeace /\ ForgetUndisturbed /\ ExcludesAgree
  BY DEF OneAtATime, ForgetReadsInPeace, ForgetUndisturbed, ExcludesAgree
<1>2. ASSUME NEW p \in Procs, Start(p) \/ Step(p) \/ Fault(p),
             run[p].phase \in {"copy", "write", "read"}, run'[p].phase = run[p].phase
      PROVE  files' = files
  <2>1. Start(p) => FALSE
    BY <1>2 DEF Start, StartSync, StartBackfill, StartPrune, StartForget, Idle
  <2>2. Step(p) => OpenCopy(p) \/ CopyTranscript(p) \/ IngestRows(p)
    BY <1>2 DEF Step, ExamineTranscript, FinishSync, OpenStore,
       BackfillSession, FinishBackfill, StatFile, RecordSeen, CountGuard,
       FetchBatch, EmbedBatch, ForgetMessages, UnlinkSession, SaveManifest
  <2>3. ~OpenCopy(p) /\ ~CopyTranscript(p) /\ ~TornCopy(p)
    BY <1>2, PhaseAfter DEF OpenCopy, CopyTranscript, TornCopy
  <2>4. Fault(p) => files' = files
    BY <1>2, <2>3 DEF Fault, DegradeSync, DegradeBackfill, StuckForget, Kill
  <2> QED BY <1>2, <2>1, <2>2, <2>3, <2>4 DEF IngestRows
<1>3. CASE UNCHANGED vars
  BY <1>1, <1>3
<1>4. CASE Outside
  BY <1>1, <1>4, OutsideKeeps DEF CopyUndisturbed, ReadUndisturbed
<1>5. CASE \E p \in Procs : Start(p) \/ Step(p) \/ Fault(p)
  <2>1. CopyUndisturbed /\ ReadUndisturbed
    BY <1>2, <1>5 DEF OneAtATime, CopyUndisturbed, ReadUndisturbed
  <2> QED BY <1>1, <2>1
<1> QED BY <1>3, <1>4, <1>5 DEF Next

\* Every step keeps what is recorded as seen in the index.
LEMMA NextSeen ==
    ASSUME SeenInv, [ReadUndisturbed]_vars, "forget" \notin Commands, [Next]_vars
    PROVE  SeenInv'
<1>1. PipelineTyped /\ PipelineTyped'
  BY NextTyped DEF SeenInv
<1>2. CASE vars' = vars
  BY <1>2 DEF vars, SeenInv, PipelineTyped, TypeOK, InHand, InHandSeen, FileAt, Covered,
     Bygone
<1>3. CASE Outside
  <2>1. \A s \in Sessions : live'[s] \in past'[s] \union {Absent}
    <3>1. /\ live \in [Sessions -> Transcripts \union {Absent}]
          /\ past \in [Sessions -> SUBSET (Transcripts \union {Absent})]
          /\ \A s \in Sessions : live[s] \in past[s] \union {Absent}
      BY DEF SeenInv, PipelineTyped, TypeOK
    <3> QED BY <1>3, <3>1 DEF Outside, WriteTranscript, RotateTranscript, ChangeExclude
  <2>2. index' = index /\ \A q \in Procs : /\ run'[q].phase = run[q].phase
                                           /\ run'[q].path = run[q].path
                                           /\ run'[q].stat = run[q].stat
    <3>1. \A q \in Procs : run[q] \in Runs
      BY <1>1 DEF PipelineTyped, TypeOK
    <3> QED BY <1>1, <1>3, <3>1, OutsideKeeps DEF Runs
  <2>3. ASSUME NEW path \in IndexedPaths
        PROVE  (index.seen[path] # None => Covered(path, index.seen[path]))'
    <3>1. PICK f : f = index.seen[path]
      OBVIOUS
    <3>2. f # None => Covered(path, f)
      BY <3>1 DEF SeenInv
    <3>3. f # None => Covered(path, f)'
      BY <1>3, <3>2, OutsideCovered
    <3>4. f = index'.seen[path]
      BY <2>2, <3>1
    <3> QED BY <3>3, <3>4 DEF Covered, Bygone
  <2>4. ASSUME NEW q \in Procs
        PROVE  InHandSeen(q)'
    <3>1. PICK path, f : path = run[q].path /\ f = run[q].stat
      OBVIOUS
    <3>2. run'[q].path = path /\ run'[q].stat = f /\ run'[q].phase = run[q].phase
      BY <2>2, <3>1
    <3>3. run[q].phase \in {"read", "seen"} => path \in IndexedPaths /\ f \in File
      BY <1>1, <3>1 DEF PipelineTyped, InHand
    <3>4. run[q].phase = "read" => FileAt(path) = f \/ Bygone(path, f)
      BY <3>1 DEF SeenInv, InHandSeen
    <3>5. run[q].phase = "seen" => Covered(path, f)
      BY <3>1 DEF SeenInv, InHandSeen
    <3>6. run[q].phase = "read" => FileAt(path)' = f \/ Bygone(path, f)'
      BY <1>3, <3>3, <3>4, OutsideCovered
    <3>7. run[q].phase = "seen" => Covered(path, f)'
      BY <1>3, <3>3, <3>5, OutsideCovered
    <3>8. run'[q].phase = "read" =>
             (FileAt(run[q].path) = run[q].stat \/ Bygone(run[q].path, run[q].stat))'
      <4>1. FileAt(run[q].path)' = FileAt(path)'
        BY <3>2 DEF FileAt
      <4>2. Bygone(run[q].path, run[q].stat)' <=> Bygone(path, f)'
        BY <3>2 DEF Bygone
      <4> QED BY <3>2, <3>6, <4>1, <4>2
    <3>9. Covered(run[q].path, run[q].stat)' <=> Covered(path, f)'
      BY <3>2 DEF Covered, Bygone
    <3> QED BY <3>2, <3>7, <3>8, <3>9 DEF InHandSeen
  <2> QED BY <1>1, <2>1, <2>3, <2>4 DEF SeenInv
<1>4. ASSUME NEW p \in Procs, Start(p) \/ Step(p) \/ Fault(p)
      PROVE  SeenInv'
  <2>1. live' = live /\ past' = past
    BY <1>4, CommandsReadLive
  <2>2. index \in Index /\ run \in [Procs -> Runs] /\ run[p] \in Runs
    BY <1>1 DEF PipelineTyped, TypeOK
  <2>3. CASE IngestRows(p) /\ FileAt(run[p].path) = Absent
    <3>1. index' = index /\ run'[p].phase = "idle"
      BY <2>2, <2>3 DEF IngestRows, Exit, IdleRun
    <3>2. \A q \in Procs : InHandSeen(q)'
      BY <1>4, <3>1, OthersSeen DEF InHandSeen
    <3> QED BY <1>1, <2>1, <3>1, <3>2, SeenStays
  <2>4. CASE IngestRows(p) /\ FileAt(run[p].path) # Absent
    <3>1. PICK path, f : path = run[p].path /\ f = FileAt(path)
      OBVIOUS
    <3>2. /\ index' = IngestFile(index, path, f, Embeds(p))
          /\ run' = [run EXCEPT ![p].phase = "seen"] /\ run[p].phase = "read"
      BY <2>4, <3>1 DEF IngestRows
    <3>3. run'[p].phase = "seen" /\ run'[p].path = path /\ run'[p].stat = run[p].stat
      BY <2>2, <3>1, <3>2 DEF Runs
    <3>4. Embeds(p) \in BOOLEAN
      BY DEF Embeds
    <3>5. /\ TextsOf(f) \subseteq IndexedTexts(index', SessionOf(path))
          /\ index.messages \subseteq index'.messages
          /\ index'.seen = index.seen
      BY <2>2, <3>2, <3>4, IngestCovers
    <3>6. FileAt(run[p].path) = run[p].stat \/ Bygone(run[p].path, run[p].stat)
      BY <3>2 DEF SeenInv, InHandSeen
    <3>7. Covered(run[p].path, run[p].stat)'
      BY <2>1, <3>1, <3>3, <3>5, <3>6 DEF Covered, Bygone
    <3>8. \A q \in Procs : InHandSeen(q)'
      BY <1>4, <3>3, <3>5, <3>7, OthersSeen DEF InHandSeen
    <3> QED BY <1>1, <2>1, <3>5, <3>8, SeenStays
  <2>5. CASE RecordSeen(p)
    <3>1. PICK path, f : path = run[p].path /\ f = run[p].stat
      OBVIOUS
    <3>2. index' = [index EXCEPT !.seen[path] = f] /\ run[p].phase = "seen"
      BY <2>5, <3>1 DEF RecordSeen, RecordFileSeen
    <3>3. Covered(path, f) /\ run'[p].phase = "ingest"
      BY <1>1, <2>5, <3>1, <3>2, PhaseAfter DEF SeenInv, InHandSeen
    <3>4. /\ index'.messages = index.messages
          /\ \A q \in IndexedPaths : index'.seen[q] = IF q = path THEN f ELSE index.seen[q]
      BY <2>2, <3>2 DEF Index
    <3>5. ASSUME NEW q \in IndexedPaths
          PROVE  (index.seen[q] # None => Covered(q, index.seen[q]))'
      <4>1. PICK g : g = index'.seen[q]
        OBVIOUS
      <4>2. g # None => Covered(q, g)
        BY <3>3, <3>4, <4>1 DEF SeenInv
      <4>3. g # None => Covered(q, g)'
        BY <2>1, <3>4, <4>2, CoveredStays
      <4> QED BY <4>1, <4>3 DEF Covered, Bygone
    <3>6. \A s \in Sessions : (live[s] \in past[s] \union {Absent})'
      BY <2>1 DEF SeenInv
    <3>7. \A q \in Procs : InHandSeen(q)'
      BY <1>4, <3>3, <3>4, OthersSeen DEF InHandSeen
    <3> QED BY <1>1, <2>1, <3>5, <3>6, <3>7 DEF SeenInv
  <2>6. ~ForgetMessages(p)
    BY <1>1 DEF ForgetMessages, PipelineTyped, InHand
  <2>7. CASE ~IngestRows(p) /\ ~RecordSeen(p)
    <3>1. index'.messages = index.messages
      BY <1>1, <1>4, <2>6, <2>7, SeenIsKept
    <3>2. \A q \in Procs \ {p} : InHandSeen(q)'
      BY <1>4, <3>1, OthersSeen
    <3> QED BY <1>1, <1>4, <2>6, <2>7, <3>2, StatSeen
  <2> QED BY <2>3, <2>4, <2>5, <2>7
<1> QED BY <1>2, <1>3, <1>4 DEF Next

\* At the start nothing is recorded as seen.
LEMMA InitSeen == Init => SeenInv
<1> SUFFICES ASSUME Init PROVE SeenInv
  OBVIOUS
<1>1. PipelineTyped
  BY InitTyped
<1>2. \A s \in Sessions : live[s] \in past[s] \union {Absent}
  BY DEF Init
<1>3. \A path \in IndexedPaths : index.seen[path] = None
  BY DEF Init, EmptyIndex
<1>4. \A p \in Procs : run[p].phase = "idle"
  BY DEF Init, IdleRun
<1> QED BY <1>1, <1>2, <1>3, <1>4 DEF SeenInv, InHandSeen

\* A file that is skipped is in the index whole: it is no version that was overtaken.
LEMMA SkippedIndexed ==
    ASSUME SeenInv, NEW path \in IndexedPaths, FileAt(path) # Absent,
           ShouldSkipFile(index, path, FileAt(path))
    PROVE  TextsOf(FileAt(path)) \subseteq IndexedTexts(index, SessionOf(path))
<1>1. FileAt(path) \in File /\ None \notin File /\ TypeOK
  BY FileAtTyped, NamesAssumption DEF SeenInv, PipelineTyped
<1>2. Covered(path, FileAt(path))
  BY <1>1 DEF SeenInv, ShouldSkipFile
<1>3. ~Bygone(path, FileAt(path))
  BY DEF Bygone, FileAt, Faithful
<1> QED BY <1>2, <1>3 DEF Covered

\* A file that ingest skips as unchanged has been indexed whole, unless a forget is among
\* the commands or another command rewrites an archived file between its stat and its
\* read (ingest_file records the stat it took before).
THEOREM SkippedIsIndexed ==
    ASSUME "forget" \notin Commands
    PROVE  Spec /\ [][ReadUndisturbed]_vars => []SkipIsSound
<1>1. Init => SeenInv
  BY InitSeen
<1>2. SeenInv /\ [ReadUndisturbed]_vars /\ [Next]_vars => SeenInv'
  BY NextSeen
<1>3. SeenInv => SkipIsSound
  BY SkippedIndexed DEF SkipIsSound
<1> QED BY <1>1, <1>2, <1>3, PTL DEF Spec

-----------------------------------------------------------------------------
(* What a sync leaves archived *)

\* The rows of a session's files, one by one.
LEMMA RowArchived ==
    ASSUME NEW fs, NEW s, NEW r
    PROVE  r \in ArchivedRows(fs, s) <=>
              \E path \in ArchivePaths : SessionOf(path) = s /\ r \in RowsOf(fs[path])
BY DEF ArchivedRows

\* The files of a session are its canonical one and the sidecars.
LEMMA SessionFiles ==
    ASSUME NEW s \in Sessions
    PROVE  /\ CanonicalPath(s) \in ArchivePaths /\ SessionOf(CanonicalPath(s)) = s
           /\ \A t \in Transcripts :
                 /\ SidecarPath(s, t) \in ArchivePaths /\ SessionOf(SidecarPath(s, t)) = s
                 /\ SidecarPath(s, t) # CanonicalPath(s)
BY ArchiveAssumption DEF CanonicalPath, SidecarPath, ArchivePaths, SessionOf

\* Nothing changes for a session whose files and transcript stay.
LEMMA ArchivedStays ==
    ASSUME NEW s \in Sessions, TypeOK, live'[s] = live[s], live[s] # Absent,
           \A q \in ArchivePaths : SessionOf(q) = s => files'[q] = files[q]
    PROVE  ArchivedLive(s) => ArchivedLive(s)'
<1>1. live[s] \in Transcripts
  BY LiveTranscript
<1>2. CutSidecar(s, live[s]) => CutSidecar(s, live[s])'
  BY <1>1, SessionFiles DEF CutSidecar
<1>3. ArchivedRows(files', s) = ArchivedRows(files, s)
  <2>1. ASSUME NEW q \in ArchivePaths, SessionOf(q) = s
        PROVE  RowsOf(files'[q]) = RowsOf(files[q])
    BY <2>1
  <2> QED BY <2>1 DEF ArchivedRows
<1> QED BY <1>2, <1>3 DEF ArchivedLive

\* The parts of the invariant make the whole, in a step of a command.
LEMMA ManifestStep ==
    ASSUME ManifestInv, PipelineTyped', OneAtATime, NEW p \in Procs,
           live' = live, past' = past,
           \A s \in Sessions : manifest'[s] \in past[s] \union {Backfill, None},
           \A s \in Sessions :
              ManifestKnown(p, s)' /\ CopyKnown(p, s)' /\ SyncKnown(p, s)'
    PROVE  ManifestInv'
<1>1. \A s \in Sessions : History(s)'
  BY DEF ManifestInv, History
<1>2. \A q \in Procs : q = p
  BY DEF OneAtATime
<1> QED BY <1>1, <1>2 DEF ManifestInv

\* A command that carries no manifest, and changes none.
LEMMA ManifestRests ==
    ASSUME ManifestInv, PipelineTyped', OneAtATime, NEW p \in Procs,
           live' = live, past' = past, files' = files, manifest' = manifest,
           faults' \in {faults, faults + 1}, faults' = faults \/ MaxFaults <= 1,
           run[p].phase \notin Carrying \/ faults' = faults + 1,
           run'[p].phase \notin Carrying,
           run'[p].man \in {run[p].man, IdleRun.man}
    PROVE  ManifestInv'
<1>1. TypeOK /\ TypeOK' /\ faults \in Nat /\ faults' \in 0..MaxFaults
  BY DEF ManifestInv, PipelineTyped, TypeOK
<1>2. ASSUME NEW s \in Sessions
      PROVE  ManifestKnown(p, s)' /\ CopyKnown(p, s)' /\ SyncKnown(p, s)'
  <2>1. /\ ManifestKnown(p, s) /\ History(s)
        /\ run'[p].man[s] \in past'[s] \union {Backfill, None}
    BY DEF ManifestInv, ManifestKnown, IdleRun
  <2>2. TrueManifest(manifest, s)'
    <3>1. CASE run[p].phase \notin Carrying
      <4>1. TrueManifest(manifest, s)
        BY <2>1, <3>1 DEF ManifestKnown
      <4> QED BY <1>1, <4>1 DEF TrueManifest, TrueOfFile
    <3>2. CASE run[p].phase \in Carrying
      <4>1. faults' = faults + 1 /\ MaxFaults <= 1 /\ MaxFaults \in Nat
        BY <1>1, <3>2, PipelineAssumption
      <4>2. faults = 0 /\ faults' = 1
        BY <1>1, <4>1
      <4>3. TrueOfFile(manifest, s)
        BY <2>1, <3>2, <4>2 DEF ManifestKnown
      <4> QED BY <4>2, <4>3 DEF TrueManifest, TrueOfFile
    <3> QED BY <3>1, <3>2
  <2>3. CopyKnown(p, s)' /\ SyncKnown(p, s)'
    BY DEF CopyKnown, SyncKnown, Copying, Carrying
  <2> QED BY <2>1, <2>2, <2>3 DEF ManifestKnown
<1>3. \A s \in Sessions : manifest'[s] \in past[s] \union {Backfill, None}
  BY DEF ManifestInv, History
<1> QED BY <1>2, <1>3, ManifestStep

\* A command that takes up the manifest.
LEMMA ManifestLoaded ==
    ASSUME ManifestInv, PipelineTyped', OneAtATime, NEW p \in Procs,
           live' = live, past' = past, files' = files, manifest' = manifest,
           faults' = faults, run[p].phase \notin Carrying,
           run'[p].phase \in {"sync", "backfill"}, run'[p].man = manifest,
           run'[p].phase = "sync" => run'[p].todo = {s \in Sessions : live[s] # Absent}
    PROVE  ManifestInv'
<1>1. ASSUME NEW s \in Sessions
      PROVE  ManifestKnown(p, s)' /\ CopyKnown(p, s)' /\ SyncKnown(p, s)'
  <2>1. TrueManifest(manifest, s) /\ History(s)
    BY DEF ManifestInv, ManifestKnown
  <2>2. TrueManifest(manifest, s)' /\ TrueOfFile(manifest, s)'
    BY <2>1 DEF TrueManifest, TrueOfFile
  <2>3. TrueManifest(run[p].man, s)'
    BY <2>2 DEF TrueManifest, TrueOfFile
  <2>4. ManifestKnown(p, s)'
    BY <2>1, <2>2, <2>3 DEF ManifestKnown, History, Carrying
  <2>5. CopyKnown(p, s)' /\ SyncKnown(p, s)'
    BY DEF CopyKnown, SyncKnown, Copying
  <2> QED BY <2>4, <2>5
<1>2. \A s \in Sessions : manifest'[s] \in past[s] \union {Backfill, None}
  BY DEF ManifestInv, History
<1> QED BY <1>1, <1>2, ManifestStep

\* What the sync takes to be up to date is archived.
LEMMA UpToDate ==
    ASSUME TypeOK, NEW man, NEW s \in Sessions, live[s] # Absent,
           CopyTarget(files, man, s, live[s]) = None, TrueOfFile(man, s)
    PROVE  ArchivedLive(s)
<1> DEFINE t    == live[s]
           f    == files[CanonicalPath(s)]
           side == files[SidecarPath(s, t)]
<1>1. t \in Transcripts /\ IsTranscript(Faithful(t))
  BY LiveTranscript
<1>2. None \notin {CanonicalPath(s), SidecarPath(s, t)}
  BY <1>1, SessionFiles, NamesAssumption
<1>3. (f # Absent /\ man[s] = t) \/ side # Absent
  BY <1>2 DEF CopyTarget
<1>4. ASSUME f # Absent, man[s] = t
      PROVE  ArchivedLive(s)
  <2>1. ToSet(t) \subseteq RowsOf(f)
    BY <1>4 DEF TrueOfFile
  <2>2. RowsOf(f) \subseteq ArchivedRows(files, s)
    BY SessionFiles, RowArchived
  <2> QED BY <2>1, <2>2 DEF ArchivedLive
<1>5. ASSUME side # Absent
      PROVE  ArchivedLive(s)
  <2>1. CASE side = Faithful(t)
    <3>1. ToSet(t) \subseteq RowsOf(side)
      BY <1>5, <2>1 DEF RowsOf, Faithful
    <3>2. RowsOf(side) \subseteq ArchivedRows(files, s)
      BY <1>1, SessionFiles, RowArchived
    <3> QED BY <3>1, <3>2 DEF ArchivedLive
  <2>2. CASE side # Faithful(t)
    BY <1>5, <2>2 DEF ArchivedLive, CutSidecar
  <2> QED BY <2>1, <2>2
<1> QED BY <1>3, <1>4, <1>5

\* A copy to the canonical file is of a version the manifest does not record.
LEMMA TargetUnlisted ==
    ASSUME NEW man, NEW s \in Sessions, NEW t \in Transcripts, TrueManifest(man, s),
           faults = 0, CopyTarget(files, man, s, t) = CanonicalPath(s)
    PROVE  man[s] # t
<1>1. CanonicalPath(s) # None /\ None \notin Transcripts
  BY SessionFiles, NamesAssumption, ArchiveAssumption
<1> QED BY <1>1 DEF CopyTarget, TrueManifest

\* A transcript passed over as unchanged is archived.
LEMMA ExamineManifest ==
    ASSUME ManifestInv, PipelineTyped', OneAtATime, NEW p \in Procs, ExamineTranscript(p)
    PROVE  ManifestInv'
<1>1. /\ TypeOK /\ run \in [Procs -> Runs] /\ run[p] \in Runs
      /\ \A s \in Sessions : manifest'[s] \in past[s] \union {Backfill, None}
      /\ \A s \in Sessions : History(s) /\ ManifestKnown(p, s) /\ SyncKnown(p, s)
  BY DEF ManifestInv, PipelineTyped, TypeOK, History, ExamineTranscript
<1>2. /\ run[p].phase = "sync" /\ run[p].todo \subseteq Sessions
      /\ live' = live /\ past' = past /\ files' = files /\ manifest' = manifest
      /\ faults' = faults
  BY <1>1 DEF ExamineTranscript, Runs
<1>3. PICK x \in run[p].todo :
         \/ /\ \/ live[x] = Absent
               \/ x \in run[p].excluded
               \/ CopyTarget(files, run[p].man, x, live[x]) = None
            /\ run' = [run EXCEPT ![p].todo = @ \ {x}]
         \/ /\ live[x] # Absent /\ CopyTarget(files, run[p].man, x, live[x]) # None
            /\ run' = [run EXCEPT ![p].todo = @ \ {x}, ![p].phase = "copy",
                                  ![p].path = CopyTarget(files, run[p].man, x, live[x]),
                                  ![p].stat = Faithful(live[x])]
  BY DEF ExamineTranscript
<1>4. /\ run'[p].todo = run[p].todo \ {x} /\ run'[p].man = run[p].man
      /\ run'[p].quiet = run[p].quiet /\ run'[p].excluded = run[p].excluded
  BY <1>1, <1>3 DEF Runs
<1>5. \A s \in Sessions :
         /\ TrueManifest(run[p].man, s) /\ (faults = 0 => TrueOfFile(manifest, s))
         /\ s \in run[p].todo => run[p].man[s] = manifest[s]
  BY <1>1, <1>2 DEF ManifestKnown, Carrying
<1>6. \A s \in Sessions : TrueManifest(run[p].man, s)' /\ (faults = 0 => TrueOfFile(manifest, s))'
  BY <1>2, <1>4, <1>5 DEF TrueManifest, TrueOfFile
<1>7. CASE run' = [run EXCEPT ![p].todo = @ \ {x}]
  <2>1. run'[p].phase = "sync"
    BY <1>1, <1>2, <1>7 DEF Runs
  <2>2. ASSUME NEW s \in Sessions
        PROVE  ManifestKnown(p, s)' /\ CopyKnown(p, s)' /\ SyncKnown(p, s)'
    <3>1. ManifestKnown(p, s)'
      BY <1>1, <1>2, <1>4, <1>5, <1>6, <2>1 DEF ManifestKnown, Copying, Carrying
    <3>2. CopyKnown(p, s)'
      BY <2>1 DEF CopyKnown, Copying
    <3>3. ASSUME s \in run[p].quiet \ run[p].excluded, live[s] # Absent, s \notin run'[p].todo
          PROVE  ArchivedLive(s)
      <4>1. CASE s = x
        <5>1. CopyTarget(files, run[p].man, x, live[x]) = None
          <6>1. CASE live[x] = Absent \/ x \in run[p].excluded
            BY <3>3, <4>1, <6>1
          <6>2. CASE CopyTarget(files, run[p].man, x, live[x]) = None
            BY <6>2
          <6>3. CASE /\ live[x] # Absent /\ CopyTarget(files, run[p].man, x, live[x]) # None
                     /\ run' = [run EXCEPT ![p].todo = @ \ {x}, ![p].phase = "copy",
                                  ![p].path = CopyTarget(files, run[p].man, x, live[x]),
                                  ![p].stat = Faithful(live[x])]
            <7>1. run'[p].phase = "copy"
              BY <1>1, <6>3 DEF Runs
            <7> QED BY <2>1, <7>1
          <6> QED BY <1>3, <6>1, <6>2, <6>3
        <5> QED BY <1>1, <1>3, <1>5, <3>3, <4>1, <5>1, UpToDate DEF TrueManifest
      <4>2. CASE s # x
        BY <1>1, <1>2, <1>4, <3>3, <4>2 DEF SyncKnown, Copying
      <4> QED BY <4>1, <4>2
    <3>4. ArchivedLive(s) => ArchivedLive(s)'
      BY <1>2 DEF ArchivedLive, CutSidecar
    <3>5. SyncKnown(p, s)'
      BY <1>2, <1>4, <2>1, <3>3, <3>4 DEF SyncKnown
    <3> QED BY <3>1, <3>2, <3>5
  <2> QED BY <1>1, <1>2, <2>2, ManifestStep
<1>8. CASE /\ live[x] # Absent /\ CopyTarget(files, run[p].man, x, live[x]) # None
           /\ run' = [run EXCEPT ![p].todo = @ \ {x}, ![p].phase = "copy",
                                 ![p].path = CopyTarget(files, run[p].man, x, live[x]),
                                 ![p].stat = Faithful(live[x])]
  <2>1. PICK t, path : t = live[x] /\ path = CopyTarget(files, run[p].man, x, t)
    OBVIOUS
  <2>2. /\ run'[p].phase = "copy" /\ run'[p].path = path /\ run'[p].stat = Faithful(t)
    BY <1>1, <1>8, <2>1 DEF Runs
  <2>3. x \in Sessions /\ t \in Transcripts
    BY <1>1, <1>2, <1>8, <2>1, LiveTranscript
  <2>4. SessionOf(path) = x /\ path \in {CanonicalPath(x), SidecarPath(x, t)}
    BY <1>8, <2>1, <2>3, CopyTargetTyped
  <2>5. run'[p].stat.rows = t /\ t \in past[x]
    BY <1>1, <1>8, <2>1, <2>2, <2>3 DEF Faithful, History
  <2>6. path = CanonicalPath(x) /\ faults = 0 => manifest[x] # t
    BY <1>5, <2>1, <2>3, TargetUnlisted
  <2>7. ASSUME NEW s \in Sessions
        PROVE  ManifestKnown(p, s)' /\ CopyKnown(p, s)' /\ SyncKnown(p, s)'
    <3>1. Copying(p, s)' <=> s = x
      BY <2>2, <2>4 DEF Copying
    <3>2. ManifestKnown(p, s)'
      BY <1>1, <1>2, <1>4, <1>5, <1>6, <2>2, <3>1 DEF ManifestKnown, Carrying
    <3>3. CopyKnown(p, s)'
      BY <1>2, <1>4, <2>1, <2>2, <2>4, <2>5, <2>6, <3>1 DEF CopyKnown
    <3>4. ArchivedLive(s) => ArchivedLive(s)'
      BY <1>2 DEF ArchivedLive, CutSidecar
    <3>5. SyncKnown(p, s)'
      BY <1>1, <1>2, <1>4, <3>1, <3>4 DEF SyncKnown, Copying
    <3> QED BY <3>2, <3>3, <3>5
  <2> QED BY <1>1, <1>2, <2>7, ManifestStep
<1> QED BY <1>3, <1>7, <1>8

\* What a command in the middle of a copy knows of the session it copies.
LEMMA CopyFacts ==
    ASSUME ManifestInv, NEW p \in Procs, run[p].phase \in {"copy", "write"},
           NEW x, x = SessionOf(run[p].path)
    PROVE  /\ x \in Sessions /\ run[p].path \in ArchivePaths
           /\ run[p].stat.rows \in Transcripts
           /\ x \notin run[p].todo /\ run[p].man[x] = manifest[x]
           /\ \/ run[p].path = CanonicalPath(x)
              \/ run[p].path = SidecarPath(x, run[p].stat.rows) /\ run[p].path # CanonicalPath(x)
           /\ run[p].stat.rows \in past[x]
           /\ x \in run[p].quiet => run[p].stat.rows = live[x]
           /\ run[p].path = CanonicalPath(x) /\ faults = 0 /\ live[x] # Absent =>
                 manifest[x] # live[x]
           /\ run[p].phase = "write" /\ run[p].stat.rows = live[x] =>
                 run[p].copying.rows = live[x]
<1>1. /\ run[p].path \in ArchivePaths /\ run[p].stat.rows \in Transcripts /\ x \in Sessions
  BY DEF ManifestInv, PipelineTyped, InHand, IsTranscript, ArchivePaths, SessionOf
<1>2. Copying(p, x)
  BY DEF Copying
<1>3. ManifestKnown(p, x) /\ CopyKnown(p, x)
  BY <1>1 DEF ManifestInv
<1>4. run[p].man[x] = manifest[x]
  BY <1>2, <1>3 DEF ManifestKnown, Carrying
<1> QED BY <1>1, <1>2, <1>3, <1>4, SessionFiles DEF CopyKnown

\* A file of another session is opened or written.
LEMMA OtherSession ==
    ASSUME TypeOK, NEW path \in ArchivePaths, NEW f, files' = [files EXCEPT ![path] = f],
           live' = live, NEW s \in Sessions, s # SessionOf(path)
    PROVE  /\ files'[CanonicalPath(s)] = files[CanonicalPath(s)]
           /\ live[s] # Absent => (ArchivedLive(s) => ArchivedLive(s)')
<1>1. \A q \in ArchivePaths : SessionOf(q) = s => files'[q] = files[q]
  BY DEF TypeOK
<1>2. files'[CanonicalPath(s)] = files[CanonicalPath(s)]
  BY <1>1, SessionFiles
<1> QED BY <1>1, <1>2, ArchivedStays

\* A copy that is opened is recorded only in the manifest in hand.
LEMMA OpenManifest ==
    ASSUME ManifestInv, PipelineTyped', OneAtATime, NEW p \in Procs, OpenCopy(p)
    PROVE  ManifestInv'
<1>1. /\ TypeOK /\ run \in [Procs -> Runs] /\ run[p] \in Runs
      /\ \A s \in Sessions : manifest'[s] \in past[s] \union {Backfill, None}
      /\ \A s \in Sessions : History(s) /\ ManifestKnown(p, s) /\ SyncKnown(p, s)
  BY DEF ManifestInv, PipelineTyped, TypeOK, History, OpenCopy
<1>2. /\ run[p].phase = "copy" /\ live' = live /\ past' = past /\ manifest' = manifest
      /\ faults' = faults
  BY DEF OpenCopy
<1>3. PICK x, path : x = SessionOf(run[p].path) /\ path = run[p].path
  OBVIOUS
<1>4. /\ x \in Sessions /\ path \in ArchivePaths /\ run[p].stat.rows \in Transcripts
      /\ x \notin run[p].todo /\ run[p].man[x] = manifest[x]
      /\ \/ path = CanonicalPath(x)
         \/ path = SidecarPath(x, run[p].stat.rows) /\ path # CanonicalPath(x)
      /\ run[p].stat.rows \in past[x]
      /\ x \in run[p].quiet => run[p].stat.rows = live[x]
      /\ path = CanonicalPath(x) /\ faults = 0 /\ live[x] # Absent => manifest[x] # live[x]
  BY <1>2, <1>3, CopyFacts
<1>5. \A s \in Sessions :
         /\ TrueManifest(run[p].man, s) /\ (faults = 0 => TrueOfFile(manifest, s))
         /\ s \in run[p].todo => run[p].man[s] = manifest[s]
         /\ run[p].man[s] \in past[s] \union {Backfill, None}
         /\ s \in run[p].quiet \ run[p].excluded /\ live[s] # Absent =>
               s \in run[p].todo \/ s = x \/ ArchivedLive(s)
  BY <1>1, <1>2, <1>3 DEF ManifestKnown, Carrying, SyncKnown, Copying
<1>6. CASE live[x] = Absent
  <2>1. run'[p] = AfterCopy(run[p], run[p].man) /\ files' = files
    BY <1>1, <1>3, <1>6 DEF OpenCopy
  <2>2. /\ run'[p].phase = "sync" /\ run'[p].todo = run[p].todo /\ run'[p].man = run[p].man
        /\ run'[p].quiet = run[p].quiet /\ run'[p].excluded = run[p].excluded
    BY <1>1, <2>1, AfterCopyFields
  <2>3. ASSUME NEW s \in Sessions
        PROVE  ManifestKnown(p, s)' /\ CopyKnown(p, s)' /\ SyncKnown(p, s)'
    <3>1. TrueManifest(run[p].man, s)' /\ (faults = 0 => TrueOfFile(manifest, s))'
      BY <1>2, <1>5, <2>1, <2>2 DEF TrueManifest, TrueOfFile
    <3>2. ManifestKnown(p, s)' /\ CopyKnown(p, s)'
      BY <1>2, <1>5, <2>2, <3>1 DEF ManifestKnown, CopyKnown, Copying, Carrying
    <3>3. ArchivedLive(s) => ArchivedLive(s)'
      BY <1>2, <2>1 DEF ArchivedLive, CutSidecar
    <3>4. SyncKnown(p, s)'
      BY <1>2, <1>5, <1>6, <2>2, <3>3 DEF SyncKnown
    <3> QED BY <3>2, <3>4
  <2> QED BY <1>1, <1>2, <2>3, ManifestStep
<1>7. CASE live[x] # Absent
  <2>1. PICK kept, t : kept = ArchivedRows(files, x) /\ t = live[x]
    OBVIOUS
  <2>2. /\ files' = [files EXCEPT ![path] = Faithful(<< >>)]
        /\ run' = [run EXCEPT ![p].phase = "write", ![p].kept = kept,
                              ![p].copying = Faithful(t)]
    BY <1>3, <1>7, <2>1 DEF OpenCopy
  <2>3. /\ run'[p].phase = "write" /\ run'[p].todo = run[p].todo /\ run'[p].man = run[p].man
        /\ run'[p].quiet = run[p].quiet /\ run'[p].excluded = run[p].excluded
        /\ run'[p].path = path /\ run'[p].stat = run[p].stat
        /\ run'[p].copying = Faithful(t)
    BY <1>1, <1>3, <2>2 DEF Runs
  <2>4. run'[p].copying.rows = t
    BY <2>3 DEF Faithful
  <2>5. ASSUME NEW s \in Sessions
        PROVE  ManifestKnown(p, s)' /\ CopyKnown(p, s)' /\ SyncKnown(p, s)'
    <3>1. Copying(p, s)' <=> s = x
      BY <1>3, <2>3 DEF Copying
    <3>2. CASE s # x
      <4>1. /\ files'[CanonicalPath(s)] = files[CanonicalPath(s)]
            /\ live[s] # Absent => (ArchivedLive(s) => ArchivedLive(s)')
        BY <1>1, <1>2, <1>3, <1>4, <2>2, <3>2, OtherSession
      <4>2. TrueManifest(run[p].man, s)' /\ (faults = 0 => TrueOfFile(manifest, s))'
        BY <1>2, <1>5, <2>3, <4>1 DEF TrueManifest, TrueOfFile
      <4>3. ManifestKnown(p, s)'
        BY <1>2, <1>5, <2>3, <3>1, <3>2, <4>2 DEF ManifestKnown, Carrying
      <4>4. CopyKnown(p, s)' /\ SyncKnown(p, s)'
        BY <1>2, <1>5, <2>3, <3>1, <3>2, <4>1 DEF CopyKnown, SyncKnown
      <4> QED BY <4>3, <4>4
    <3>3. CASE s = x
      <4>1. ASSUME path = CanonicalPath(x)
            PROVE  ManifestKnown(p, s)'
        <5>1. (faults = 0 => TrueOfFile(manifest, s))'
          BY <1>2, <1>4, <3>3, <4>1 DEF TrueOfFile
        <5> QED BY <1>2, <1>4, <1>5, <2>3, <3>3, <4>1, <5>1
                DEF ManifestKnown, Carrying
      <4>2. ASSUME path # CanonicalPath(x)
            PROVE  ManifestKnown(p, s)'
        <5>1. files'[CanonicalPath(s)] = files[CanonicalPath(s)]
          BY <1>1, <1>4, <2>2, <3>3, <4>2, SessionFiles DEF TypeOK
        <5>2. TrueManifest(run[p].man, s)' /\ (faults = 0 => TrueOfFile(manifest, s))'
          BY <1>2, <1>5, <2>3, <5>1 DEF TrueManifest, TrueOfFile
        <5> QED BY <1>2, <1>4, <1>5, <2>3, <3>3, <4>2, <5>2
                DEF ManifestKnown, Carrying
      <4>3. CopyKnown(p, s)'
        BY <1>2, <1>4, <2>1, <2>3, <2>4, <3>3 DEF CopyKnown
      <4>4. SyncKnown(p, s)'
        BY <3>1, <3>3 DEF SyncKnown
      <4> QED BY <4>1, <4>2, <4>3, <4>4
    <3> QED BY <3>2, <3>3
  <2> QED BY <1>1, <1>2, <2>5, ManifestStep
<1> QED BY <1>6, <1>7

\* A finished copy holds the transcript the manifest in hand records.
LEMMA CopyManifest ==
    ASSUME ManifestInv, PipelineTyped', OneAtATime, NEW p \in Procs, CopyTranscript(p)
    PROVE  ManifestInv'
<1>1. /\ TypeOK /\ run \in [Procs -> Runs] /\ run[p] \in Runs /\ InHand(run[p])
      /\ run[p].man \in Manifests
      /\ \A s \in Sessions : manifest'[s] \in past[s] \union {Backfill, None}
      /\ \A s \in Sessions : History(s) /\ ManifestKnown(p, s) /\ SyncKnown(p, s)
  BY DEF ManifestInv, PipelineTyped, TypeOK, History, CopyTranscript, Runs
<1>2. /\ run[p].phase = "write" /\ live' = live /\ past' = past /\ manifest' = manifest
      /\ faults' = faults
  BY DEF CopyTranscript
<1>3. PICK x, path, t, f : /\ x = SessionOf(run[p].path) /\ path = run[p].path
                           /\ t = run[p].stat.rows /\ f = run[p].copying
  OBVIOUS
<1>4. /\ x \in Sessions /\ path \in ArchivePaths /\ t \in Transcripts
      /\ x \notin run[p].todo /\ run[p].man[x] = manifest[x]
      /\ path = CanonicalPath(x) \/ (path = SidecarPath(x, t) /\ path # CanonicalPath(x))
      /\ t \in past[x]
      /\ x \in run[p].quiet => t = live[x]
      /\ path = CanonicalPath(x) /\ faults = 0 /\ live[x] # Absent => manifest[x] # live[x]
      /\ t = live[x] => f.rows = live[x]
  BY <1>2, <1>3, CopyFacts
<1>5. \A s \in Sessions :
         /\ (s = x /\ path = CanonicalPath(x)) \/ TrueManifest(run[p].man, s)
         /\ faults = 0 => TrueOfFile(manifest, s)
         /\ s \in run[p].todo => run[p].man[s] = manifest[s]
         /\ run[p].man[s] \in past[s] \union {Backfill, None}
         /\ s \in run[p].quiet \ run[p].excluded /\ live[s] # Absent =>
               s \in run[p].todo \/ s = x \/ ArchivedLive(s)
  BY <1>1, <1>2, <1>3 DEF ManifestKnown, Carrying, SyncKnown, Copying, CanonicalPath, SessionOf
<1>6. PICK man : man = Recorded(run[p].man, path, t)
  OBVIOUS
<1>7. /\ files' = [files EXCEPT ![path] = f] /\ run'[p] = AfterCopy(run[p], man)
  BY <1>1, <1>3, <1>6 DEF CopyTranscript
<1>8. /\ run'[p].phase = "sync" /\ run'[p].todo = run[p].todo /\ run'[p].man = man
      /\ run'[p].quiet = run[p].quiet /\ run'[p].excluded = run[p].excluded
  BY <1>1, <1>7, AfterCopyFields
<1>9. /\ path = CanonicalPath(x) => man[x] = t
      /\ \A s \in Sessions : s # x \/ path # CanonicalPath(x) => man[s] = run[p].man[s]
  BY <1>1, <1>3, <1>4, <1>6 DEF Recorded, Manifests
<1>10. /\ f # Absent /\ RowsOf(f) = ToSet(f.rows) /\ files'[path] = f
  BY <1>1, <1>2, <1>3, <1>4, <1>7, NamesAssumption DEF InHand, IsTranscript, RowsOf, TypeOK
<1>11. ASSUME NEW s \in Sessions
       PROVE  ManifestKnown(p, s)' /\ CopyKnown(p, s)' /\ SyncKnown(p, s)'
  <2>1. CopyKnown(p, s)'
    BY <1>8 DEF CopyKnown, Copying
  <2>2. CASE s # x
    <3>1. /\ files'[CanonicalPath(s)] = files[CanonicalPath(s)]
          /\ live[s] # Absent => (ArchivedLive(s) => ArchivedLive(s)')
      BY <1>1, <1>2, <1>3, <1>4, <1>7, <2>2, OtherSession
    <3>2. TrueManifest(run[p].man, s)' /\ (faults = 0 => TrueOfFile(manifest, s))'
      BY <1>2, <1>5, <1>8, <1>9, <2>2, <3>1 DEF TrueManifest, TrueOfFile
    <3>3. ManifestKnown(p, s)' /\ SyncKnown(p, s)'
      BY <1>2, <1>5, <1>8, <1>9, <2>2, <3>1, <3>2
      DEF ManifestKnown, Carrying, SyncKnown, Copying
    <3> QED BY <2>1, <3>3
  <2>3. CASE s = x
    <3>1. TrueManifest(run[p].man, s)' /\ (faults = 0 => TrueOfFile(manifest, s))'
      <4>1. CASE path = CanonicalPath(x)
        BY <1>2, <1>4, <1>8, <1>9, <1>10, <2>3, <4>1 DEF TrueManifest, TrueOfFile
      <4>2. CASE path # CanonicalPath(x)
        <5>1. files'[CanonicalPath(s)] = files[CanonicalPath(s)]
          BY <1>1, <1>4, <1>7, <2>3, <4>2, SessionFiles DEF TypeOK
        <5> QED BY <1>2, <1>5, <1>8, <1>9, <2>3, <4>2, <5>1 DEF TrueManifest, TrueOfFile
      <4> QED BY <4>1, <4>2
    <3>2. ManifestKnown(p, s)'
      BY <1>2, <1>4, <1>5, <1>8, <1>9, <2>3, <3>1 DEF ManifestKnown, Carrying, Copying
    <3>3. ASSUME s \in run[p].quiet
          PROVE  ArchivedLive(s)'
      <4>1. ToSet(live[s]) = RowsOf(f)
        BY <1>4, <1>10, <2>3, <3>3
      <4>2. RowsOf(files'[path]) \subseteq ArchivedRows(files', s)
        BY <1>3, <1>4, <2>3, RowArchived
      <4> QED BY <1>2, <1>10, <4>1, <4>2 DEF ArchivedLive
    <3> QED BY <1>8, <2>1, <3>2, <3>3 DEF SyncKnown
  <2> QED BY <2>2, <2>3
<1> QED BY <1>1, <1>2, <1>11, ManifestStep

\* A copy that fills the disk: with it the only fault there is, what the manifest
\* said of the file was of another version than the one now live.
LEMMA TornManifest ==
    ASSUME ManifestInv, PipelineTyped', OneAtATime, MaxFaults <= 1, NEW p \in Procs,
           TornCopy(p)
    PROVE  ManifestInv'
<1>1. /\ TypeOK /\ run \in [Procs -> Runs] /\ run[p] \in Runs /\ InHand(run[p])
      /\ run[p].man \in Manifests /\ MaxFaults \in Nat /\ faults \in Nat
      /\ \A s \in Sessions : manifest'[s] \in past[s] \union {Backfill, None}
      /\ \A s \in Sessions : History(s) /\ ManifestKnown(p, s) /\ SyncKnown(p, s)
  BY PipelineAssumption DEF ManifestInv, PipelineTyped, TypeOK, History, TornCopy, Runs
<1>2. /\ run[p].phase = "write" /\ live' = live /\ past' = past /\ manifest' = manifest
      /\ faults = 0 /\ faults' = 1
  BY <1>1 DEF TornCopy, Fails
<1>3. PICK x, path : x = SessionOf(run[p].path) /\ path = run[p].path
  OBVIOUS
<1>4. /\ x \in Sessions /\ path \in ArchivePaths /\ run[p].stat.rows \in Transcripts
      /\ x \notin run[p].todo /\ run[p].man[x] = manifest[x]
      /\ \/ path = CanonicalPath(x)
         \/ path = SidecarPath(x, run[p].stat.rows) /\ path # CanonicalPath(x)
      /\ path = CanonicalPath(x) /\ live[x] # Absent => manifest[x] # live[x]
  BY <1>2, <1>3, CopyFacts
<1>5. \A s \in Sessions :
         /\ (s = x /\ path = CanonicalPath(x)) \/ TrueManifest(run[p].man, s)
         /\ s \in run[p].todo => run[p].man[s] = manifest[s]
         /\ run[p].man[s] \in past[s] \union {Backfill, None}
         /\ s \in run[p].quiet \ run[p].excluded /\ live[s] # Absent =>
               s \in run[p].todo \/ s = x \/ ArchivedLive(s)
  BY <1>1, <1>2, <1>3 DEF ManifestKnown, Carrying, SyncKnown, Copying, CanonicalPath, SessionOf
<1>6. PICK n \in 0..(Len(run[p].copying.rows) - 1) :
         files' = [files EXCEPT ![path] = Faithful(SubSeq(run[p].copying.rows, 1, n))]
  BY <1>3 DEF TornCopy
<1>7. PICK f : f = Faithful(SubSeq(run[p].copying.rows, 1, n))
  OBVIOUS
<1>8. files' = [files EXCEPT ![path] = f]
  BY <1>6, <1>7
<1>9. PICK r : r = AfterCopy(run[p], run[p].man)
  OBVIOUS
<1>10. /\ r \in Runs /\ r.phase = "sync" /\ r.quiet = run[p].quiet
       /\ r.excluded = run[p].excluded /\ r.todo = run[p].todo /\ r.man = run[p].man
  BY <1>1, <1>9, AfterCopyFields, AfterCopyTyped
<1>11. run'[p] = [r EXCEPT !.quiet = @ \ {x}]
  BY <1>1, <1>3, <1>9 DEF TornCopy, Disturbed
<1>12. /\ run'[p].phase = "sync" /\ run'[p].todo = run[p].todo /\ run'[p].man = run[p].man
       /\ run'[p].quiet = run[p].quiet \ {x} /\ run'[p].excluded = run[p].excluded
  BY <1>10, <1>11 DEF Runs
<1>13. ASSUME NEW s \in Sessions
       PROVE  ManifestKnown(p, s)' /\ CopyKnown(p, s)' /\ SyncKnown(p, s)'
  <2>1. CopyKnown(p, s)'
    BY <1>12 DEF CopyKnown, Copying
  <2>2. TrueManifest(run[p].man, s)'
    <3>1. CASE s = x /\ path = CanonicalPath(x)
      BY <1>2, <1>4, <1>12, <3>1 DEF TrueManifest, TrueOfFile
    <3>2. CASE ~(s = x /\ path = CanonicalPath(x))
      <4>1. files'[CanonicalPath(s)] = files[CanonicalPath(s)]
        BY <1>1, <1>3, <1>4, <1>8, <3>2, SessionFiles DEF TypeOK
      <4> QED BY <1>2, <1>5, <1>12, <3>2, <4>1 DEF TrueManifest, TrueOfFile
    <3> QED BY <3>1, <3>2
  <2>3. ManifestKnown(p, s)'
    BY <1>2, <1>5, <1>12, <2>2 DEF ManifestKnown, Carrying, Copying
  <2>4. s # x => (live[s] # Absent => (ArchivedLive(s) => ArchivedLive(s)'))
    BY <1>1, <1>2, <1>3, <1>4, <1>8, OtherSession
  <2>5. SyncKnown(p, s)'
    BY <1>2, <1>5, <1>12, <2>4 DEF SyncKnown
  <2> QED BY <2>1, <2>3, <2>5
<1> QED BY <1>1, <1>2, <1>13, ManifestStep

\* Removing some files and their entries leaves the rest as it was.
LEMMA UnlinkedManifest ==
    ASSUME TypeOK, NEW man \in Manifests, NEW removed, NEW s \in Sessions,
           files' = Unlink(files, removed)
    PROVE  /\ files'[CanonicalPath(s)] \in {files[CanonicalPath(s)], Absent}
           /\ \/ Unlisted(man, removed)[s] = None
              \/ /\ Unlisted(man, removed)[s] = man[s]
                 /\ files'[CanonicalPath(s)] = files[CanonicalPath(s)]
BY SessionFiles DEF Unlink, Unlisted

\* A manifest that was true is so once the entries of removed files are dropped.
LEMMA UnlistedIsTrue ==
    ASSUME TypeOK, NEW man \in Manifests, NEW removed, NEW s \in Sessions,
           files' = Unlink(files, removed), live' = live,
           faults' = faults \/ faults' > 0, NEW new, new = Unlisted(man, removed)
    PROVE  /\ TrueManifest(man, s) => TrueManifest(new, s)'
           /\ TrueOfFile(man, s) => TrueOfFile(man, s)'
           /\ new[s] \in {man[s], None}
<1>1. /\ files'[CanonicalPath(s)] \in {files[CanonicalPath(s)], Absent}
      /\ new[s] \in {man[s], None}
      /\ new[s] = None
         \/ (new[s] = man[s] /\ files'[CanonicalPath(s)] = files[CanonicalPath(s)])
  BY UnlinkedManifest
<1>2. live[s] # Absent => live[s] # None
  BY ArchiveAssumption, LiveTranscript
<1> QED BY <1>1, <1>2 DEF TrueManifest, TrueOfFile

\* The end of a sync drops entries of excluded sessions only.
LEMMA FinishManifest ==
    ASSUME ManifestInv, PipelineTyped', OneAtATime, NEW p \in Procs, FinishSync(p)
    PROVE  ManifestInv'
<1>1. /\ TypeOK /\ run \in [Procs -> Runs] /\ run[p] \in Runs
      /\ run[p].man \in Manifests /\ run[p].excluded \in SUBSET Sessions
      /\ manifest \in Manifests
      /\ \A s \in Sessions : manifest'[s] \in past[s] \union {Backfill, None}
      /\ \A s \in Sessions : History(s) /\ ManifestKnown(p, s)
  BY DEF ManifestInv, PipelineTyped, TypeOK, History, FinishSync, Runs
<1>2. PICK removed, gone :
         /\ files' = Unlink(files, removed)
         /\ run' = [run EXCEPT ![p].phase = "save", ![p].man = Unlisted(@, removed),
                               ![p].quiet = @ \ gone]
         /\ run[p].phase = "sync" /\ run[p].todo = {}
         /\ live' = live /\ past' = past /\ manifest' = manifest
         /\ faults' = faults \/ faults' > 0
  BY <1>1, SyncEnds, FaultsTyped
<1>3. PICK man : man = Unlisted(run[p].man, removed)
  OBVIOUS
<1>4. run'[p].phase = "save" /\ run'[p].man = man /\ run'[p].todo = {}
  BY <1>1, <1>2, <1>3 DEF Runs
<1>5. ASSUME NEW s \in Sessions
      PROVE  ManifestKnown(p, s)' /\ CopyKnown(p, s)' /\ SyncKnown(p, s)'
  <2>1. /\ TrueManifest(run[p].man, s) /\ (faults = 0 => TrueOfFile(manifest, s))
        /\ run[p].man[s] \in past[s] \union {Backfill, None}
    BY <1>1, <1>2 DEF ManifestKnown, Carrying
  <2>2. PICK old, disk : old = run[p].man /\ disk = manifest
    OBVIOUS
  <2>3. TrueManifest(man, s)' /\ man[s] \in {run[p].man[s], None}
    BY <1>1, <1>2, <1>3, <2>1, <2>2, UnlistedIsTrue
  <2>4. faults' = 0 => TrueOfFile(disk, s)'
    BY <1>1, <1>2, <2>1, <2>2, UnlistedIsTrue
  <2>5. TrueManifest(run[p].man, s)' /\ (faults = 0 => TrueOfFile(manifest, s))'
    BY <1>2, <1>4, <2>2, <2>3, <2>4 DEF TrueManifest, TrueOfFile
  <2>6. ManifestKnown(p, s)'
    BY <1>2, <1>4, <2>1, <2>3, <2>5 DEF ManifestKnown, Carrying, Copying
  <2>7. CopyKnown(p, s)' /\ SyncKnown(p, s)'
    BY <1>4 DEF CopyKnown, SyncKnown, Copying
  <2> QED BY <2>6, <2>7
<1> QED BY <1>1, <1>2, <1>5, ManifestStep

\* The manifest that is saved is the one in hand.
LEMMA SavedManifest ==
    ASSUME ManifestInv, PipelineTyped', OneAtATime, NEW p \in Procs, SaveManifest(p)
    PROVE  ManifestInv'
<1>1. /\ TypeOK /\ run \in [Procs -> Runs] /\ run[p] \in Runs /\ PipelineTyped
      /\ \A s \in Sessions : History(s) /\ ManifestKnown(p, s)
  BY DEF ManifestInv, PipelineTyped, TypeOK
<1>2. /\ run[p].phase = "save" /\ live' = live /\ past' = past /\ faults' = faults
      /\ files' = files /\ manifest' = run[p].man
  BY DEF SaveManifest
<1>3. run'[p].phase \in {"idle", "open", "ingest"}
  BY <1>1, PhaseAfter
<1>4. run'[p].man = IdleRun.man
  <2>1. CASE run[p].cmd \notin IndexCommands
    <3>1. run'[p] = IdleRun
      BY <1>1, <2>1 DEF SaveManifest, Exit
    <3> QED BY <3>1
  <2>2. CASE run[p].cmd \in IndexCommands /\ run[p].root = None
    <3>1. run'[p] = SyncedRun(run[p], Canonical)
      BY <1>1, <2>2 DEF SaveManifest
    <3> QED BY <1>1, <3>1 DEF SyncedRun, Runs
  <2>3. CASE run[p].cmd \in IndexCommands /\ run[p].root # None
    <3>1. run'[p] = BeginIngest(run[p])
      BY <1>1, <2>3 DEF SaveManifest
    <3> QED BY <1>1, <3>1 DEF BeginIngest, Runs
  <2> QED BY <2>1, <2>2, <2>3
<1>5. ASSUME NEW s \in Sessions
      PROVE  ManifestKnown(p, s)' /\ CopyKnown(p, s)' /\ SyncKnown(p, s)'
  <2>1. /\ TrueManifest(run[p].man, s)
        /\ run[p].man[s] \in past[s] \union {Backfill, None}
    BY <1>1, <1>2 DEF ManifestKnown, Carrying
  <2>2. TrueManifest(manifest, s)'
    BY <1>2, <2>1 DEF TrueManifest, TrueOfFile
  <2>3. ManifestKnown(p, s)'
    BY <1>3, <1>4, <2>2 DEF ManifestKnown, Carrying, IdleRun
  <2>4. CopyKnown(p, s)' /\ SyncKnown(p, s)'
    BY <1>3 DEF CopyKnown, SyncKnown, Copying
  <2> QED BY <2>3, <2>4
<1>6. \A s \in Sessions : manifest'[s] \in past[s] \union {Backfill, None}
  BY <1>1, <1>2 DEF ManifestKnown
<1> QED BY <1>2, <1>5, <1>6, ManifestStep

\* The backfill gives a file to sessions that have none: the manifest on disk
\* records none for them either, unless a command has failed.
LEMMA BackfillManifest ==
    ASSUME ManifestInv, PipelineTyped', OneAtATime, NEW p \in Procs,
           BackfillSession(p) \/ FinishBackfill(p)
    PROVE  ManifestInv'
<1>1. /\ TypeOK /\ run \in [Procs -> Runs] /\ run[p] \in Runs /\ PipelineTyped
      /\ run[p].man \in Manifests
      /\ \A s \in Sessions : History(s) /\ ManifestKnown(p, s)
  BY DEF ManifestInv, PipelineTyped, TypeOK, Runs
<1>2. /\ run[p].phase = "backfill" /\ live' = live /\ past' = past /\ faults' = faults
      /\ manifest' = manifest
  BY DEF BackfillSession, FinishBackfill
<1>3. \A s \in Sessions :
         /\ TrueManifest(run[p].man, s) /\ (faults = 0 => TrueOfFile(manifest, s))
         /\ s \in run[p].todo => run[p].man[s] = manifest[s]
         /\ run[p].man[s] \in past[s] \union {Backfill, None}
         /\ manifest'[s] \in past[s] \union {Backfill, None}
  BY <1>1, <1>2 DEF ManifestKnown, Carrying, History
<1>4. ASSUME run'[p].phase \in {"backfill", "save"}, run'[p].man = run[p].man,
             run'[p].todo \subseteq run[p].todo, files' = files
      PROVE  ManifestInv'
  <2>1. ASSUME NEW s \in Sessions
        PROVE  ManifestKnown(p, s)' /\ CopyKnown(p, s)' /\ SyncKnown(p, s)'
    <3>1. TrueManifest(run[p].man, s)' /\ (faults = 0 => TrueOfFile(manifest, s))'
      BY <1>2, <1>3, <1>4 DEF TrueManifest, TrueOfFile
    <3>2. ManifestKnown(p, s)'
      BY <1>2, <1>3, <1>4, <3>1 DEF ManifestKnown, Carrying, Copying
    <3>3. CopyKnown(p, s)' /\ SyncKnown(p, s)'
      BY <1>4 DEF CopyKnown, SyncKnown, Copying
    <3> QED BY <3>2, <3>3
  <2> QED BY <1>2, <1>3, <2>1, ManifestStep
<1>5. CASE FinishBackfill(p)
  <2>1. run'[p].phase = "save" /\ run'[p].man = run[p].man /\ run'[p].todo = run[p].todo
    BY <1>1, <1>5 DEF FinishBackfill, Runs
  <2> QED BY <1>4, <1>5, <2>1 DEF FinishBackfill
<1>6. CASE BackfillSession(p)
  <2>1. PICK x, f :
           x \in run[p].todo /\
           \/ run' = [run EXCEPT ![p].todo = @ \ {x}] /\ files' = files
           \/ /\ files[CanonicalPath(x)] = Absent
              /\ f = Lossy(SetToSeq(run[p].texts[x]))
              /\ files' = [files EXCEPT ![CanonicalPath(x)] = f]
              /\ run' = [run EXCEPT ![p].todo = @ \ {x}, ![p].man[x] = Backfill]
    BY <1>6 DEF BackfillSession
  <2>2. CASE run' = [run EXCEPT ![p].todo = @ \ {x}] /\ files' = files
    <3>1. /\ run'[p].phase = "backfill" /\ run'[p].man = run[p].man
          /\ run'[p].todo \subseteq run[p].todo
      BY <1>1, <1>2, <2>2 DEF Runs
    <3> QED BY <1>4, <2>2, <3>1
  <2>3. CASE /\ files[CanonicalPath(x)] = Absent
             /\ f = Lossy(SetToSeq(run[p].texts[x]))
             /\ files' = [files EXCEPT ![CanonicalPath(x)] = f]
             /\ run' = [run EXCEPT ![p].todo = @ \ {x}, ![p].man[x] = Backfill]
    <3>1. x \in Sessions /\ CanonicalPath(x) \in ArchivePaths
      BY <1>1, <2>1, SessionFiles DEF Runs
    <3>5. f # Absent
      <4>1. run[p].texts[x] \in SUBSET Texts /\ IsFiniteSet(run[p].texts[x])
        BY <1>1, <3>1 DEF PipelineTyped, InHand, Runs
      <4> QED BY <2>3, <4>1, LossyFile, NamesAssumption
    <3>2. /\ run'[p].phase = "backfill" /\ run'[p].man = [run[p].man EXCEPT ![x] = Backfill]
          /\ run'[p].todo = run[p].todo \ {x}
      BY <1>1, <1>2, <2>3 DEF Runs
    <3>3. run'[p].man[x] = Backfill /\ \A s \in Sessions \ {x} : run'[p].man[s] = run[p].man[s]
      BY <1>1, <3>1, <3>2 DEF Manifests
    <3>4. ASSUME NEW s \in Sessions
          PROVE  ManifestKnown(p, s)' /\ CopyKnown(p, s)' /\ SyncKnown(p, s)'
      <4>1. TrueManifest(run[p].man, s)' /\ (faults = 0 => TrueOfFile(manifest, s))'
        <5>1. CASE s = x
          <6>1. live[s] # Absent => live[s] \notin {Backfill, None}
            BY <1>1, ArchiveAssumption, LiveTranscript
          <6>2. f # Absent /\ files'[CanonicalPath(s)] = f
            BY <1>1, <2>3, <3>1, <3>5, <5>1 DEF TypeOK
          <6>3. faults = 0 => manifest[s] = None
            BY <1>3, <2>1, <2>3, <5>1 DEF TrueManifest
          <6> QED BY <1>2, <3>3, <5>1, <6>1, <6>2, <6>3 DEF TrueManifest, TrueOfFile
        <5>2. CASE s # x
          <6>1. files'[CanonicalPath(s)] = files[CanonicalPath(s)]
            BY <1>1, <2>3, <3>1, <5>2, SessionFiles DEF TypeOK
          <6> QED BY <1>2, <1>3, <3>3, <5>2, <6>1 DEF TrueManifest, TrueOfFile
        <5> QED BY <5>1, <5>2
      <4>2. ManifestKnown(p, s)'
        BY <1>2, <1>3, <3>2, <3>3, <4>1 DEF ManifestKnown, Carrying, Copying
      <4>3. CopyKnown(p, s)' /\ SyncKnown(p, s)'
        BY <3>2 DEF CopyKnown, SyncKnown, Copying
      <4> QED BY <4>2, <4>3
    <3> QED BY <1>2, <1>3, <3>4, ManifestStep
  <2> QED BY <2>1, <2>2, <2>3
<1> QED BY <1>5, <1>6

\* A prune clears the files before the manifest: entries without a copy, until it is
\* saved.
LEMMA PruneManifest ==
    ASSUME ManifestInv, PipelineTyped', OneAtATime, NEW p \in Procs, StartPrune(p)
    PROVE  ManifestInv'
<1>1. /\ TypeOK /\ run \in [Procs -> Runs] /\ \A s \in Sessions : History(s)
  BY DEF ManifestInv, PipelineTyped, TypeOK
<1>2. /\ live' = live /\ past' = past /\ manifest' = manifest
      /\ faults' = 0 => files' = Unlink(files, ArchivePaths)
  <2>1. PICK stuck : Left(stuck) /\ files' = Unlink(files, ArchivePaths \ stuck)
    BY DEF StartPrune
  <2>2. CASE stuck = {}
    BY <2>1, <2>2 DEF StartPrune
  <2>3. CASE stuck # {}
    BY <1>1, <2>1, <2>3 DEF StartPrune, Left, Fails, TypeOK
  <2> QED BY <2>2, <2>3
<1>3. run'[p].phase = "save" /\ run'[p].man = IdleRun.man /\ run'[p].todo = {}
  BY DEF StartPrune, IdleRun
<1>4. ASSUME NEW s \in Sessions
      PROVE  ManifestKnown(p, s)' /\ CopyKnown(p, s)' /\ SyncKnown(p, s)'
  <2>1. faults' = 0 => files'[CanonicalPath(s)] = Absent
    BY <1>2, SessionFiles DEF Unlink
  <2>2. run'[p].man[s] = None
    BY <1>3 DEF IdleRun
  <2>3. live'[s] # Absent => live'[s] # None
    BY <1>1, <1>2, LiveTranscript, ArchiveAssumption
  <2>4. TrueManifest(run[p].man, s)' /\ (faults = 0 => TrueOfFile(manifest, s))'
    BY <2>1, <2>2, <2>3 DEF TrueManifest, TrueOfFile
  <2> QED BY <1>3, <2>2, <2>4 DEF ManifestKnown, CopyKnown, SyncKnown, Carrying, Copying
<1>5. \A s \in Sessions : manifest'[s] \in past[s] \union {Backfill, None}
  BY <1>1, <1>2 DEF History
<1> QED BY <1>2, <1>4, <1>5, ManifestStep

\* A forget clears its session's files before its entry.
LEMMA UnlinkManifest ==
    ASSUME ManifestInv, PipelineTyped', OneAtATime, NEW p \in Procs, UnlinkSession(p)
    PROVE  ManifestInv'
<1>1. /\ TypeOK /\ run \in [Procs -> Runs] /\ manifest \in Manifests
      /\ \A s \in Sessions : History(s) /\ ManifestKnown(p, s)
      /\ run[p].phase = "unlink" /\ run[p].session \in Sessions
  BY DEF ManifestInv, PipelineTyped, TypeOK, InHand, UnlinkSession
<1>2. PICK removed, man, disk : /\ removed = FilesOf(files, run[p].session)
                                /\ man = Unlisted(manifest, removed) /\ disk = manifest
  OBVIOUS
<1>3. /\ live' = live /\ past' = past /\ faults' = faults /\ manifest' = manifest
      /\ files' = Unlink(files, removed)
  BY <1>2 DEF UnlinkSession
<1>4. PICK r : /\ \/ r = IdleRun /\ man = manifest
                  \/ r = [IdleRun EXCEPT !.phase = "save", !.cmd = "forget", !.man = man]
               /\ run' = Disturbed([run EXCEPT ![p] = r], run[p].session)
  BY <1>2 DEF UnlinkSession
<1>5. /\ r.todo = {}
      /\ \/ r.phase = "idle" /\ man = manifest /\ r.man = IdleRun.man
         \/ r.phase = "save" /\ r.man = man
  <2>1. CASE r = IdleRun /\ man = manifest
    BY <2>1 DEF IdleRun
  <2>2. CASE r = [IdleRun EXCEPT !.phase = "save", !.cmd = "forget", !.man = man]
    <3>1. r.todo = {} /\ r.phase = "save" /\ r.man = man
      BY <2>2 DEF IdleRun
    <3> QED BY <3>1
  <2> QED BY <1>4, <2>1, <2>2
<1>6. run'[p] = [r EXCEPT !.quiet = @ \ {run[p].session}]
  BY <1>1, <1>4 DEF Disturbed
<1>7. run'[p].phase = r.phase /\ run'[p].man = r.man /\ run'[p].todo = r.todo
  BY <1>4, <1>6 DEF IdleRun
<1>8. ASSUME NEW s \in Sessions
      PROVE  ManifestKnown(p, s)' /\ CopyKnown(p, s)' /\ SyncKnown(p, s)'
  <2>1. TrueManifest(disk, s) /\ disk[s] \in past[s] \union {Backfill, None}
    BY <1>1, <1>2 DEF ManifestKnown, History, Carrying
  <2>2. /\ TrueManifest(man, s)' /\ TrueOfFile(disk, s)' /\ man[s] \in {disk[s], None}
    BY <1>1, <1>2, <1>3, <2>1, UnlistedIsTrue DEF TrueManifest
  <2>3. CASE r.phase = "idle" /\ man = manifest /\ r.man = IdleRun.man
    <3>1. TrueManifest(manifest, s)'
      BY <1>3, <2>2, <2>3 DEF TrueManifest, TrueOfFile
    <3> QED BY <1>7, <2>3, <3>1
            DEF ManifestKnown, CopyKnown, SyncKnown, Carrying, Copying, IdleRun
  <2>4. CASE r.phase = "save" /\ r.man = man
    <3>1. TrueManifest(run[p].man, s)'
      BY <1>7, <2>2, <2>4 DEF TrueManifest, TrueOfFile
    <3>2. TrueOfFile(manifest, s)'
      BY <1>2, <1>3, <2>2 DEF TrueOfFile
    <3> QED BY <1>3, <1>5, <1>7, <2>1, <2>2, <2>4, <3>1, <3>2
            DEF ManifestKnown, CopyKnown, SyncKnown, Carrying, Copying
  <2> QED BY <1>5, <2>3, <2>4
<1>9. \A s \in Sessions : manifest'[s] \in past[s] \union {Backfill, None}
  BY <1>1, <1>3 DEF History
<1> QED BY <1>3, <1>8, <1>9, ManifestStep

\* A forget that cannot remove a file leaves the canonical one and its entry.
LEMMA StuckManifest ==
    ASSUME ManifestInv, PipelineTyped', OneAtATime, NEW p \in Procs, StuckForget(p)
    PROVE  ManifestInv'
<1>1. /\ TypeOK /\ run \in [Procs -> Runs] /\ \A s \in Sessions : History(s) /\ ManifestKnown(p, s)
      /\ run[p].phase = "unlink"
  BY DEF ManifestInv, PipelineTyped, TypeOK, StuckForget
<1>2. /\ live' = live /\ past' = past /\ manifest' = manifest
      /\ run' = Disturbed([run EXCEPT ![p] = IdleRun], run[p].session)
  BY DEF StuckForget
<1>3. faults' > 0
  BY <1>1 DEF StuckForget, Fails, TypeOK
<1>4. run'[p].phase = "idle" /\ run'[p].man = IdleRun.man /\ run'[p].todo = {}
  <2>1. run'[p] = [IdleRun EXCEPT !.quiet = @ \ {run[p].session}]
    BY <1>1, <1>2 DEF Disturbed
  <2> QED BY <2>1 DEF IdleRun
<1>5. ASSUME NEW s \in Sessions
      PROVE  ManifestKnown(p, s)' /\ CopyKnown(p, s)' /\ SyncKnown(p, s)'
  <2>1. PICK removed : /\ removed \subseteq FilesOf(files, run[p].session)
                                             \ {CanonicalPath(run[p].session)}
                       /\ files' = Unlink(files, removed)
    BY DEF StuckForget
  <2>2. CanonicalPath(s) \notin removed
    BY <2>1 DEF FilesOf, SessionOf, CanonicalPath
  <2>3. files'[CanonicalPath(s)] = files[CanonicalPath(s)]
    BY <2>1, <2>2, SessionFiles DEF Unlink
  <2>4. TrueManifest(manifest, s)'
    BY <1>1, <1>2, <1>3, <2>3 DEF ManifestKnown, Carrying, TrueManifest, TrueOfFile
  <2>5. run'[p].man[s] = None
    BY <1>4 DEF IdleRun
  <2> QED BY <1>3, <1>4, <2>4, <2>5
          DEF ManifestKnown, CopyKnown, SyncKnown, Carrying, Copying
<1>6. \A s \in Sessions : manifest'[s] \in past[s] \union {Backfill, None}
  BY <1>1, <1>2 DEF History
<1> QED BY <1>2, <1>5, <1>6, ManifestStep

\* What happens outside brings no version back that a manifest may record.
LEMMA OutsideManifest ==
    ASSUME ManifestInv, PipelineTyped', Outside
    PROVE  ManifestInv'
<1>1. /\ TypeOK /\ PipelineTyped /\ run \in [Procs -> Runs]
      /\ live \in [Sessions -> Transcripts \union {Absent}]
      /\ past \in [Sessions -> SUBSET (Transcripts \union {Absent})]
      /\ {Backfill, Absent, None} \cap Transcripts = {}
  BY ArchiveAssumption DEF ManifestInv, PipelineTyped, TypeOK
<1>2. /\ files' = files /\ manifest' = manifest /\ faults' = faults
  BY <1>1, OutsideKeeps
<1>3. PICK x \in Sessions :
         /\ \A q \in Procs : run'[q] = [run[q] EXCEPT !.quiet = @ \ {x}]
         /\ \/ live' = live /\ past' = past
            \/ past' = past /\ live' = [live EXCEPT ![x] = Absent]
            \/ \E t \in Transcripts :
                 /\ t \notin past[x] /\ live' = [live EXCEPT ![x] = t]
                 /\ past' = [past EXCEPT ![x] = @ \union {t}]
  BY <1>1 DEF Outside, WriteTranscript, RotateTranscript, ChangeExclude, Disturb, Disturbed
<1>4. \A s \in Sessions : /\ past[s] \subseteq past'[s]
                          /\ s # x => live'[s] = live[s] /\ past'[s] = past[s]
                          /\ \/ live'[s] = live[s]
                             \/ live'[s] = Absent
                             \/ live'[s] \in past'[s] \ (past[s] \union {Backfill, None})
  BY <1>1, <1>3
<1>5. ASSUME NEW s \in Sessions
      PROVE  History(s)'
  <2>1. History(s)
    BY DEF ManifestInv
  <2> QED BY <1>2, <1>4, <2>1 DEF History
<1>6. ASSUME NEW p \in Procs, NEW s \in Sessions
      PROVE  ManifestKnown(p, s)' /\ CopyKnown(p, s)' /\ SyncKnown(p, s)'
  <2>1. run[p] \in Runs
    BY <1>1
  <2>2. /\ run'[p].phase = run[p].phase /\ run'[p].path = run[p].path
        /\ run'[p].man = run[p].man /\ run'[p].todo = run[p].todo
        /\ run'[p].stat = run[p].stat /\ run'[p].copying = run[p].copying
        /\ run'[p].excluded = run[p].excluded /\ run'[p].quiet = run[p].quiet \ {x}
    BY <1>3, <2>1 DEF Runs
  <2>3. ManifestKnown(p, s) /\ CopyKnown(p, s) /\ SyncKnown(p, s) /\ History(s)
    BY DEF ManifestInv
  <2>4. Copying(p, s)' <=> Copying(p, s)
    BY <2>2 DEF Copying
  <2>5. ASSUME NEW man, man[s] \in past[s] \union {Backfill, None}
        PROVE  (TrueManifest(man, s) => TrueManifest(man, s)')
               /\ (TrueOfFile(man, s) => TrueOfFile(man, s)')
    BY <1>2, <1>4, <2>5 DEF TrueManifest, TrueOfFile
  <2>6. PICK old, disk : old = run[p].man /\ disk = manifest
    OBVIOUS
  <2>7. /\ TrueManifest(run[p].man, s) => TrueManifest(run[p].man, s)'
        /\ TrueManifest(manifest, s) => TrueManifest(manifest, s)'
        /\ TrueOfFile(manifest, s) => TrueOfFile(manifest, s)'
    <3>1. old[s] \in past[s] \union {Backfill, None} /\ disk[s] \in past[s] \union {Backfill, None}
      BY <2>3, <2>6 DEF ManifestKnown, History
    <3>2. /\ TrueManifest(old, s) => TrueManifest(old, s)'
          /\ TrueManifest(disk, s) => TrueManifest(disk, s)'
          /\ TrueOfFile(disk, s) => TrueOfFile(disk, s)'
      BY <2>5, <3>1
    <3> QED BY <1>2, <2>2, <2>6, <3>2 DEF TrueManifest, TrueOfFile
  <2>8. ManifestKnown(p, s)'
    BY <1>2, <1>4, <2>2, <2>3, <2>4, <2>7 DEF ManifestKnown
  <2>9. CopyKnown(p, s)'
    <3>1. SUFFICES ASSUME Copying(p, s)
                   PROVE  CopyKnown(p, s)'
      BY <2>4 DEF CopyKnown
    <3>2. /\ s \notin run[p].todo
          /\ run[p].path \in {CanonicalPath(s), SidecarPath(s, run[p].stat.rows)}
          /\ run[p].stat.rows \in past[s]
          /\ s \in run[p].quiet => run[p].stat.rows = live[s]
          /\ run[p].path = CanonicalPath(s) /\ faults = 0 /\ live[s] # Absent =>
                manifest[s] # live[s]
          /\ run[p].phase = "write" /\ run[p].stat.rows = live[s] =>
                run[p].copying.rows = live[s]
      BY <2>3, <3>1 DEF CopyKnown
    <3>3. run[p].stat.rows \in Transcripts /\ run[p].stat.rows # Absent
      BY <1>1, <3>1 DEF Copying, PipelineTyped, InHand, IsTranscript
    <3>4. manifest[s] \in past[s] \union {Backfill, None}
      BY <2>3 DEF History
    <3>5. s \in run'[p].quiet => live'[s] = live[s] /\ s \in run[p].quiet
      BY <1>4, <2>2
    <3>6. run'[p].path = CanonicalPath(s) /\ faults' = 0 /\ live'[s] # Absent =>
             manifest'[s] # live'[s]
      BY <1>2, <1>4, <2>2, <3>2, <3>4
    <3>7. run'[p].stat.rows = live'[s] => live'[s] = live[s]
      BY <1>4, <2>2, <3>2, <3>3
    <3> QED BY <1>4, <2>2, <3>2, <3>5, <3>6, <3>7 DEF CopyKnown
  <2>10. SyncKnown(p, s)'
    <3>1. ASSUME live'[s] = live[s]
          PROVE  ArchivedLive(s) => ArchivedLive(s)'
      BY <1>2, <3>1 DEF ArchivedLive, CutSidecar
    <3> QED BY <1>4, <2>2, <2>3, <2>4, <3>1 DEF SyncKnown
  <2> QED BY <2>8, <2>9, <2>10
<1> QED BY <1>5, <1>6 DEF ManifestInv

\* Every step keeps what is known of the manifests, with one command at a time and
\* one fault.
LEMMA NextManifest ==
    ASSUME ManifestInv, OneAtATime, MaxFaults <= 1, [Next]_vars
    PROVE  ManifestInv'
<1>1. PipelineTyped /\ PipelineTyped'
  BY NextTyped DEF ManifestInv
<1>2. CASE vars' = vars
  BY <1>1, <1>2
  DEF vars, ManifestInv, History, ManifestKnown, CopyKnown, SyncKnown, TrueManifest, TrueOfFile,
      Copying, ArchivedLive, CutSidecar
<1>3. CASE Outside
  BY <1>1, <1>3, OutsideManifest
<1>4. ASSUME NEW p \in Procs, Start(p) \/ Step(p) \/ Fault(p)
      PROVE  ManifestInv'
  <2>1. /\ run \in [Procs -> Runs] /\ run[p] \in Runs /\ faults \in Nat
    BY <1>1 DEF PipelineTyped, TypeOK
  <2>2. live' = live /\ past' = past
    BY <1>4, CommandsReadLive
  <2>3. CASE \E cmd \in {"session-index", "no-embed", "full", "archive"} : StartSync(p, cmd)
    <3>1. /\ run[p].phase = "idle" /\ files' = files /\ manifest' = manifest
          /\ faults' = faults
      BY <2>3 DEF StartSync, Idle
    <3>2. /\ run'[p].phase = "sync" /\ run'[p].man = manifest
          /\ run'[p].todo = {s \in Sessions : live[s] # Absent}
      BY <2>1, <2>3 DEF StartSync, IdleRun
    <3> QED BY <1>1, <2>2, <3>1, <3>2, ManifestLoaded DEF Carrying
  <2>4. CASE StartBackfill(p)
    <3>1. /\ run[p].phase = "idle" /\ files' = files /\ manifest' = manifest
          /\ faults' = faults
      BY <2>4 DEF StartBackfill, Idle
    <3>2. PICK r : r = [IdleRun EXCEPT !.cmd = "from-index"]
      OBVIOUS
    <3>3. r \in Runs
      BY <2>4, <3>2, IdleRunTyped DEF Runs, StartBackfill
    <3>4. run'[p] = BeginBackfill(r)
      BY <2>1, <2>4, <3>2 DEF StartBackfill
    <3>5. run'[p].phase = "backfill" /\ run'[p].man = manifest
      BY <3>3, <3>4 DEF BeginBackfill, Runs
    <3> QED BY <1>1, <2>2, <3>1, <3>5, ManifestLoaded DEF Carrying
  <2>5. CASE OpenStore(p) /\ run' = [run EXCEPT ![p] = BeginBackfill(run[p])]
    <3>1. /\ run[p].phase = "open" /\ files' = files /\ manifest' = manifest
          /\ faults' = faults
      BY <2>5 DEF OpenStore
    <3>2. run'[p] = BeginBackfill(run[p])
      BY <2>1, <2>5
    <3>3. run'[p].phase = "backfill" /\ run'[p].man = manifest
      BY <2>1, <3>2 DEF BeginBackfill, Runs
    <3> QED BY <1>1, <2>2, <3>1, <3>3, ManifestLoaded DEF Carrying
  <2>6. CASE OpenStore(p) /\ run' = [run EXCEPT ![p] = BeginIngest(run[p])]
    <3>1. /\ run[p].phase = "open" /\ files' = files /\ manifest' = manifest
          /\ faults' = faults
      BY <2>6 DEF OpenStore
    <3>2. run'[p].phase = "ingest" /\ run'[p].man = IdleRun.man
      BY <2>1, <2>6 DEF BeginIngest, Runs
    <3> QED BY <1>1, <2>1, <2>2, <3>1, <3>2, ManifestRests DEF Carrying
  <2>7. OpenStore(p) => \/ run' = [run EXCEPT ![p] = BeginBackfill(run[p])]
                        \/ run' = [run EXCEPT ![p] = BeginIngest(run[p])]
    BY DEF OpenStore
  <2>8. CASE \E s \in Sessions : StartForget(p, s)
    <3>1. /\ run[p].phase = "idle" /\ files' = files /\ manifest' = manifest
          /\ faults' = faults
      BY <2>8 DEF StartForget, Idle
    <3>2. run'[p].man = IdleRun.man
      BY <2>1, <2>8 DEF StartForget, IdleRun
    <3>3. run'[p].phase \in {"forget", "unlink"}
      BY <1>1, <2>8, PhaseAfter
    <3> QED BY <1>1, <2>1, <2>2, <3>1, <3>2, <3>3, ManifestRests DEF Carrying
  <2>9. CASE \/ StatFile(p) \/ IngestRows(p) \/ RecordSeen(p)
             \/ CountGuard(p) \/ FetchBatch(p) \/ EmbedBatch(p) \/ ForgetMessages(p)
    <3>1. /\ run[p].phase \in {"ingest", "read", "seen", "repair", "embed", "forget"}
          /\ files' = files /\ manifest' = manifest /\ faults' \in {faults, faults + 1}
      BY <2>9 DEF StatFile, IngestRows, RecordSeen, CountGuard, FetchBatch, EmbedBatch,
                  ForgetMessages, Fails
    <3>2. run'[p].phase \notin Carrying
      BY <1>1, <2>9, PhaseAfter, Zenon DEF Carrying
    <3>3. run'[p].man \in {run[p].man, IdleRun.man}
      <4>1. CASE Exit(p)
        BY <2>1, <4>1 DEF Exit
      <4>2. CASE ~Exit(p) /\ StatFile(p)
        <5>1. PICK path \in run[p].queue :
                \/ run' = [run EXCEPT ![p].queue = @ \ {path}]
                \/ run' = [run EXCEPT ![p].queue = @ \ {path}, ![p].phase = "read",
                                      ![p].path = path, ![p].stat = FileAt(path)]
          BY <4>2 DEF StatFile
        <5> QED BY <2>1, <5>1 DEF Runs
      <4>3. CASE ~Exit(p) /\ (CountGuard(p) \/ FetchBatch(p))
        BY <2>1, <4>3 DEF CountGuard, FetchBatch, Runs
      <4>4. CASE ~Exit(p) /\ IngestRows(p)
        <5>1. run' = [run EXCEPT ![p].phase = "seen"]
          BY <4>4 DEF IngestRows
        <5> QED BY <2>1, <5>1 DEF Runs
      <4>5. CASE ~Exit(p) /\ (RecordSeen(p) \/ EmbedBatch(p) \/ ForgetMessages(p))
        BY <2>1, <4>5 DEF RecordSeen, EmbedBatch, ForgetMessages, Runs
      <4> QED BY <2>9, <4>1, <4>2, <4>3, <4>4, <4>5
    <3> QED BY <1>1, <2>1, <2>2, <3>1, <3>2, <3>3, ManifestRests DEF Carrying
  <2>10. CASE DegradeSync(p) \/ DegradeBackfill(p) \/ Kill(p)
    <3>1. /\ files' = files /\ manifest' = manifest /\ faults' = faults + 1
      BY <2>10 DEF DegradeSync, DegradeBackfill, Kill, Fails
    <3>2. run'[p].phase \notin Carrying
      BY <1>1, <2>10, PhaseAfter, Zenon DEF Carrying
    <3>3. \/ Exit(p)
          \/ run' = [run EXCEPT ![p] = SyncedRun(run[p], Live)]
          \/ run' = [run EXCEPT ![p] = BeginIngest(run[p])]
      BY <2>10 DEF DegradeSync, DegradeBackfill, Kill
    <3>4. run'[p].man = IdleRun.man
      BY <2>1, <3>3 DEF Exit, SyncedRun, BeginIngest, Runs
    <3> QED BY <1>1, <2>1, <2>2, <3>1, <3>2, <3>4, ManifestRests
  <2> QED BY <1>1, <1>4, <2>3, <2>4, <2>5, <2>6, <2>7, <2>8, <2>9, <2>10,
             ExamineManifest, OpenManifest, CopyManifest, TornManifest, FinishManifest,
             SavedManifest, BackfillManifest, PruneManifest, UnlinkManifest, StuckManifest, Zenon
          DEF Start, Step, Fault
<1> QED BY <1>2, <1>3, <1>4 DEF Next

\* At the start nothing is archived and no command runs.
LEMMA InitManifest == Init => ManifestInv
<1> SUFFICES ASSUME Init PROVE ManifestInv
  OBVIOUS
<1>1. PipelineTyped
  BY InitTyped
<1>2. ASSUME NEW s \in Sessions
      PROVE  History(s)
  BY DEF Init, History
<1>3. ASSUME NEW p \in Procs, NEW s \in Sessions
      PROVE  ManifestKnown(p, s) /\ CopyKnown(p, s) /\ SyncKnown(p, s)
  <2>1. run[p].phase = "idle" /\ run[p].man[s] = None /\ manifest[s] = None
    BY DEF Init, IdleRun
  <2>2. files[CanonicalPath(s)] = Absent
    BY SessionFiles DEF Init
  <2> QED BY <2>1, <2>2 DEF ManifestKnown, CopyKnown, SyncKnown, Copying, Carrying,
                            TrueManifest, TrueOfFile
<1> QED BY <1>1, <1>2, <1>3 DEF ManifestInv

\* A sync that ends has archived every row of every transcript that was left alone
\* meanwhile, but for a sidecar cut short (archive_directory).  One command at a time,
\* and one that fails: after a prune that died before it saved the manifest, and a copy
\* that failed, it is false.
THEOREM SyncsArchive ==
    ASSUME OneAtATime, MaxFaults <= 1
    PROVE  Spec => SyncArchivesLive
<1>1. Init => ManifestInv
  BY InitManifest
<1>2. ManifestInv /\ [Next]_vars => ManifestInv'
  BY NextManifest
<1>3. ASSUME ManifestInv, NEW p \in Procs, FinishSync(p),
             NEW s \in run[p].quiet \ run[p].excluded, live[s] # Absent
      PROVE  \/ ToSet(live[s]) \subseteq ArchivedRows(files', s)
             \/ CutSidecar(s, live[s])
  <2>1. PICK stuck, removed :
           /\ removed = FilesOfExcluded(files, run[p].excluded) \ stuck
           /\ run[p].phase = "sync" /\ run[p].todo = {} /\ files' = Unlink(files, removed)
    BY <1>3, SyncEnds
  <2>2. s \in Sessions
    BY <1>3 DEF ManifestInv, PipelineTyped, TypeOK, Runs
  <2>3. ArchivedLive(s)
    BY <1>3, <2>1, <2>2 DEF ManifestInv, SyncKnown, Copying
  <2>4. ASSUME NEW q \in ArchivePaths, SessionOf(q) = s
        PROVE  RowsOf(files'[q]) = RowsOf(files[q])
    <3>1. q \notin removed
      BY <1>3, <2>1, <2>4 DEF FilesOfExcluded, FilesOf
    <3> QED BY <2>1, <3>1 DEF Unlink
  <2>5. ArchivedRows(files', s) = ArchivedRows(files, s)
    BY <2>4 DEF ArchivedRows
  <2> QED BY <2>3, <2>5 DEF ArchivedLive
<1>4. ManifestInv =>
         \A p \in Procs : FinishSync(p) =>
            \A s \in run[p].quiet \ run[p].excluded :
               live[s] # Absent =>
                  \/ ToSet(live[s]) \subseteq ArchivedRows(files', s)
                  \/ CutSidecar(s, live[s])
  BY <1>3
<1> QED BY <1>1, <1>2, <1>4, PTL DEF Spec, SyncArchivesLive

-----------------------------------------------------------------------------
(* What a run leaves searchable *)

Ingesting == {"ingest", "read", "seen", "repair", "embed"}

\* After its sync, the transcripts that nobody touched are archived.
Archived(p) ==
    run[p].phase \in AfterSync \union Ingesting /\ run[p].root # Live =>
        \A s \in run[p].quiet \ run[p].excluded : live[s] # Absent => ArchivedLive(s)

\* Of the files that ingest reads, those of untouched sessions are still to visit, in
\* hand, or indexed.
Ingested(p) ==
    run[p].phase \in Ingesting =>
        /\ \A path \in IndexedPaths :
              (path[2] = Live) = (run[p].root = Live) /\ SessionOf(path) \in run[p].quiet =>
                 \/ path \in run[p].queue
                 \/ run[p].phase = "read" /\ run[p].path = path
                 \/ TextsOf(FileAt(path)) \subseteq IndexedTexts(index, SessionOf(path))
        /\ run[p].phase \in {"repair", "embed"} => run[p].queue = {}

\* Without a forget every vector has its message, and the counts tell.
SearchInv ==
    /\ SeenInv /\ ManifestInv /\ CleanedInv /\ VectorInv
    /\ index.unpurged = {}
    /\ \A p \in Procs : Archived(p) /\ Ingested(p)

\* A step that changes no file, and gives the command no more to answer for.
LEMMA StaysArchived ==
    ASSUME NEW p \in Procs, Archived(p), run[p].phase \in AfterSync \union Ingesting,
           live' = live, files' = files, run'[p].quiet = run[p].quiet,
           run[p].quiet \ run'[p].excluded = run[p].quiet \ run[p].excluded,
           run'[p].root # Live => run[p].root # Live
    PROVE  Archived(p)'
<1>1. \A s : ArchivedLive(s) => ArchivedLive(s)'
  BY DEF ArchivedLive, CutSidecar
<1> QED BY <1>1 DEF Archived

\* ingest_directory lists every file that there is.
LEMMA BeginIngested ==
    ASSUME NEW p \in Procs, NEW r \in Runs, run'[p] = BeginIngest(r),
           live' = live, files' = files
    PROVE  Ingested(p)'
<1>1. /\ run'[p].phase = "ingest" /\ run'[p].root = r.root
      /\ run'[p].queue = {path \in IndexedPaths : (path[2] = Live) = (r.root = Live)
                                                  /\ FileAt(path) # Absent}
  BY DEF BeginIngest, Runs
<1>2. ASSUME NEW path \in IndexedPaths, (path[2] = Live) = (r.root = Live),
             path \notin run'[p].queue
      PROVE  TextsOf(FileAt(path)') = {}
  <2>1. FileAt(path) = Absent
    BY <1>1, <1>2
  <2>2. FileAt(path)' = FileAt(path)
    BY DEF FileAt
  <2> QED BY <2>1, <2>2 DEF TextsOf, RowsOf
<1> QED BY <1>1, <1>2 DEF Ingested

\* What is indexed stays so, as long as messages are only added.
LEMMA IndexedStays ==
    ASSUME NEW path, live' = live, files' = files, index.messages \subseteq index'.messages,
           TextsOf(FileAt(path)) \subseteq IndexedTexts(index, SessionOf(path))
    PROVE  (TextsOf(FileAt(path)) \subseteq IndexedTexts(index, SessionOf(path)))'
<1>1. FileAt(path)' = FileAt(path)
  BY DEF FileAt
<1>2. IndexedTexts(index, SessionOf(path)) \subseteq IndexedTexts(index', SessionOf(path))
  BY DEF IndexedTexts, MessagesOf
<1> QED BY <1>1, <1>2

\* Ingest and repair go on with what is still to visit.
LEMMA IngestSearched ==
    ASSUME SearchInv, NEW p \in Procs, ~Exit(p),
           \/ StatFile(p) \/ IngestRows(p) \/ RecordSeen(p)
           \/ CountGuard(p) \/ FetchBatch(p) \/ EmbedBatch(p)
    PROVE  Archived(p)' /\ Ingested(p)'
<1>1. /\ run \in [Procs -> Runs] /\ run[p] \in Runs /\ index \in Index
      /\ SeenInv /\ Archived(p) /\ Ingested(p)
  BY DEF SearchInv, SeenInv, PipelineTyped, TypeOK
<1>2. /\ live' = live /\ files' = files /\ run[p].phase \in Ingesting
  BY DEF StatFile, IngestRows, RecordSeen, CountGuard, FetchBatch, EmbedBatch, Ingesting
<1>3. ASSUME run'[p].quiet = run[p].quiet, run'[p].excluded = run[p].excluded,
             run'[p].root = run[p].root, Ingested(p)'
      PROVE  Archived(p)' /\ Ingested(p)'
  BY <1>1, <1>2, <1>3, StaysArchived
<1>4. CASE StatFile(p)
  <2>1. run[p].phase = "ingest" /\ index' = index
    BY <1>4 DEF StatFile
  <2>2. PICK path \in run[p].queue :
             \/ /\ FileAt(path) # Absent /\ ShouldSkipFile(index, path, FileAt(path))
                /\ run' = [run EXCEPT ![p].queue = @ \ {path}]
             \/ run' = [run EXCEPT ![p].queue = @ \ {path}, ![p].phase = "read",
                                   ![p].path = path, ![p].stat = FileAt(path)]
    BY <1>4 DEF StatFile
  <2>3. /\ run'[p].quiet = run[p].quiet /\ run'[p].excluded = run[p].excluded
        /\ run'[p].root = run[p].root /\ run'[p].queue = run[p].queue \ {path}
        /\ run'[p].phase \in {"ingest", "read"} /\ path \in IndexedPaths
    BY <1>1, <2>1, <2>2 DEF Runs
  <2>4. \/ run'[p].phase = "read" /\ run'[p].path = path
        \/ TextsOf(FileAt(path)) \subseteq IndexedTexts(index, SessionOf(path))
    BY <1>1, <2>2, <2>3, SkippedIndexed DEF Runs
  <2>5. ASSUME NEW q \in IndexedPaths, (q[2] = Live) = (run'[p].root = Live),
               SessionOf(q) \in run'[p].quiet
        PROVE  \/ q \in run'[p].queue
               \/ run'[p].phase = "read" /\ run'[p].path = q
               \/ (TextsOf(FileAt(q)) \subseteq IndexedTexts(index, SessionOf(q)))'
    <3>1. q \in run[p].queue \/ TextsOf(FileAt(q)) \subseteq IndexedTexts(index, SessionOf(q))
      BY <1>1, <2>1, <2>3, <2>5 DEF Ingested, Ingesting
    <3>2. CASE TextsOf(FileAt(q)) \subseteq IndexedTexts(index, SessionOf(q))
      BY <1>2, <2>1, <3>2, IndexedStays
    <3>3. CASE q \in run[p].queue /\ q # path
      BY <2>3, <3>3
    <3> QED BY <2>4, <3>1, <3>2, <3>3
  <2>6. Ingested(p)'
    BY <2>3, <2>5 DEF Ingested
  <2> QED BY <1>3, <2>3, <2>6
<1>5. CASE IngestRows(p)
  <2>1. /\ run[p].phase = "read" /\ run' = [run EXCEPT ![p].phase = "seen"]
        /\ index' = IngestFile(index, run[p].path, FileAt(run[p].path), Embeds(p))
    BY <1>5 DEF IngestRows
  <2>2. /\ run'[p].quiet = run[p].quiet /\ run'[p].excluded = run[p].excluded
        /\ run'[p].root = run[p].root /\ run'[p].queue = run[p].queue
        /\ run'[p].phase = "seen"
    BY <1>1, <2>1 DEF Runs
  <2>3. /\ TextsOf(FileAt(run[p].path)) \subseteq IndexedTexts(index', SessionOf(run[p].path))
        /\ index.messages \subseteq index'.messages
    BY <1>1, <2>1, IngestCovers DEF Embeds
  <2>4. ASSUME NEW q \in IndexedPaths, (q[2] = Live) = (run'[p].root = Live),
               SessionOf(q) \in run'[p].quiet
        PROVE  \/ q \in run'[p].queue
               \/ (TextsOf(FileAt(q)) \subseteq IndexedTexts(index, SessionOf(q)))'
    <3>1. CASE TextsOf(FileAt(q)) \subseteq IndexedTexts(index, SessionOf(q))
      BY <1>2, <2>3, <3>1, IndexedStays
    <3>2. CASE q = run[p].path
      <4>1. FileAt(q)' = FileAt(q)
        BY <1>2 DEF FileAt
      <4> QED BY <2>3, <3>2, <4>1
    <3> QED BY <1>1, <2>1, <2>2, <2>4, <3>1, <3>2 DEF Ingested, Ingesting
  <2>5. Ingested(p)'
    BY <2>2, <2>4 DEF Ingested
  <2> QED BY <1>3, <2>2, <2>5
<1>6. CASE RecordSeen(p) \/ CountGuard(p) \/ FetchBatch(p) \/ EmbedBatch(p)
  <2>1. /\ run'[p].quiet = run[p].quiet /\ run'[p].excluded = run[p].excluded
        /\ run'[p].root = run[p].root /\ run'[p].queue = run[p].queue
        /\ run[p].phase # "read" /\ run'[p].phase \in Ingesting
        /\ run'[p].phase \in {"repair", "embed"} => run[p].queue = {}
    <3>1. CASE RecordSeen(p)
      BY <1>1, <3>1 DEF RecordSeen, Runs, Ingesting
    <3>2. CASE CountGuard(p)
      BY <1>1, <3>2 DEF CountGuard, Runs, Ingesting
    <3>3. CASE FetchBatch(p) \/ EmbedBatch(p)
      BY <1>1, <3>3 DEF FetchBatch, EmbedBatch, Runs, Ingesting, Ingested
    <3> QED BY <1>6, <3>1, <3>2, <3>3
  <2>2. index'.messages = index.messages
    BY <1>1, <1>6 DEF RecordSeen, RecordFileSeen, CountGuard, FetchBatch, EmbedBatch,
                      UpsertEmbeddings, Index
  <2>3. ASSUME NEW q \in IndexedPaths, (q[2] = Live) = (run'[p].root = Live),
               SessionOf(q) \in run'[p].quiet
        PROVE  \/ q \in run'[p].queue
               \/ (TextsOf(FileAt(q)) \subseteq IndexedTexts(index, SessionOf(q)))'
    <3>1. q \in run[p].queue \/ TextsOf(FileAt(q)) \subseteq IndexedTexts(index, SessionOf(q))
      BY <1>1, <1>2, <2>1, <2>3 DEF Ingested
    <3> QED BY <1>2, <2>1, <2>2, <3>1, IndexedStays
  <2>4. Ingested(p)'
    BY <2>1, <2>3 DEF Ingested
  <2> QED BY <1>3, <2>1, <2>4
<1> QED BY <1>4, <1>5, <1>6

\* The end of a sync, which takes nothing of a session that is in scope.
LEMMA FinishSearched ==
    ASSUME SearchInv, NEW p \in Procs, FinishSync(p)
    PROVE  Archived(p)' /\ Ingested(p)'
<1>1. /\ run \in [Procs -> Runs] /\ run[p] \in Runs /\ TypeOK /\ PipelineTyped
      /\ ManifestInv
  BY DEF SearchInv, SeenInv, PipelineTyped, TypeOK
<1>2. PICK removed, gone :
           /\ removed \subseteq FilesOfExcluded(files, run[p].excluded)
           /\ files' = Unlink(files, removed)
           /\ run' = [run EXCEPT ![p].phase = "save", ![p].man = Unlisted(@, removed),
                                 ![p].quiet = @ \ gone]
  <2>1. PICK stuck \in SUBSET FilesOfExcluded(files, run[p].excluded) : \E removed, gone :
           /\ removed = FilesOfExcluded(files, run[p].excluded) \ stuck
           /\ gone = {SessionOf(path) : path \in stuck}
           /\ files' = Unlink(files, removed)
           /\ run' = [run EXCEPT ![p].phase = "save", ![p].man = Unlisted(@, removed),
                                 ![p].quiet = @ \ gone]
           /\ run[p].phase = "sync" /\ excluded' = excluded
    BY SyncEnds
  <2>2. PICK removed, gone :
           /\ removed = FilesOfExcluded(files, run[p].excluded) \ stuck
           /\ files' = Unlink(files, removed)
           /\ run' = [run EXCEPT ![p].phase = "save", ![p].man = Unlisted(@, removed),
                                 ![p].quiet = @ \ gone]
    BY <2>1
  <2>3. removed \subseteq FilesOfExcluded(files, run[p].excluded)
    BY <2>2
  <2> QED BY <2>2, <2>3
<1>3. /\ run[p].phase = "sync" /\ run[p].todo = {} /\ live' = live
      /\ run'[p].phase = "save" /\ run'[p].quiet = run[p].quiet \ gone
      /\ run'[p].excluded = run[p].excluded
  BY <1>1, <1>2 DEF FinishSync, Runs
<1>4. ASSUME NEW s \in run[p].quiet \ run[p].excluded, live[s] # Absent
      PROVE  ArchivedLive(s)'
  <2>1. s \in Sessions
    BY <1>1, <1>4 DEF Runs
  <2>2. ArchivedLive(s)
    BY <1>1, <1>3, <1>4, <2>1 DEF ManifestInv, SyncKnown, Copying
  <2>3. ASSUME NEW q \in ArchivePaths, SessionOf(q) = s
        PROVE  files'[q] = files[q]
    <3>1. q \notin removed
      BY <1>2, <1>4, <2>3 DEF FilesOfExcluded, FilesOf
    <3> QED BY <1>2, <3>1 DEF Unlink
  <2> QED BY <1>1, <1>3, <1>4, <2>1, <2>2, <2>3, ArchivedStays
<1> QED BY <1>3, <1>4 DEF Archived, Ingested, Ingesting

\* A backfill writes only where there is no file, and so takes no row away.
LEMMA BackfillSearched ==
    ASSUME SearchInv, NEW p \in Procs, BackfillSession(p)
    PROVE  Archived(p)' /\ Ingested(p)'
<1>1. /\ run \in [Procs -> Runs] /\ run[p] \in Runs /\ TypeOK /\ PipelineTyped
      /\ Archived(p)
  BY DEF SearchInv, SeenInv, PipelineTyped, TypeOK
<1>2. PICK x \in run[p].todo :
           \/ run' = [run EXCEPT ![p].todo = @ \ {x}] /\ files' = files
           \/ /\ files[CanonicalPath(x)] = Absent
              /\ files' = [files EXCEPT ![CanonicalPath(x)] =
                              Lossy(SetToSeq(run[p].texts[x]))]
              /\ run' = [run EXCEPT ![p].todo = @ \ {x}, ![p].man[x] = Backfill]
  BY DEF BackfillSession
<1>3. /\ run[p].phase = "backfill" /\ live' = live /\ run'[p].phase = "backfill"
      /\ run'[p].quiet = run[p].quiet /\ run'[p].excluded = run[p].excluded
      /\ run'[p].root = run[p].root /\ x \in Sessions
  BY <1>1, <1>2 DEF BackfillSession, Runs
<1>4. ASSUME NEW s \in Sessions, live[s] # Absent, ArchivedLive(s)
      PROVE  ArchivedLive(s)'
  <2>1. live[s] \in Transcripts
    BY <1>1, <1>4, LiveTranscript
  <2>2. \A q \in ArchivePaths : files'[q] = files[q] \/ files[q] = Absent
    BY <1>1, <1>2 DEF TypeOK
  <2>3. files'[SidecarPath(s, live[s])] = files[SidecarPath(s, live[s])]
    BY <1>1, <1>2, <1>3, <2>1, SessionFiles, ArchiveAssumption
       DEF TypeOK, SidecarPath, CanonicalPath
  <2>4. \A q \in ArchivePaths : RowsOf(files[q]) \subseteq RowsOf(files'[q])
    BY <2>2 DEF RowsOf
  <2>5. ArchivedRows(files, s) \subseteq ArchivedRows(files', s)
    BY <2>4, RowArchived
  <2> QED BY <1>3, <1>4, <2>3, <2>5 DEF ArchivedLive, CutSidecar
<1>5. run[p].quiet \subseteq Sessions
  BY <1>1 DEF Runs
<1> QED BY <1>1, <1>3, <1>4, <1>5 DEF Archived, Ingested, AfterSync, Ingesting

\* The other steps between the sync and the ingest.
LEMMA OpenSearched ==
    ASSUME SearchInv, NEW p \in Procs, ~Exit(p),
           OpenStore(p) \/ FinishBackfill(p) \/ DegradeBackfill(p) \/ SaveManifest(p)
    PROVE  Archived(p)' /\ Ingested(p)'
<1>1. /\ run \in [Procs -> Runs] /\ run[p] \in Runs /\ Archived(p) /\ Cleaned(p)
  BY DEF SearchInv, CleanedInv, SeenInv, PipelineTyped, TypeOK
<1>2. /\ live' = live /\ files' = files /\ run[p].phase \in AfterSync /\ excluded' = excluded
  BY DEF OpenStore, FinishBackfill, DegradeBackfill, SaveManifest, AfterSync
<1>3. CASE run' = [run EXCEPT ![p] = BeginIngest(run[p])]
  <2>1. run'[p] = BeginIngest(run[p])
    BY <1>1, <1>3
  <2>2. /\ run'[p].quiet = run[p].quiet /\ run'[p].excluded = run[p].excluded
        /\ run'[p].root = run[p].root
    BY <1>1, <2>1, IngestFields
  <2> QED BY <1>1, <1>2, <2>1, <2>2, BeginIngested, StaysArchived
<1>4. CASE run' = [run EXCEPT ![p] = BeginBackfill(run[p])] /\ run[p].root # Live
  <2>1. run'[p] = BeginBackfill(run[p])
    BY <1>1, <1>4
  <2>2. /\ run'[p].phase = "backfill" /\ run'[p].quiet = run[p].quiet
        /\ run'[p].excluded = excluded
    BY <1>1, <2>1 DEF BeginBackfill, Runs
  <2>3. run[p].quiet \cap run[p].excluded = run[p].quiet \cap excluded
    BY <1>1, <1>2 DEF Cleaned, AfterSync
  <2>4. run[p].quiet \ run'[p].excluded = run[p].quiet \ run[p].excluded
    BY <2>2, <2>3
  <2> QED BY <1>1, <1>2, <1>4, <2>2, <2>4, StaysArchived DEF Ingested, Ingesting
<1>5. CASE run' = [run EXCEPT ![p] = SyncedRun(run[p], Canonical)] /\ run[p].root = None
  <2>1. run'[p] = SyncedRun(run[p], Canonical)
    BY <1>1, <1>5
  <2>2. /\ run'[p].phase = "open" /\ run'[p].quiet = run[p].quiet
        /\ run'[p].excluded = run[p].excluded
    BY <1>1, <2>1, SyncedFields
  <2> QED BY <1>1, <1>2, <1>5, <2>2, StaysArchived, ArchiveAssumption DEF Ingested, Ingesting
<1>6. CASE FinishBackfill(p)
  <2>1. /\ run'[p].phase = "save" /\ run'[p].quiet = run[p].quiet
        /\ run'[p].excluded = run[p].excluded /\ run'[p].root = run[p].root
    BY <1>1, <1>6 DEF FinishBackfill, Runs
  <2> QED BY <1>1, <1>2, <2>1, StaysArchived DEF Ingested, Ingesting
<1>7. OpenStore(p) => \/ run' = [run EXCEPT ![p] = BeginIngest(run[p])]
                      \/ run' = [run EXCEPT ![p] = BeginBackfill(run[p])] /\ run[p].root # Live
  BY DEF OpenStore
<1>8. DegradeBackfill(p) => run' = [run EXCEPT ![p] = BeginIngest(run[p])]
  BY DEF DegradeBackfill
<1>9. SaveManifest(p) =>
         \/ run' = [run EXCEPT ![p] = SyncedRun(run[p], Canonical)] /\ run[p].root = None
         \/ run' = [run EXCEPT ![p] = BeginIngest(run[p])]
  <2>1. CASE run[p].root = None
    BY <2>1 DEF SaveManifest
  <2>2. CASE run[p].root # None
    BY <2>2 DEF SaveManifest
  <2> QED BY <2>1, <2>2
<1> QED BY <1>3, <1>4, <1>5, <1>6, <1>7, <1>8, <1>9

\* A command that has not come to the end of its sync, that nobody answers for, or that
\* reads live transcripts.
LEMMA NothingSearched ==
    ASSUME NEW p \in Procs,
           \/ run'[p].phase \notin AfterSync \union Ingesting
           \/ /\ run'[p].phase \notin Ingesting
              /\ run'[p].quiet = {} \/ run'[p].root = Live
    PROVE  Archived(p)' /\ Ingested(p)'
BY DEF Archived, Ingested

\* What happens outside disturbs the session that it changes.
LEMMA OutsideSearched ==
    ASSUME SearchInv, Outside, NEW p \in Procs
    PROVE  Archived(p)' /\ Ingested(p)'
<1>1. /\ run \in [Procs -> Runs] /\ run[p] \in Runs /\ TypeOK /\ PipelineTyped
      /\ Archived(p) /\ Ingested(p)
  BY DEF SearchInv, SeenInv, PipelineTyped, TypeOK
<1>2. PICK x \in Sessions :
           /\ \A s \in Sessions \ {x} : live'[s] = live[s]
           /\ run'[p] = [run[p] EXCEPT !.quiet = @ \ {x}]
  BY <1>1 DEF Outside, WriteTranscript, RotateTranscript, ChangeExclude, Disturb, Disturbed,
              TypeOK
<1>3. files' = files /\ index' = index
  BY <1>1, OutsideKeeps
<1>4. /\ run'[p].phase = run[p].phase /\ run'[p].queue = run[p].queue
      /\ run'[p].path = run[p].path /\ run'[p].root = run[p].root
      /\ run'[p].excluded = run[p].excluded /\ run'[p].quiet = run[p].quiet \ {x}
      /\ run[p].quiet \subseteq Sessions
  BY <1>1, <1>2 DEF Runs
<1>5. ASSUME NEW s \in Sessions \ {x}, live'[s] # Absent, ArchivedLive(s)
      PROVE  ArchivedLive(s)'
  BY <1>1, <1>2, <1>3, <1>5, ArchivedStays
<1>6. Archived(p)'
  BY <1>1, <1>2, <1>4, <1>5 DEF Archived
<1>7. ASSUME NEW path \in IndexedPaths, SessionOf(path) \in run'[p].quiet
      PROVE  FileAt(path)' = FileAt(path)
  BY <1>2, <1>3, <1>4, <1>7 DEF FileAt
<1>8. Ingested(p)'
  BY <1>1, <1>3, <1>4, <1>7 DEF Ingested
<1> QED BY <1>6, <1>8

\* Only a forget leaves a vector behind its message.
LEMMA UnpurgedStays ==
    ASSUME PipelineTyped, "forget" \notin Commands, [Next]_vars
    PROVE  index'.unpurged = index.unpurged
<1>1. TypeOK /\ index \in Index /\ \A p \in Procs : InHand(run[p])
  BY DEF PipelineTyped, TypeOK
<1>2. CASE UNCHANGED vars
  BY <1>2 DEF vars
<1>3. CASE Outside
  BY <1>1, <1>3, OutsideKeeps
<1>4. ASSUME NEW p \in Procs, Start(p) \/ Step(p) \/ Fault(p)
      PROVE  index'.unpurged = index.unpurged
  <2>1. ~ForgetMessages(p)
    BY <1>1 DEF ForgetMessages, InHand
  <2>2. CASE EmbedBatch(p)
    BY <1>1, <2>2 DEF EmbedBatch, UpsertEmbeddings, Index
  <2>3. CASE IngestRows(p)
    BY <1>1, <2>3 DEF IngestRows, IngestFile, Index
  <2> QED BY <1>1, <1>4, <2>1, <2>2, <2>3, IndexIsKept
<1> QED BY <1>2, <1>3, <1>4 DEF Next

\* Every step keeps what a run has archived and indexed.
LEMMA NextSearch ==
    ASSUME SearchInv, OneAtATime, "forget" \notin Commands, MaxFaults <= 1, [Next]_vars
    PROVE  SearchInv'
<1>1. /\ SeenInv /\ ManifestInv /\ CleanedInv /\ VectorInv
      /\ index.unpurged = {}
      /\ \A p \in Procs : Archived(p) /\ Ingested(p)
  BY DEF SearchInv
<1>2. SeenInv' /\ ManifestInv' /\ CleanedInv' /\ VectorInv'
  <2>1. ForgetReadsInPeace /\ ExcludesAgree /\ [ReadUndisturbed]_vars
    BY <1>1, AloneUndisturbed DEF SeenInv
  <2> QED BY <1>1, <2>1, NextSeen, NextManifest, NextCleaned, NextVectors
<1>3. ASSUME NEW p \in Procs
      PROVE  Archived(p)' /\ Ingested(p)'
  <2>1. /\ run \in [Procs -> Runs] /\ run[p] \in Runs /\ PipelineTyped
    BY <1>1 DEF SeenInv, PipelineTyped, TypeOK
  <2>2. CASE UNCHANGED vars
    BY <1>1, <2>2 DEF vars, Archived, Ingested, ArchivedLive, CutSidecar, FileAt
  <2>3. CASE Outside
    BY <2>3, OutsideSearched
  <2>4. CASE Exit(p)
    <3>1. run'[p].phase = "idle"
      BY <2>1, <2>4 DEF Exit, IdleRun
    <3> QED BY <3>1, NothingSearched DEF AfterSync, Ingesting
  <2>5. CASE Start(p)
    <3>1. CASE \E cmd \in {"session-index", "no-embed", "full", "archive"} : StartSync(p, cmd)
      <4>1. run'[p].phase = "sync"
        BY <2>1, <3>1, PhaseAfter
      <4> QED BY <4>1, NothingSearched DEF AfterSync, Ingesting
    <3>2. CASE StartBackfill(p)
      <4>1. PICK r : r = [IdleRun EXCEPT !.cmd = "from-index"]
        OBVIOUS
      <4>2. r.quiet = {} /\ r \in Runs
        BY <3>2, <4>1, IdleRunTyped DEF IdleRun, Runs, StartBackfill
      <4>3. run'[p] = BeginBackfill(r)
        BY <2>1, <3>2, <4>1 DEF StartBackfill
      <4>4. run'[p].quiet = {} /\ run'[p].phase = "backfill"
        BY <4>2, <4>3 DEF BeginBackfill, Runs
      <4> QED BY <4>4, NothingSearched DEF Ingesting
    <3>3. CASE StartPrune(p)
      <4>1. run'[p].quiet = {} /\ run'[p].phase = "save"
        BY <2>1, <3>3 DEF StartPrune, IdleRun
      <4> QED BY <4>1, NothingSearched DEF Ingesting
    <3>4. ASSUME NEW s \in Sessions PROVE ~StartForget(p, s)
      BY DEF StartForget
    <3> QED BY <2>5, <3>1, <3>2, <3>3, <3>4 DEF Start
  <2>6. CASE ExamineTranscript(p) \/ OpenCopy(p) \/ CopyTranscript(p) \/ TornCopy(p)
    <3>1. run'[p].phase \in {"sync", "copy", "write"}
      BY <2>1, <2>6, PhaseAfter
    <3> QED BY <3>1, NothingSearched DEF AfterSync, Ingesting
  <2>7. CASE DegradeSync(p) /\ ~Exit(p)
    <3>1. run'[p] = SyncedRun(run[p], Live)
      BY <2>1, <2>7 DEF DegradeSync
    <3>2. run'[p].phase = "open" /\ run'[p].root = Live
      BY <2>1, <3>1, SyncedFields
    <3> QED BY <3>2, NothingSearched DEF Ingesting
  <2>8. ~ForgetMessages(p) /\ ~UnlinkSession(p) /\ ~StuckForget(p)
    BY <2>1 DEF ForgetMessages, UnlinkSession, StuckForget, PipelineTyped, InHand
  <2>9. CASE Step(p)
    BY <2>4, <2>6, <2>8, <2>9, FinishSearched, BackfillSearched, OpenSearched, IngestSearched
       DEF Step
  <2>10. CASE Fault(p)
    BY <2>4, <2>6, <2>7, <2>8, <2>10, OpenSearched DEF Fault, Kill
  <2> QED BY <2>2, <2>3, <2>5, <2>9, <2>10, OneActs
<1>4. index'.unpurged = {}
  BY <1>1, UnpurgedStays DEF SeenInv
<1> QED BY <1>2, <1>3, <1>4 DEF SearchInv

\* The files of a session that ingest reads hold what is live of it.
LEMMA LiveIsIndexed ==
    ASSUME SearchInv, NEW p \in Procs, run[p].phase \in Ingesting, run[p].phase # "read",
           run[p].queue = {}, NEW s \in run[p].quiet \ run[p].excluded, live[s] # Absent,
           ~CutSidecar(s, live[s])
    PROVE  ToSet(live[s]) \cap Texts \subseteq IndexedTexts(index, s)
<1>1. /\ run[p] \in Runs /\ TypeOK /\ Archived(p) /\ Ingested(p) /\ s \in Sessions
  BY DEF SearchInv, SeenInv, PipelineTyped, TypeOK, Runs
<1>2. ASSUME NEW path \in IndexedPaths, SessionOf(path) = s,
             (path[2] = Live) = (run[p].root = Live)
      PROVE  TextsOf(FileAt(path)) \subseteq IndexedTexts(index, s)
  BY <1>1, <1>2 DEF Ingested
<1>3. CASE run[p].root = Live
  <2>1. /\ LivePath(s) \in IndexedPaths /\ SessionOf(LivePath(s)) = s /\ LivePath(s)[2] = Live
    BY <1>1 DEF LivePath, IndexedPaths, SessionOf
  <2>2. FileAt(LivePath(s)) = Faithful(live[s])
    BY <2>1 DEF FileAt
  <2>3. TextsOf(Faithful(live[s])) = ToSet(live[s]) \cap Texts
    <3>1. Faithful(live[s]) \in File
      BY <1>1, LiveTranscript, ArchiveAssumption DEF Faithful, File
    <3> QED BY <3>1, NamesAssumption DEF TextsOf, RowsOf, Faithful
  <2> QED BY <1>2, <1>3, <2>1, <2>2, <2>3
<1>4. CASE run[p].root # Live
  <2>1. ToSet(live[s]) \subseteq ArchivedRows(files, s)
    BY <1>1, <1>4 DEF Archived, ArchivedLive
  <2>2. ASSUME NEW r \in ToSet(live[s]) \cap Texts
        PROVE  r \in IndexedTexts(index, s)
    <3>1. PICK path \in ArchivePaths : SessionOf(path) = s /\ r \in RowsOf(files[path])
      BY <2>1, <2>2, RowArchived
    <3>2. path \in IndexedPaths /\ path[2] # Live
      BY ArchiveAssumption DEF ArchivePaths, IndexedPaths
    <3>3. FileAt(path) = files[path]
      BY <3>2 DEF FileAt
    <3>4. r \in TextsOf(FileAt(path))
      BY <2>2, <3>1, <3>3 DEF TextsOf
    <3> QED BY <1>2, <1>4, <3>1, <3>2, <3>4
  <2> QED BY <2>2
<1> QED BY <1>3, <1>4

\* A session-index that ends has made every transcript searchable whole that was left
\* alone meanwhile, by keyword and by meaning, whatever earlier commands left behind
\* (cli_session_index.main).  One command at a time, one that fails and no forget: the
\* forget of a session that is still live makes it false, as sessions_rediscovery shows.
THEOREM RunsIndexLive ==
    ASSUME OneAtATime, "forget" \notin Commands, MaxFaults <= 1
    PROVE  Spec => RunIndexesLive
<1>1. Init => SearchInv
  <2> SUFFICES ASSUME Init PROVE SearchInv
    OBVIOUS
  <2>1. \A p \in Procs : run[p].phase = "idle"
    BY DEF Init, IdleRun
  <2>2. \A p \in Procs : Archived(p) /\ Ingested(p)
    BY <2>1 DEF Archived, Ingested, AfterSync, Ingesting
  <2>3. index.unpurged = {}
    BY DEF Init, EmptyIndex
  <2> QED BY <2>2, <2>3, InitVectors, InitSeen, InitManifest, InitCleaned DEF SearchInv
<1>2. SearchInv /\ [Next]_vars => SearchInv'
  BY NextSearch
<1>3. ASSUME SearchInv, NEW p \in Procs, CountGuard(p) \/ FetchBatch(p),
             run[p].cmd = "session-index", run'[p].phase = "idle",
             NEW s \in run[p].quiet \ run[p].excluded, live[s] # Absent,
             ~CutSidecar(s, live[s])
      PROVE  SearchableWhole(s)
  <2>1. Embeds(p) /\ VectorInv
    BY <1>3 DEF Embeds, SearchInv
  <2>2. {m.id : m \in index.messages} \subseteq index.vectors
    BY <1>3, <2>1, EmbedEnds DEF SearchInv
  <2>3. run[p].phase \in {"ingest", "repair"} /\ run[p].queue = {}
    BY <1>3 DEF CountGuard, FetchBatch, SearchInv, Ingested, Ingesting
  <2>4. ToSet(live[s]) \cap Texts \subseteq IndexedTexts(index, s)
    BY <1>3, <2>3, LiveIsIndexed DEF Ingesting
  <2> QED BY <2>2, <2>4 DEF SearchableWhole, IndexedTexts, MessagesOf
<1>4. SearchInv =>
         \A p \in Procs :
            (CountGuard(p) \/ FetchBatch(p)) /\ run[p].cmd = "session-index"
            /\ run'[p].phase = "idle" =>
               \A s \in run[p].quiet \ run[p].excluded :
                  live[s] # Absent /\ ~CutSidecar(s, live[s]) => SearchableWhole(s)
  BY <1>3
<1> QED BY <1>1, <1>2, <1>4, PTL DEF Spec, RunIndexesLive

=============================================================================
