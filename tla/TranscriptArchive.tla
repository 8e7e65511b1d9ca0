-------------------------- MODULE TranscriptArchive --------------------------
(***************************************************************************)
(* The durable transcript archive of rekol: what sessions/archive.py and   *)
(* the archive half of `rekol invalidate` do to its files and manifest.    *)
(*                                                                         *)
(* A transcript is a sequence of rows.  A file of the archive is faithful, *)
(* a copy of a transcript or the beginning of one that a torn copy left,   *)
(* or lossy, rebuilt from the session index.  The mtime and size of a      *)
(* transcript stand for its content: two versions never agree in both.     *)
(***************************************************************************)
EXTENDS Naturals, Sequences, SequencesExt

CONSTANTS Sessions,
          Transcripts,  \* what a live transcript may hold
          Texts,        \* the rows that carry text to index
          Canonical,    \* names the canonical file of a session
          Live,         \* names its live transcript
          Backfill,     \* a manifest entry of origin backfill
          Absent, None

ASSUME ArchiveAssumption ==
    /\ Texts \subseteq Nat
    /\ Transcripts \subseteq Seq(Nat) \ {<< >>}
    /\ {Canonical, Live, Backfill, Absent, None} \cap Transcripts = {}
    /\ None \notin {Canonical, Live, Backfill} /\ Canonical # Live

Faithful(rows) == [lossy |-> FALSE, rows |-> rows]

Lossy(rows) == [lossy |-> TRUE, rows |-> rows]

File == [lossy: BOOLEAN, rows: Seq(Nat)]

\* A file is named by its session and by the content it was sidelined for.
ArchivePaths == Sessions \X ({Canonical} \union Transcripts)

CanonicalPath(s) == <<s, Canonical>>

SidecarPath(s, t) == <<s, t>>

SessionOf(path) == path[1]

ASSUME NamesAssumption ==
    {Absent, None} \cap File = {} /\ None \notin ArchivePaths

\* origin=live with the mtime and size of a transcript, or origin=backfill.
Manifests == [Sessions -> Transcripts \union {Backfill, None}]

\* As it would be with the two files swapped.
SwappedArchivedIsPrefixOfLive(f, t) == f.rows = << >> \/ (~f.lossy /\ IsPrefix(t, f.rows))

\* The bytes of f are a prefix of those of transcript t.
ArchivedIsPrefixOfLive(f, t) == f.rows = << >> \/ (~f.lossy /\ IsPrefix(f.rows, t))

\* As it would be if the sidecar were not looked for on disk.
ForgetfulCopyTarget(files, man, s, t) ==
    LET f == files[CanonicalPath(s)] IN
    IF f # Absent /\ (man[s] # None \/ ~ArchivedIsPrefixOfLive(f, t)) THEN None
    ELSE CanonicalPath(s)

\* archive_file: the path transcript t of session s is copied to, or None when
\* the archive is up to date.
CopyTarget(files, man, s, t) ==
    LET f == files[CanonicalPath(s)] IN
    IF f # Absent /\ man[s] = t THEN None
    ELSE IF f = Absent \/ ArchivedIsPrefixOfLive(f, t) \/ man[s] = Backfill
    THEN CanonicalPath(s)
    ELSE IF files[SidecarPath(s, t)] # Absent THEN None
    ELSE SidecarPath(s, t)

\* As it would be if the path were recorded in place of the stat.
PathRecorded(man, path, t) ==
    IF path = CanonicalPath(SessionOf(path)) THEN [man EXCEPT ![SessionOf(path)] = path] ELSE man

\* A copy to the canonical path is recorded, a sidecar is not.
Recorded(man, path, t) ==
    IF path = CanonicalPath(SessionOf(path)) THEN [man EXCEPT ![SessionOf(path)] = t] ELSE man

\* As it would be if the sidecars were not looked at.
CanonicalFilesOf(files, s) ==
    {path \in {CanonicalPath(s)} : files[path] # Absent /\ files[path].rows # << >>}

\* The files whose rows say that they belong to session s: an empty one does not.
FilesOf(files, s) ==
    {path \in ArchivePaths :
        SessionOf(path) = s /\ files[path] # Absent /\ files[path].rows # << >>}

Unlink(files, paths) ==
    [path \in ArchivePaths |-> IF path \in paths THEN Absent ELSE files[path]]

\* What _remove_now_excluded_from_archive is to remove.
FilesOfExcluded(files, excluded) == UNION {FilesOf(files, s) : s \in excluded}

\* Only a file that was removed loses its entry.
Unlisted(man, removed) ==
    [s \in Sessions |-> IF CanonicalPath(s) \in removed THEN None ELSE man[s]]

RowsOf(f) == IF f = Absent THEN {} ELSE ToSet(f.rows)

TextsOf(f) == RowsOf(f) \cap Texts

ArchivedRows(files, s) ==
    UNION {RowsOf(files[path]) : path \in {q \in ArchivePaths : SessionOf(q) = s}}

=============================================================================
