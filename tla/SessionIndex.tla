----------------------------- MODULE SessionIndex -----------------------------
(***************************************************************************)
(* sessions.db, the index of past conversations: what sessions/store.py,   *)
(* sessions/ingest.py and the index half of `rekol invalidate` read and    *)
(* write in one transaction.                                               *)
(*                                                                         *)
(* A message is one text row of a session, with the rowid it was given and *)
(* the path it was first read from.  A vector is the rowid it belongs to:  *)
(* rowids are never reused.                                                *)
(***************************************************************************)
EXTENDS Naturals, FiniteSets, TranscriptArchive

IndexedPaths == Sessions \X ({Canonical, Live} \union Transcripts)

LivePath(s) == <<s, Live>>

Message == [id: Nat, session: Sessions, row: Texts, src: IndexedPaths]

Index == [made: BOOLEAN,                       \* the database file exists
          messages: SUBSET Message,
          vectors: SUBSET Nat,
          unpurged: SUBSET Nat,                \* history: vectors a forget had to leave
          seen: [IndexedPaths -> File \union {None}],  \* files_seen: mtime, size
          next: Nat]                           \* AUTOINCREMENT

EmptyIndex == [made |-> FALSE, messages |-> {}, vectors |-> {}, unpurged |-> {},
               seen |-> [path \in IndexedPaths |-> None], next |-> 1]

MessagesOf(d, s) == {m \in d.messages : m.session = s}

IndexedTexts(d, s) == {m.row : m \in MessagesOf(d, s)}

\* As it would be if mtime and size were not compared.
KnownShouldSkipFile(d, path, stat) == d.seen[path] # None

ShouldSkipFile(d, path, stat) == d.seen[path] = stat

\* The transaction of ingest_file: rows already indexed are dropped by their
\* uuid, new ones get a rowid and, with an embedder, a vector.
IngestFile(d, path, f, embed) ==
    LET s   == SessionOf(path)
        new == TextsOf(f) \ IndexedTexts(d, s)
        id  == [r \in new |-> d.next + Cardinality({q \in new : q < r})]
    IN [d EXCEPT
          !.messages = @ \union {[id |-> id[r], session |-> s, row |-> r, src |-> path] : r \in new},
          !.vectors = IF embed THEN @ \union {id[r] : r \in new} ELSE @,
          !.next = @ + Cardinality(new)]

RecordFileSeen(d, path, stat) == [d EXCEPT !.seen[path] = stat]

\* As it would be if any vector were taken for all of them.
AnyVectorCountsAgree(d) == d.messages = {} \/ d.vectors # {}

\* The guard of embed_missing: as many messages as vectors.
CountsAgree(d) == Cardinality(d.messages) = Cardinality(d.vectors)

FetchUnembedded(d) == {m.id : m \in d.messages} \ d.vectors

UpsertEmbeddings(d, ids) == [d EXCEPT !.vectors = @ \union ids]

\* As it would be if, like the postings, vectors were left to a trigger.
VectorLeavingDeleteSession(d, s, ids, paths) ==
    [d EXCEPT !.messages = @ \ MessagesOf(d, s),
              !.seen = [path \in IndexedPaths |-> IF path \in paths THEN None ELSE @[path]]]

\* The transaction of _delete_session_from_index: vectors by the rowids and
\* files_seen by the paths that were read before it began.
DeleteSession(d, s, ids, paths) ==
    [d EXCEPT !.vectors = @ \ ids,
              !.messages = @ \ MessagesOf(d, s),
              !.seen = [path \in IndexedPaths |-> IF path \in paths THEN None ELSE @[path]]]

\* The same when sqlite-vec does not load any more: the DELETE of the vectors
\* fails, is warned about, and the rest goes on.
UnpurgedDeleteSession(d, s, ids, paths) ==
    [DeleteSession(d, s, {}, paths) EXCEPT !.unpurged = @ \union (ids \cap d.vectors)]

=============================================================================
