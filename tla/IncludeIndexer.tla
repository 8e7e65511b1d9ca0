---------------------------- MODULE IncludeIndexer ----------------------------
(***************************************************************************)
(* The include scope: every session-index run converts the files of an     *)
(* included directory into synthetic transcripts, unless the directory's   *)
(* manifest is the one recorded by the last conversion.  `rekol include`   *)
(* edits the scope in the configuration file.  Runs may overlap, the       *)
(* directory is edited at any time, and a run or a command may be cut off  *)
(* anywhere (a conversion error is swallowed, which cuts it off too).      *)
(***************************************************************************)
EXTENDS Naturals, FiniteSets

CONSTANTS Paths, Groups,
          GroupOf,             \* Paths -> the session, a child directory, that it is in
          Texts,
          Converters,          \* session-index runs
          ScopeEditors,        \* `rekol include` commands
          NoMarker,
          MaxStamps,           \* bound on the distinct (mtime, size) pairs
          MaxTreeEdits, MaxScopeEdits, MaxConversions,
          MaxCuts              \* bound on the runs and commands cut off

ASSUME IncludeAssumption ==
    /\ GroupOf \in [Paths -> Groups]
    /\ IsFiniteSet(Paths)
    /\ MaxStamps \in Nat \ {0}
    /\ {MaxTreeEdits, MaxScopeEdits, MaxConversions, MaxCuts} \subseteq Nat

VARIABLES tree,         \* path -> its text and stamp; stamp 0 when it does not exist
          scope,        \* the configuration file: the keys of `rekol include`
          marker,       \* the manifest recorded in the cache
          transcripts,  \* the rows of the synthetic transcripts: path and text
          converters,   \* converter -> its progress
          editors,      \* editor -> its progress
          doubtful,     \* history: manifests that no longer stand for the transcripts
          stamps, treeEdits, scopeEdits, conversions, cuts

includeVars == <<tree, scope, marker, transcripts, converters, editors, doubtful,
                 stamps, treeEdits, scopeEdits, conversions, cuts>>

Stamps == 1..MaxStamps
Rows == [path: Paths, text: Texts]
Manifests == SUBSET (Paths \X Stamps)

\* No marker is no manifest.
ASSUME MarkerAssumption == \A manifest \in Manifests : manifest # NoMarker

NoConversion == [step |-> "idle", deny |-> {}, manifest |-> {}, before |-> NoMarker,
                 todo |-> {}, rows |-> {}, groups |-> {}, clean |-> TRUE]
NoEdit == [step |-> "idle", dirs |-> FALSE, deny |-> {}]

\* A file that is empty, or was truncated, reads as the defaults.
Defaults == [dirs |-> FALSE, deny |-> {}]

\* file_in_scope; what lies in a junk directory is no path of the model.
FileInScope(p, deny) == p \notin deny

\* _scoped_groups: the files that are there and in scope.
Scoped(deny) == {p \in Paths : tree[p].stamp # 0 /\ FileInScope(p, deny)}

\* As if the deny-list were applied to the conversion only.
ManifestOfAll(deny) == {<<p, tree[p].stamp>> : p \in Scoped({})}

\* _manifest_hash, the hash being injective for our purposes.
Manifest(deny) == {<<p, tree[p].stamp>> : p \in Scoped(deny)}

\* dir_is_current, with the configuration as it is.
DirIsCurrent == scope.dirs /\ marker = Manifest(scope.deny)

Converting(x) == converters[x].step # "idle"

\* The runs for which what they see is no longer what they saw.
Disturb(S) ==
    [x \in Converters |-> IF x \in S THEN [converters[x] EXCEPT !.clean = FALSE]
                          ELSE converters[x]]

-----------------------------------------------------------------------------

\* A file of the directory is written or removed.  Its stamp need not change: the
\* time is in whole seconds and the size may be the same.
EditTree(p) ==
    /\ treeEdits < MaxTreeEdits /\ treeEdits' = treeEdits + 1
    /\ \/ \E text \in Texts, stamp \in {stamps + 1, tree[p].stamp} \intersect Stamps :
            /\ text # tree[p].text \/ stamp # tree[p].stamp
            /\ tree' = [tree EXCEPT ![p] = [text |-> text, stamp |-> stamp]]
            /\ stamps' = IF stamp > stamps THEN stamp ELSE stamps
            /\ doubtful' = IF stamp = tree[p].stamp
                           THEN doubtful \union {m \in {marker} : m # NoMarker} ELSE doubtful
       \/ /\ tree[p].stamp # 0
          /\ tree' = [tree EXCEPT ![p].stamp = 0]
          /\ UNCHANGED <<stamps, doubtful>>
    /\ converters' = Disturb({x \in Converters : Converting(x)})
    /\ UNCHANGED <<scope, marker, transcripts, editors, scopeEdits, conversions, cuts>>

\* include add, remove, deny and allow: load_config, and the keys it will persist.
LoadScope(e) ==
    /\ editors[e].step = "idle"
    /\ scopeEdits < MaxScopeEdits /\ scopeEdits' = scopeEdits + 1
    /\ \E keys \in {[scope EXCEPT !.dirs = dirs] : dirs \in BOOLEAN}
                    \union {[scope EXCEPT !.deny = @ \union {p}] : p \in Paths}
                    \union {[scope EXCEPT !.deny = @ \ {p}] : p \in Paths} :
         editors' = [editors EXCEPT ![e] = [step |-> "open", dirs |-> keys.dirs,
                                            deny |-> keys.deny]]
    /\ UNCHANGED <<tree, scope, marker, transcripts, converters, doubtful, stamps, treeEdits,
                   conversions, cuts>>

\* persist_include_scope: write_text truncates the file ...
TruncateScope(e) ==
    /\ editors[e].step = "open"
    /\ scope' = Defaults
    /\ editors' = [editors EXCEPT ![e].step = "write"]
    /\ UNCHANGED <<tree, marker, transcripts, converters, doubtful, stamps, treeEdits,
                   scopeEdits, conversions, cuts>>

\* ... and writes it.
PersistScope(e) ==
    /\ editors[e].step = "write"
    /\ scope' = [dirs |-> editors[e].dirs, deny |-> editors[e].deny]
    /\ editors' = [editors EXCEPT ![e] = NoEdit]
    /\ UNCHANGED <<tree, marker, transcripts, converters, doubtful, stamps, treeEdits,
                   scopeEdits, conversions, cuts>>

\* main of session-index loads the configuration; nothing included, nothing done.
LoadDeny(x) ==
    /\ ~Converting(x)
    /\ conversions < MaxConversions /\ conversions' = conversions + 1
    /\ scope.dirs
    /\ converters' = [converters EXCEPT ![x] = [NoConversion EXCEPT !.step = "look",
                                                                    !.deny = scope.deny]]
    /\ UNCHANGED <<tree, scope, marker, transcripts, editors, doubtful, stamps, treeEdits,
                   scopeEdits, cuts>>

\* The manifest is compared with the marker.  Two conversions disturb each other.
CompareManifest(x) ==
    /\ converters[x].step = "look"
    /\ LET manifest == Manifest(converters[x].deny)
           others == {y \in Converters \ {x} : Converting(y)}
       IN converters' =
            IF marker = manifest THEN [converters EXCEPT ![x] = NoConversion]
            ELSE [Disturb(others) EXCEPT ![x].step = "walk", ![x].manifest = manifest,
                                         ![x].before = marker, ![x].clean = (others = {})]
    /\ UNCHANGED <<tree, scope, marker, transcripts, editors, doubtful, stamps, treeEdits,
                   scopeEdits, conversions, cuts>>

\* _convert_one_dir walks the directory again ...
WalkAgain(x) ==
    /\ converters[x].step = "walk"
    /\ converters' = [converters EXCEPT ![x].step = "read",
                                        ![x].todo = Scoped(converters[x].deny)]
    /\ UNCHANGED <<tree, scope, marker, transcripts, editors, doubtful, stamps, treeEdits,
                   scopeEdits, conversions, cuts>>

\* ... and reads each file.  One that cannot be read, or is gone, is skipped.
ReadFile(x) ==
    /\ converters[x].step = "read"
    /\ \E p \in converters[x].todo :
         \/ /\ tree[p].stamp # 0
            /\ converters' = [converters EXCEPT
                 ![x].todo = @ \ {p},
                 ![x].rows = @ \union {[path |-> p, text |-> tree[p].text]}]
         \/ converters' = [converters EXCEPT ![x].todo = @ \ {p}, ![x].clean = FALSE]
    /\ UNCHANGED <<tree, scope, marker, transcripts, editors, doubtful, stamps, treeEdits,
                   scopeEdits, conversions, cuts>>

\* write_sessions removes the prefix's directory: the old marker stands for nothing.
EmptyPrefix(x) ==
    /\ converters[x].step = "read" /\ converters[x].todo = {}
    /\ transcripts' = {}
    /\ converters' = [converters EXCEPT ![x].step = "write",
                                        ![x].groups = {GroupOf[r.path] : r \in converters[x].rows}]
    /\ doubtful' = doubtful \union {m \in {converters[x].before} : m # NoMarker}
    /\ UNCHANGED <<tree, scope, marker, editors, stamps, treeEdits, scopeEdits, conversions,
                   cuts>>

\* One .jsonl per session, which replaces the one that is there.
WriteGroup(x) ==
    /\ converters[x].step = "write"
    /\ \E g \in converters[x].groups :
         /\ transcripts' = {r \in transcripts : GroupOf[r.path] # g}
                             \union {r \in converters[x].rows : GroupOf[r.path] = g}
         /\ converters' = [converters EXCEPT ![x].groups = @ \ {g}]
    /\ UNCHANGED <<tree, scope, marker, editors, doubtful, stamps, treeEdits, scopeEdits,
                   conversions, cuts>>

\* _write_marker, at best: it may fail, which is swallowed.
WriteMarker(x) ==
    /\ converters[x].step = "write" /\ converters[x].groups = {}
    /\ \/ /\ marker' = converters[x].manifest
          /\ doubtful' = IF converters[x].clean THEN {}
                         ELSE doubtful \union {converters[x].manifest}
       \/ UNCHANGED <<marker, doubtful>>
    /\ converters' = [converters EXCEPT ![x] = NoConversion]
    /\ UNCHANGED <<tree, scope, transcripts, editors, stamps, treeEdits, scopeEdits,
                   conversions, cuts>>

\* A run or a command is cut off; the next one starts from what is on disk.
CutOff ==
    /\ cuts < MaxCuts /\ cuts' = cuts + 1
    /\ \/ \E x \in Converters : Converting(x)
            /\ converters' = [converters EXCEPT ![x] = NoConversion] /\ UNCHANGED editors
       \/ \E e \in ScopeEditors : editors[e].step # "idle"
            /\ editors' = [editors EXCEPT ![e] = NoEdit] /\ UNCHANGED converters
    /\ UNCHANGED <<tree, scope, marker, transcripts, doubtful, stamps, treeEdits, scopeEdits,
                   conversions>>

-----------------------------------------------------------------------------

IncludeInit ==
    /\ \E text \in Texts : tree = [p \in Paths |-> [text |-> text, stamp |-> 1]]
    /\ scope \in [dirs: {TRUE}, deny: SUBSET Paths]
    /\ marker = NoMarker /\ transcripts = {}
    /\ converters = [x \in Converters |-> NoConversion]
    /\ editors = [e \in ScopeEditors |-> NoEdit]
    /\ doubtful = {}
    /\ stamps = 1 /\ treeEdits = 0 /\ scopeEdits = 0 /\ conversions = 0 /\ cuts = 0

IncludeNext ==
    \/ \E p \in Paths : EditTree(p)
    \/ \E e \in ScopeEditors : LoadScope(e) \/ TruncateScope(e) \/ PersistScope(e)
    \/ \E x \in Converters :
         \/ LoadDeny(x) \/ CompareManifest(x) \/ WalkAgain(x) \/ ReadFile(x)
         \/ EmptyPrefix(x) \/ WriteGroup(x) \/ WriteMarker(x)
    \/ CutOff

IncludeSpec == IncludeInit /\ [][IncludeNext]_includeVars

-----------------------------------------------------------------------------

\* The state of the include indexer is well formed.
IncludeTypeOK ==
    /\ tree \in [Paths -> [text: Texts, stamp: {0} \union Stamps]]
    /\ scope \in [dirs: BOOLEAN, deny: SUBSET Paths]
    /\ marker \in Manifests \union {NoMarker} /\ doubtful \subseteq Manifests
    /\ transcripts \subseteq Rows
    /\ \A x \in Converters :
         /\ converters[x].step \in {"idle", "look", "walk", "read", "write"}
         /\ converters[x].todo \subseteq Paths /\ converters[x].rows \subseteq Rows
         /\ converters[x].manifest \in Manifests
    /\ \A e \in ScopeEditors : editors[e].step \in {"idle", "open", "write"}

\* A directory that dir_is_current reports as converted has transcripts of exactly
\* the files in scope, as they are: an edit, a removal or a denial, before, between
\* or after runs, makes the next run convert (include_indexer.py:111-133, 236-250).
\* Excepted are the manifests that the code trusts in spite of what happened, see
\* doubtful: an edit within one second that keeps the size, an edit, an unreadable
\* file or another conversion during a run, and a conversion cut off after it
\* removed the transcripts of the manifest that is then current again.
CurrentIsConverted ==
    (DirIsCurrent /\ marker \notin doubtful)
      => transcripts = {[path |-> p, text |-> tree[p].text] : p \in Scoped(scope.deny)}
=============================================================================
