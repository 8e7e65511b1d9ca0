----------------------- MODULE CuratedIndexFreshness -----------------------
(***************************************************************************)
(* What the curated index says of files that nobody touches meanwhile, for *)
(* every set of files, contents, models and processes, any number of edits *)
(* and any number of kills.                                                *)
(*                                                                         *)
(* The invariant follows a walk: what it has read of an untouched file is  *)
(* what the disk holds; what a rebuild has passed is in its own database,  *)
(* and what it has yet to visit is not; whoever writes to the store that a *)
(* rebuild has just published began after that rebuild, so that the files  *)
(* untouched since the rebuild are untouched for him too.                  *)
(***************************************************************************)
EXTENDS CuratedIndexProofs

OnWalk == {"walk", "parse", "commit"}

\* What the walk of slot p has read of an untouched file is still true.
Fresh(p) ==
    run[p].phase \in OnWalk =>
        /\ run[p].todo \cap Outside = {}
        /\ run[p].phase # "walk" =>
              /\ run[p].file \in run[p].todo
              /\ run[p].file \in run[p].quiet => run[p].hash = disk[run[p].file]
        /\ run[p].phase = "commit" /\ run[p].file \in run[p].quiet =>
              run[p].text = disk[run[p].file]
        /\ \A f \in run[p].gone \cap run[p].quiet : f \in Outside \/ disk[f] = Absent

\* A rebuild fills a database that was empty, file after file.
Filled(p) ==
    /\ run[p].phase \in {"open", "waiting"} \/ Rebuilding(p) =>
          run[p].gone = {} /\ \A f \in Files : run[p].snap[f] = None
    /\ Rebuilding(p) <=> run[p].kind \in {"rebuild", "search"} /\ run[p].phase \in OnWalk
    /\ Rebuilding(p) =>
          /\ \A f \in run[p].todo : db[run[p].tmp].rows[f] = None
          /\ \A f \in run[p].quiet \ run[p].todo : Reflects(db[run[p].tmp], f)

\* A database that was swapped in reflects the disk, and whoever works on it began
\* his walk later.
Rebuilt(p) ==
    run[p].phase = "report" /\ run[p].kind \in {"rebuild", "search"} =>
        /\ \A f \in run[p].quiet : Reflects(db[run[p].att], f)
        /\ \A q \in Procs \ {p} :
              run[q].att = run[p].att /\ run[q].phase \in OnWalk =>
                  run[p].quiet \subseteq run[q].quiet

FreshInv == IndInv /\ \A p \in Procs : Fresh(p) /\ Filled(p) /\ Rebuilt(p)

-----------------------------------------------------------------------------
(* Rows that a step keeps *)

\* init_schema touches no row.
LEMMA InitSchemaRows ==
    ASSUME NEW d, NEW s
    PROVE  InitSchema(d, s).rows = d.rows
BY DEF InitSchema

\* Tracks and Reflects read nothing of a database but its rows.
LEMMA SameReflects ==
    ASSUME NEW d, NEW e, NEW f, d.rows = e.rows, disk' = disk
    PROVE  /\ Tracks(d, f) <=> Tracks(e, f)
           /\ Reflects(d, f) <=> Reflects(e, f)
BY DEF Tracks, Reflects

\* The rows of the inodes that the other slots have open stay as they are.
Kept(p) ==
    \A q \in Procs \ {p}, i \in Inodes :
        run[q].att = i \/ run[q].tmp = i => db'[i].rows = db[i].rows

\* Closing files keeps what is still open.
LEMMA ReclaimedKeeps ==
    ASSUME IndInv, db' = Reclaimed, NEW p \in Procs,
           \A q \in Procs \ {p} : run'[q] = run[q]
    PROVE  Kept(p)
BY DEF Reclaimed, Kept, Open

\* init_schema of the live database keeps every row.
LEMMA OpeningKeeps ==
    ASSUME IndInv, NEW s, db' = [db EXCEPT ![live] = InitSchema(db[live], s)]
    PROVE  \A i \in Inodes : db'[i].rows = db[i].rows
BY InitSchemaRows DEF IndInv, TypeOK

-----------------------------------------------------------------------------
(* A step of one slot *)

\* A step of slot p keeps the invariant of the others, if it leaves the files of
\* the store alone and puts into another's store only what is true.
LEMMA OthersFresh ==
    ASSUME FreshInv, IndInv', NEW p \in Procs, disk' = disk,
           \A q \in Procs \ {p} : run'[q] = run[q],
           (Fresh(p) /\ Filled(p) /\ Rebuilt(p))',
           \A q \in Procs \ {p} : Rebuilding(q) =>
               db'[run[q].tmp].rows = db[run[q].tmp].rows,
           \A q \in Procs \ {p} :
               run[q].phase = "report" /\ run[q].kind \in {"rebuild", "search"} =>
                   \A f \in run[q].quiet : Reflects(db[run[q].att], f)',
           run'[p].phase \in OnWalk =>
               \/ run'[p].quiet = Files
               \/ /\ run[p].phase \in OnWalk /\ run'[p].att = run[p].att
                  /\ run'[p].quiet = run[p].quiet
    PROVE  FreshInv'
<1>1. ASSUME NEW q \in Procs \ {p}
      PROVE  (Fresh(q) /\ Filled(q) /\ Rebuilt(q))'
  <2>1. Fresh(q) /\ Filled(q) /\ Rebuilt(q) /\ run[q] \in Runs /\ run'[q] = run[q]
    BY DEF FreshInv, IndInv, TypeOK
  <2>2. Fresh(q)'
    BY <2>1 DEF Fresh
  <2>3. Filled(q)'
    <3>1. ASSUME Rebuilding(q), NEW f \in Files
          PROVE  /\ Reflects(db[run[q].tmp], f)' <=> Reflects(db[run[q].tmp], f)
                 /\ db'[run[q].tmp].rows[f] = db[run[q].tmp].rows[f]
      BY <2>1, <3>1 DEF Reflects, Tracks
    <3>2. run[q].todo \subseteq Files /\ run[q].quiet \subseteq Files
      BY <2>1 DEF Runs
    <3> QED BY <2>1, <3>1, <3>2 DEF Filled, Rebuilding
  <2>4. Rebuilt(q)'
    <3> SUFFICES ASSUME run[q].phase = "report", run[q].kind \in {"rebuild", "search"}
                 PROVE  /\ \A f \in run[q].quiet : Reflects(db[run[q].att], f)'
                        /\ \A r \in Procs \ {q} :
                              run'[r].att = run[q].att /\ run'[r].phase \in OnWalk =>
                                  run[q].quiet \subseteq run'[r].quiet
      BY <2>1 DEF Rebuilt
    <3>1. \A f \in run[q].quiet : Reflects(db[run[q].att], f)'
      OBVIOUS
    <3>2. ASSUME NEW r \in Procs \ {q}, run'[r].att = run[q].att, run'[r].phase \in OnWalk
          PROVE  run[q].quiet \subseteq run'[r].quiet
      <4>1. run[q].quiet \subseteq Files
        BY <2>1 DEF Runs
      <4> QED BY <2>1, <3>2, <4>1 DEF Rebuilt, FreshInv
    <3> QED BY <3>1, <3>2
  <2> QED BY <2>2, <2>3, <2>4
<1> QED BY <1>1 DEF FreshInv

\* The same for a step that keeps the rows which the others have open.
LEMMA KeptFresh ==
    ASSUME FreshInv, IndInv', NEW p \in Procs, disk' = disk, Kept(p),
           \A q \in Procs \ {p} : run'[q] = run[q],
           (Fresh(p) /\ Filled(p) /\ Rebuilt(p))',
           run'[p].phase \in OnWalk =>
               \/ run'[p].quiet = Files
               \/ /\ run[p].phase \in OnWalk /\ run'[p].att = run[p].att
                  /\ run'[p].quiet = run[p].quiet
    PROVE  FreshInv'
<1>1. ASSUME NEW q \in Procs \ {p}, Rebuilding(q)
      PROVE  db'[run[q].tmp].rows = db[run[q].tmp].rows
  <2>1. run[q].tmp \in Inodes
    BY <1>1 DEF Rebuilding, FreshInv, IndInv, TypeOK, Runs
  <2> QED BY <2>1 DEF Kept
<1>2. ASSUME NEW q \in Procs \ {p}, run[q].phase = "report",
             run[q].kind \in {"rebuild", "search"}, NEW f \in run[q].quiet
      PROVE  Reflects(db[run[q].att], f)'
  <2>1. run[q].att \in Inodes
    BY <1>2 DEF FreshInv, IndInv, InHand
  <2>2. db'[run[q].att].rows = db[run[q].att].rows
    BY <2>1 DEF Kept
  <2>3. Reflects(db[run[q].att], f)
    BY <1>2 DEF FreshInv, Rebuilt
  <2>4. run'[q] = run[q]
    OBVIOUS
  <2> QED BY <2>2, <2>3, <2>4 DEF Reflects, Tracks
<1> QED BY <1>1, <1>2, OthersFresh

\* A step after which slot p neither walks nor has just finished.
LEMMA OffWalkFresh ==
    ASSUME FreshInv, IndInv', NEW p \in Procs, NEW r \in Runs, run' = [run EXCEPT ![p] = r],
           r.phase \notin OnWalk \union {"report"}, r.tmp = None,
           r.phase \in {"open", "waiting"} =>
               r.gone = {} /\ \A f \in Files : r.snap[f] = None,
           disk' = disk, Kept(p)
    PROVE  FreshInv'
<1>1. run'[p] = r /\ \A q \in Procs \ {p} : run'[q] = run[q]
  BY DEF FreshInv, IndInv, TypeOK
<1>2. Fresh(p)' /\ Filled(p)' /\ Rebuilt(p)'
  BY <1>1 DEF Fresh, Filled, Rebuilt, Rebuilding
<1> QED BY <1>1, <1>2, KeptFresh

\* A command that ends, whichever way.
LEMMA ExitFresh ==
    ASSUME FreshInv, IndInv', NEW p \in Procs, Exit(p), db' = Reclaimed, disk' = disk
    PROVE  FreshInv'
<1>1. run' = [run EXCEPT ![p] = IdleRun] /\ \A q \in Procs \ {p} : run'[q] = run[q]
  BY DEF Exit, FreshInv, IndInv, TypeOK
<1>2. Kept(p)
  BY <1>1, ReclaimedKeeps DEF FreshInv
<1>3. IdleRun \in Runs /\ IdleRun.phase = "idle" /\ IdleRun.tmp = None
  BY IdleRunType DEF IdleRun
<1> QED BY <1>1, <1>2, <1>3, OffWalkFresh DEF OnWalk

\* The same, with the temp database of a rebuild dropped.
LEMMA AbortFresh ==
    ASSUME FreshInv, IndInv', NEW p \in Procs, Abort(p), disk' = disk
    PROVE  FreshInv'
BY ExitFresh DEF Abort

\* What a command that has just opened the index knows: nothing.
LEMMA ConnectedKnows ==
    ASSUME NEW kind, NEW m, NEW phase
    PROVE  /\ Connected(kind, m, phase).phase = phase
           /\ Connected(kind, m, phase).tmp = None
           /\ Connected(kind, m, phase).gone = {}
           /\ \A f \in Files : Connected(kind, m, phase).snap[f] = None
BY DEF Connected, IdleRun

\* The commands that open the index change no row, and walk nothing yet.
LEMMA OpenSlot ==
    ASSUME IndInv, IndInv', NEW p \in Procs,
           \/ \E m \in Models : OpenForUpdate(p, m) \/ OpenForRebuild(p, m) \/ OpenForSearch(p, m)
           \/ \E m \in Models, f \in Files \ Outside : OpenForCapture(p, m, f)
           \/ OpenForReindex(p)
    PROVE  /\ disk' = disk /\ live' = live /\ \A i \in Inodes : db'[i].rows = db[i].rows
           /\ \E r \in Runs : /\ run' = [run EXCEPT ![p] = r]
                              /\ r.phase \in {"open", "waiting", "query", "draft", "edited"}
                              /\ r.tmp = None
                              /\ r.phase \in {"open", "waiting"} =>
                                    r.gone = {} /\ \A f \in Files : r.snap[f] = None
<1>1. run \in [Procs -> Runs] /\ run' \in [Procs -> Runs]
  BY DEF IndInv, TypeOK
<1>2. disk' = disk /\ live' = live
  BY DEF OpenForUpdate, OpenForRebuild, OpenForSearch, OpenForCapture, OpenForReindex
<1>3. \A i \in Inodes : db'[i].rows = db[i].rows
  <2>1. CASE \E m \in Models : OpenForRebuild(p, m)
    BY <2>1 DEF OpenForRebuild
  <2>2. CASE \E s : db' = [db EXCEPT ![live] = InitSchema(db[live], s)]
    BY <2>2, OpeningKeeps
  <2> QED BY <2>1, <2>2
          DEF OpenForUpdate, OpenForSearch, OpenForCapture, OpenForReindex
<1>4. \E r \in Runs : /\ run' = [run EXCEPT ![p] = r]
                      /\ r.phase \in {"open", "waiting", "query", "draft", "edited"}
                      /\ r.tmp = None
                      /\ r.phase \in {"open", "waiting"} =>
                            r.gone = {} /\ \A f \in Files : r.snap[f] = None
  <2>1. CASE \E m \in Models : OpenForUpdate(p, m) \/ OpenForRebuild(p, m) \/ OpenForSearch(p, m)
    <3>1. PICK kind \in {"update", "rebuild", "search"}, m \in Models,
               phase \in {"open", "waiting", "query"} :
                 run' = [run EXCEPT ![p] = Connected(kind, m, phase)]
      BY <2>1 DEF OpenForUpdate, OpenForRebuild, OpenForSearch
    <3>2. Connected(kind, m, phase) \in Runs
      BY <1>1, <3>1
    <3> DEFINE r == Connected(kind, m, phase)
    <3>3. /\ r \in Runs /\ run' = [run EXCEPT ![p] = r] /\ r.phase = phase /\ r.tmp = None
          /\ r.gone = {} /\ \A f \in Files : r.snap[f] = None
      BY <3>1, <3>2, ConnectedKnows
    <3> HIDE DEF r
    <3> QED BY <3>3
  <2>2. CASE \E m \in Models, f \in Files \ Outside : OpenForCapture(p, m, f)
    <3>1. PICK m \in Models, f \in Files \ Outside :
             run' = [run EXCEPT ![p] = [Connected("capture", m, "draft") EXCEPT !.file = f]]
      BY <2>2 DEF OpenForCapture
    <3>2. [Connected("capture", m, "draft") EXCEPT !.file = f] \in Runs
      BY <1>1, <3>1
    <3>3. /\ [Connected("capture", m, "draft") EXCEPT !.file = f].phase = "draft"
          /\ [Connected("capture", m, "draft") EXCEPT !.file = f].tmp = None
      BY DEF Connected, IdleRun
    <3> QED BY <3>1, <3>2, <3>3
  <2>3. CASE OpenForReindex(p)
    <3> DEFINE r == [run[p] EXCEPT !.phase = "edited", !.att = live]
    <3>1. run' = [run EXCEPT ![p] = r] /\ run[p].phase = "rewritten" /\ run[p] \in Runs
      BY <1>1, <2>3 DEF OpenForReindex
    <3>2. run[p].tmp = None
      BY <3>1 DEF IndInv, LockOK, Rebuilding, Working
    <3>3. r \in Runs
      BY <1>1, <3>1
    <3>4. r.phase = "edited" /\ r.tmp = None
      BY <3>1, <3>2 DEF Runs
    <3> HIDE DEF r
    <3> QED BY <3>1, <3>3, <3>4
  <2> QED BY <2>1, <2>2, <2>3
<1> QED BY <1>2, <1>3, <1>4

\* They keep the invariant.
LEMMA OpenFresh ==
    ASSUME FreshInv, IndInv', NEW p \in Procs,
           \/ \E m \in Models : OpenForUpdate(p, m) \/ OpenForRebuild(p, m) \/ OpenForSearch(p, m)
           \/ \E m \in Models, f \in Files \ Outside : OpenForCapture(p, m, f)
           \/ OpenForReindex(p)
    PROVE  FreshInv'
<1>1. IndInv
  BY DEF FreshInv
<1> QED BY <1>1, OpenSlot, OffWalkFresh DEF Kept, OnWalk

-----------------------------------------------------------------------------
(* A memory file changes *)

\* The file is untouched for no walk any more, and nobody begins or ends one.
LEMMA TouchFresh ==
    ASSUME FreshInv, IndInv', NEW f \in Files, NEW c, NEW r \in [Procs -> Runs], Touch(f, c, r),
           \A q \in Procs : \/ r[q] = run[q]
                            \/ r[q].phase \in {"rewritten", "edited"} /\ r[q].tmp = None,
           db' = db
    PROVE  FreshInv'
<1>1. ASSUME NEW q \in Procs
      PROVE  /\ run'[q].phase = r[q].phase /\ run'[q].kind = r[q].kind /\ run'[q].att = r[q].att
             /\ run'[q].tmp = r[q].tmp /\ run'[q].todo = r[q].todo /\ run'[q].gone = r[q].gone
             /\ run'[q].snap = r[q].snap /\ run'[q].file = r[q].file /\ run'[q].hash = r[q].hash
             /\ run'[q].text = r[q].text /\ run'[q].quiet = r[q].quiet \ {f}
             /\ r[q].quiet \subseteq Files
  <2>1. r[q] \in Runs /\ run'[q] = [r[q] EXCEPT !.quiet = @ \ {f}]
    BY DEF Touch
  <2> QED BY <2>1 DEF Runs
<1>2. \A g \in Files \ {f} : disk'[g] = disk[g]
  BY DEF Touch, FreshInv, IndInv, TypeOK
<1>3. ASSUME NEW i, NEW g \in Files \ {f}
      PROVE  Reflects(db[i], g)' <=> Reflects(db[i], g)
  BY <1>2 DEF Reflects, Tracks
<1>4. ASSUME NEW q \in Procs, r[q] = run[q]
      PROVE  (Fresh(q) /\ Filled(q) /\ Rebuilt(q))'
  <2>1. Fresh(q) /\ Filled(q) /\ Rebuilt(q) /\ run[q].gone \subseteq Files
    BY DEF FreshInv, IndInv, TypeOK, Runs
  <2>2. Fresh(q)'
    BY <1>1, <1>2, <1>4, <2>1 DEF Fresh
  <2>3. Filled(q)'
    <3>1. /\ Rebuilding(q)' <=> Rebuilding(q)
          /\ run'[q].phase = run[q].phase /\ run'[q].kind = run[q].kind
          /\ run'[q].gone = run[q].gone /\ run'[q].snap = run[q].snap
      BY <1>1, <1>4 DEF Rebuilding
    <3>2. ASSUME Rebuilding(q)
          PROVE  /\ \A g \in run'[q].todo : db'[run'[q].tmp].rows[g] = None
                 /\ \A g \in run'[q].quiet \ run'[q].todo : Reflects(db[run[q].tmp], g)'
      <4>1. /\ run'[q].tmp = run[q].tmp /\ run'[q].todo = run[q].todo
            /\ run'[q].quiet = run[q].quiet \ {f}
        BY <1>1, <1>4
      <4>2. \A g \in (run[q].quiet \ {f}) \ run[q].todo : Reflects(db[run[q].tmp], g)'
        BY <1>1, <1>3, <1>4, <2>1, <3>2 DEF Filled
      <4> QED BY <2>1, <3>2, <4>1, <4>2 DEF Filled
    <3>3. /\ run[q].phase \in {"open", "waiting"} \/ Rebuilding(q) =>
                run[q].gone = {} /\ \A g \in Files : run[q].snap[g] = None
          /\ Rebuilding(q) <=> run[q].kind \in {"rebuild", "search"} /\ run[q].phase \in OnWalk
      BY <2>1 DEF Filled
    <3>4. (run[q].tmp)' = run[q].tmp
      BY <1>1, <1>4
    <3> QED BY <3>1, <3>2, <3>3, <3>4 DEF Filled
  <2>4. Rebuilt(q)'
    <3> SUFFICES ASSUME run[q].phase = "report", run[q].kind \in {"rebuild", "search"}
                 PROVE  /\ \A g \in run[q].quiet \ {f} : Reflects(db[run[q].att], g)'
                        /\ \A x \in Procs \ {q} :
                              run'[x].att = run[q].att /\ run'[x].phase \in OnWalk =>
                                  run[q].quiet \ {f} \subseteq run'[x].quiet
      BY <1>1, <1>4 DEF Rebuilt
    <3>1. \A g \in run[q].quiet \ {f} : Reflects(db[run[q].att], g)'
      BY <1>1, <1>3, <1>4, <2>1 DEF Rebuilt
    <3>2. ASSUME NEW x \in Procs \ {q}, run'[x].att = run[q].att, run'[x].phase \in OnWalk
          PROVE  run[q].quiet \ {f} \subseteq run'[x].quiet
      <4>1. r[x] = run[x]
        BY <1>1, <3>2 DEF OnWalk
      <4> QED BY <1>1, <2>1, <3>2, <4>1 DEF Rebuilt
    <3> QED BY <3>1, <3>2
  <2> QED BY <2>2, <2>3, <2>4
<1>5. ASSUME NEW q \in Procs, r[q].phase \in {"rewritten", "edited"}, r[q].tmp = None
      PROVE  (Fresh(q) /\ Filled(q) /\ Rebuilt(q))'
  BY <1>1, <1>5 DEF Fresh, Filled, Rebuilt, Rebuilding, OnWalk
<1> QED BY <1>4, <1>5 DEF FreshInv

\* Any edit of a memory file ...
LEMMA EditFresh ==
    ASSUME FreshInv, IndInv', NEW f \in Files, NEW c, Edit(f, c)
    PROVE  FreshInv'
BY TouchFresh DEF Edit, FreshInv, IndInv, TypeOK

\* ... the file that capture writes ...
LEMMA WriteCaptureFresh ==
    ASSUME FreshInv, IndInv', NEW p \in Procs, NEW c, WriteCapture(p, c)
    PROVE  FreshInv'
<1> USE ConstantsAssumption
<1> DEFINE r == [run EXCEPT ![p].phase = "edited", ![p].file = None]
<1>1. run \in [Procs -> Runs] /\ run[p] \in Runs /\ run[p].phase = "draft" /\ LockOK(p) /\ InHand(p)
  BY DEF WriteCapture, FreshInv, IndInv, TypeOK
<1>2. run[p].file \in Files /\ run[p].tmp = None
  BY <1>1 DEF LockOK, InHand, Rebuilding, Working
<1>3. r[p] = [run[p] EXCEPT !.phase = "edited", !.file = None]
  BY <1>1
<1>6. Touch(run[p].file, c, r) /\ db' = db
  BY DEF WriteCapture
<1> HIDE DEF r
<1>4. r[p] \in Runs /\ r[p].phase = "edited" /\ r[p].tmp = None
  BY <1>1, <1>2, <1>3 DEF Runs, Phases
<1>5. r \in [Procs -> Runs] /\ \A q \in Procs \ {p} : r[q] = run[q]
  BY <1>1, <1>4 DEF r
<1> QED BY <1>2, <1>4, <1>5, <1>6, TouchFresh

\* ... and the frontmatter that confirm rewrites.
LEMMA RewriteFrontmatterFresh ==
    ASSUME FreshInv, IndInv', NEW p \in Procs, NEW m \in Models, NEW f \in Files, NEW c,
           RewriteFrontmatter(p, m, f, c)
    PROVE  FreshInv'
<1> DEFINE n == [IdleRun EXCEPT !.phase = "rewritten", !.kind = "confirm", !.model = m]
           r == [run EXCEPT ![p] = n]
<1>1. run \in [Procs -> Runs] /\ "confirm" \in Kinds
  BY DEF RewriteFrontmatter, FreshInv, IndInv, TypeOK
<1>2. n.phase = "rewritten" /\ n.tmp = None
  BY DEF IdleRun
<1>3. n \in Runs
  BY <1>1, IdleRunType DEF Runs, Phases
<1>4. Touch(f, c, r) /\ db' = db
  BY DEF RewriteFrontmatter
<1> HIDE DEF n
<1>5. r[p] = n /\ r \in [Procs -> Runs] /\ \A q \in Procs \ {p} : r[q] = run[q]
  BY <1>1, <1>3
<1> HIDE DEF r
<1> QED BY <1>2, <1>4, <1>5, TouchFresh

-----------------------------------------------------------------------------
(* The walk *)

\* A walk lists what is there; every other path holds nothing, or is outside.
LEMMA ListedFiles ==
    /\ Listed \subseteq Files /\ Listed \cap Outside = {}
    /\ \A f \in Files \ Listed : f \in Outside \/ disk[f] = Absent
BY DEF Listed

\* The walk of an update begins.
LEMMA BeginUpdateFresh ==
    ASSUME FreshInv, IndInv', NEW p \in Procs, LockForUpdate(p) \/ UpdateUnlocked(p)
    PROVE  FreshInv'
<1> DEFINE rows == db[run[p].att].rows
           snap == [f \in Files |-> IF rows[f] = None THEN None ELSE rows[f].hash]
           gone == {f \in Files \ Listed : rows[f] # None}
           r == [run[p] EXCEPT !.phase = "walk", !.snap = snap, !.todo = Listed,
                               !.gone = gone, !.quiet = Files]
<1>1. /\ run \in [Procs -> Runs] /\ run[p] \in Runs /\ InHand(p) /\ LockOK(p)
      /\ disk' = disk /\ db' = db /\ run' = [run EXCEPT ![p] = r]
      /\ run[p].phase \in {"open", "edited"}
      /\ run[p].phase = "open" => run[p].kind = "update"
  BY DEF LockForUpdate, UpdateUnlocked, BeginWalk, FreshInv, IndInv, TypeOK
<1>2. run[p].tmp = None /\ run[p].kind \notin {"rebuild", "search"}
  BY <1>1 DEF LockOK, InHand, Rebuilding, Working, Locking
<1>3. gone \subseteq Files \ Listed
  OBVIOUS
<1> HIDE DEF rows, snap, gone
<1>4. /\ r.phase = "walk" /\ r.todo = Listed /\ r.gone = gone /\ r.quiet = Files
      /\ r.tmp = None /\ r.kind = run[p].kind
  BY <1>1, <1>2 DEF Runs
<1> HIDE DEF r
<1>5. run'[p] = r /\ \A q \in Procs \ {p} : run'[q] = run[q]
  BY <1>1
<1>6. Fresh(p)'
  BY <1>1, <1>3, <1>4, <1>5, ListedFiles DEF Fresh
<1>7. Filled(p)' /\ Rebuilt(p)'
  BY <1>2, <1>4, <1>5 DEF Filled, Rebuilt, Rebuilding
<1> QED BY <1>1, <1>4, <1>5, <1>6, <1>7, KeptFresh DEF Kept

\* The walk of a rebuild begins, with an empty database.
LEMMA LockForRebuildFresh ==
    ASSUME FreshInv, IndInv', NEW p \in Procs, LockForRebuild(p)
    PROVE  FreshInv'
<1> USE ConstantsAssumption
<1>1. PICK tmp \in Inodes :
         /\ ~Open(tmp)
         /\ run' = [run EXCEPT ![p] = [@ EXCEPT !.phase = "walk", !.tmp = tmp,
                                              !.todo = Listed, !.quiet = Files]]
         /\ db' = [Reclaimed EXCEPT ![tmp] = InitSchema(Blank, run[p].model)]
  BY DEF LockForRebuild
<1> DEFINE r == [run[p] EXCEPT !.phase = "walk", !.tmp = tmp, !.todo = Listed, !.quiet = Files]
<1>2. /\ run \in [Procs -> Runs] /\ run[p] \in Runs /\ InHand(p) /\ Filled(p) /\ disk' = disk
      /\ run[p].phase = "waiting" \/ (run[p].phase = "open" /\ run[p].kind = "search")
  BY DEF LockForRebuild, FreshInv, IndInv, TypeOK
<1>3. run' = [run EXCEPT ![p] = r]
  BY <1>1, <1>2
<1>4. /\ run[p].kind \in {"rebuild", "search"} /\ run[p].gone = {}
      /\ \A f \in Files : run[p].snap[f] = None
  BY <1>2 DEF InHand, Filled
<1>5. /\ r.phase = "walk" /\ r.todo = Listed /\ r.gone = {} /\ r.quiet = Files /\ r.tmp = tmp
      /\ r.kind = run[p].kind /\ r.snap = run[p].snap
  BY <1>2, <1>4 DEF Runs
<1> HIDE DEF r
<1>6. run'[p] = r /\ \A q \in Procs \ {p} : run'[q] = run[q]
  BY <1>2, <1>3
<1>7. tmp # None
  OBVIOUS
<1>8. \A i \in Inodes \ {tmp} : db'[i] = Reclaimed[i]
  BY <1>1 DEF Reclaimed
<1>9. db'[tmp].rows = [f \in Files |-> None]
  BY <1>1, InitSchemaRows DEF Reclaimed, Blank
<1>10. Kept(p)
  BY <1>1, <1>6, <1>8 DEF Kept, Reclaimed, Open
<1>11. Fresh(p)'
  BY <1>5, <1>6, ListedFiles DEF Fresh
<1>12. \A f \in Files \ Listed : Reflects(db[tmp], f)'
  BY <1>2, <1>9, ListedFiles DEF Reflects, Tracks
<1>13. Filled(p)' /\ Rebuilt(p)'
  BY <1>4, <1>5, <1>6, <1>7, <1>9, <1>12, ListedFiles DEF Filled, Rebuilt, Rebuilding, OnWalk
<1> QED BY <1>2, <1>5, <1>6, <1>10, <1>11, <1>13, KeptFresh

\* The next file of a walk is hashed: an unchanged one is passed over.
LEMMA HashFileFresh ==
    ASSUME FreshInv, IndInv', NEW p \in Procs, HashFile(p)
    PROVE  FreshInv'
<1> USE ConstantsAssumption
<1>1. /\ run[p].phase = "walk" /\ run[p] \in Runs /\ run \in [Procs -> Runs] /\ disk' = disk
      /\ Fresh(p) /\ Filled(p) /\ disk \in [Files -> Contents \union {Absent}]
  BY DEF HashFile, FreshInv, IndInv, TypeOK
<1>2. PICK f \in run[p].todo :
         \/ /\ disk[f] = Absent
            /\ Abort(p)
         \/ /\ disk[f] # Absent /\ run[p].snap[f] = disk[f]
            /\ run' = [run EXCEPT ![p].todo = @ \ {f}]
            /\ db' = db
         \/ /\ disk[f] # Absent
            /\ run' = [run EXCEPT ![p].phase = "parse", ![p].file = f, ![p].hash = disk[f]]
            /\ db' = db
  BY DEF HashFile
<1>3. f \in Files
  BY <1>1 DEF Runs
<1>4. CASE Abort(p)
  BY <1>1, <1>4, AbortFresh
<1>5. CASE /\ disk[f] # Absent /\ run[p].snap[f] = disk[f]
           /\ run' = [run EXCEPT ![p].todo = @ \ {f}] /\ db' = db
  <2> DEFINE r == [run[p] EXCEPT !.todo = @ \ {f}]
  <2>1. run'[p] = r /\ \A q \in Procs \ {p} : run'[q] = run[q]
    BY <1>1, <1>5
  <2>2. /\ r.phase = "walk" /\ r.todo = run[p].todo \ {f} /\ r.gone = run[p].gone
        /\ r.quiet = run[p].quiet /\ r.tmp = run[p].tmp /\ r.kind = run[p].kind
        /\ r.att = run[p].att
    BY <1>1 DEF Runs
  <2> HIDE DEF r
  <2>3. ~Rebuilding(p)
    BY <1>1, <1>3, <1>5 DEF Filled
  <2>4. Fresh(p)'
    BY <1>1, <2>1, <2>2 DEF Fresh, OnWalk
  <2>5. Filled(p)' /\ Rebuilt(p)'
    BY <1>1, <2>1, <2>2, <2>3 DEF Filled, Rebuilt, Rebuilding, OnWalk
  <2> QED BY <1>1, <1>5, <2>1, <2>2, <2>4, <2>5, KeptFresh DEF Kept, OnWalk
<1>6. CASE /\ disk[f] # Absent /\ db' = db
           /\ run' = [run EXCEPT ![p].phase = "parse", ![p].file = f, ![p].hash = disk[f]]
  <2> DEFINE r == [run[p] EXCEPT !.phase = "parse", !.file = f, !.hash = disk[f]]
  <2>1. run'[p] = r /\ \A q \in Procs \ {p} : run'[q] = run[q]
    BY <1>1, <1>6
  <2>2. /\ r.phase = "parse" /\ r.todo = run[p].todo /\ r.gone = run[p].gone
        /\ r.quiet = run[p].quiet /\ r.tmp = run[p].tmp /\ r.kind = run[p].kind
        /\ r.att = run[p].att /\ r.snap = run[p].snap /\ r.file = f /\ r.hash = disk[f]
    BY <1>1 DEF Runs
  <2> HIDE DEF r
  <2>3. Fresh(p)'
    BY <1>1, <2>1, <2>2 DEF Fresh, OnWalk
  <2>4. Filled(p)'
    BY <1>1, <1>6, <2>1, <2>2 DEF Filled, Rebuilding, OnWalk, Reflects, Tracks
  <2>5. Rebuilt(p)'
    BY <2>1, <2>2 DEF Rebuilt
  <2> QED BY <1>1, <1>6, <2>1, <2>2, <2>3, <2>4, <2>5, KeptFresh DEF Kept, OnWalk
<1> QED BY <1>2, <1>4, <1>5, <1>6

\* A walk writes the entry of one file, and what it writes of an untouched one is
\* true: a rebuild that has published this store began its own walk before.
LEMMA WriteFresh ==
    ASSUME FreshInv, IndInv', NEW p \in Procs, run[p].phase \in OnWalk, NEW f \in Files,
           \A i \in Inodes \ {Target(p)} : db'[i].rows = db[i].rows,
           \A g \in Files \ {f} : db'[Target(p)].rows[g] = db[Target(p)].rows[g],
           f \in run[p].quiet => Reflects(db[Target(p)], f)',
           disk' = disk, \A q \in Procs \ {p} : run'[q] = run[q],
           Target(p)' = Target(p), (Fresh(p) /\ Filled(p) /\ Rebuilt(p))',
           run'[p].att = run[p].att, run'[p].quiet = run[p].quiet
    PROVE  FreshInv'
<1> USE ConstantsAssumption
<1>1. IndInv /\ TypeOK /\ InHand(p) /\ LockOK(p) /\ TempOK(p)
  BY DEF FreshInv, IndInv
<1>2. ASSUME NEW q \in Procs \ {p}, Rebuilding(q)
      PROVE  db'[run[q].tmp].rows = db[run[q].tmp].rows
  <2>1. LockOK(q) /\ TempOK(q) /\ run[q].tmp \in Inodes
    BY <1>2 DEF FreshInv, IndInv, TypeOK, Runs, Rebuilding
  <2>2. Target(p) # run[q].tmp
    BY <1>1, <1>2, <2>1 DEF Target, LockOK, TempOK
  <2> QED BY <2>1, <2>2
<1>3. ASSUME NEW q \in Procs \ {p}, run[q].phase = "report",
             run[q].kind \in {"rebuild", "search"}, NEW g \in run[q].quiet
      PROVE  Reflects(db[run[q].att], g)'
  <2>1. run[q].att \in Inodes /\ g \in Files /\ run'[q] = run[q]
    BY <1>3 DEF FreshInv, IndInv, InHand, TypeOK, Runs
  <2>2. Reflects(db[run[q].att], g) /\ Rebuilt(q)
    BY <1>3 DEF FreshInv, Rebuilt
  <2>3. CASE db'[run[q].att].rows[g] = db[run[q].att].rows[g]
    BY <2>1, <2>2, <2>3 DEF Reflects, Tracks
  <2>4. CASE run[q].att = Target(p) /\ g = f
    <3>1. run[q].att = run[p].att
      BY <1>1, <2>4 DEF Target, TempOK
    <3>2. f \in run[p].quiet
      BY <1>3, <2>2, <2>4, <3>1 DEF Rebuilt
    <3>3. Reflects(db[Target(p)], f)'
      BY <3>2
    <3>4. (run[q].att)' = Target(p)'
      BY <2>1, <2>4
    <3> QED BY <2>4, <3>3, <3>4 DEF Reflects, Tracks
  <2> QED BY <2>1, <2>3, <2>4
<1> QED BY <1>2, <1>3, OthersFresh

\* The file in hand is parsed; one that does not validate loses its entry.
LEMMA ParseFileFresh ==
    ASSUME FreshInv, IndInv', NEW p \in Procs, ParseFile(p)
    PROVE  FreshInv'
<1> USE ConstantsAssumption
<1>1. /\ run[p].phase = "parse" /\ run[p] \in Runs /\ run \in [Procs -> Runs] /\ disk' = disk
      /\ Fresh(p) /\ Filled(p) /\ InHand(p) /\ db \in [Inodes -> Databases]
  BY DEF ParseFile, FreshInv, IndInv, TypeOK
<1>2. PICK f \in Files : f = run[p].file /\ f \in run[p].todo /\ run[p].att \in Inodes
  BY <1>1 DEF InHand, Fresh, OnWalk
<1>3. CASE Abort(p)
  BY <1>1, <1>3, AbortFresh
<1>4. CASE /\ disk[f] \in Invalid
           /\ run' = [run EXCEPT ![p] = FileDone(p)]
           /\ db' = IF run[p].snap[f] = None THEN db
                    ELSE [db EXCEPT ![run[p].att] = DeleteFile(@, f)]
  <2> DEFINE r == FileDone(p)
  <2>1. run'[p] = r /\ \A q \in Procs \ {p} : run'[q] = run[q]
    BY <1>1, <1>4
  <2>2. /\ r.phase = "walk" /\ r.todo = run[p].todo \ {f} /\ r.gone = run[p].gone
        /\ r.quiet = run[p].quiet /\ r.tmp = run[p].tmp /\ r.kind = run[p].kind
        /\ r.att = run[p].att /\ r.snap = run[p].snap
    BY <1>1, <1>2 DEF Runs, FileDone
  <2> HIDE DEF r
  <2>3. Fresh(p)'
    BY <1>1, <1>2, <2>1, <2>2 DEF Fresh, OnWalk
  <2>4. CASE Rebuilding(p)
    <3>1. db' = db
      BY <1>1, <1>2, <1>4, <2>4 DEF Filled
    <3>2. Reflects(db[run[p].tmp], f)'
      <4>1. db[run[p].tmp].rows[f] = None
        BY <1>1, <1>2, <2>4 DEF Filled
      <4>2. (run[p].tmp)' = run[p].tmp
        BY <2>1, <2>2
      <4> QED BY <1>1, <1>4, <3>1, <4>1, <4>2 DEF Reflects, Tracks
    <3>3. \A g \in run[p].quiet \ run[p].todo : Reflects(db[run[p].tmp], g)'
      BY <1>1, <2>1, <2>2, <2>4, <3>1 DEF Filled, Reflects, Tracks
    <3>4. Filled(p)'
      BY <1>1, <2>1, <2>2, <2>4, <3>1, <3>2, <3>3 DEF Filled, Rebuilding, OnWalk
    <3>5. Rebuilt(p)'
      BY <2>1, <2>2 DEF Rebuilt
    <3> QED BY <1>1, <2>1, <2>2, <2>3, <3>1, <3>4, <3>5, KeptFresh DEF Kept, OnWalk
  <2>5. CASE ~Rebuilding(p)
    <3>1. Target(p) = run[p].att /\ Target(p)' = run[p].att
      BY <2>1, <2>2, <2>5 DEF Target, Rebuilding
    <3>2. Filled(p)' /\ Rebuilt(p)'
      BY <1>1, <2>1, <2>2, <2>5 DEF Filled, Rebuilt, Rebuilding, OnWalk
    <3>3. CASE run[p].snap[f] = None
      BY <1>1, <1>4, <2>1, <2>2, <2>3, <3>2, <3>3, KeptFresh DEF Kept, OnWalk
    <3>4. CASE run[p].snap[f] # None
      <4>1. db' = [db EXCEPT ![run[p].att] = DeleteFile(@, f)]
        BY <1>4, <3>4
      <4>2. /\ \A i \in Inodes \ {Target(p)} : db'[i].rows = db[i].rows
            /\ \A g \in Files \ {f} : db'[Target(p)].rows[g] = db[Target(p)].rows[g]
            /\ db'[Target(p)].rows[f] = None
        BY <1>1, <1>2, <3>1, <4>1 DEF DeleteFile, Databases, Rows
      <4>3. Reflects(db[Target(p)], f)'
        BY <1>1, <1>4, <3>1, <4>2 DEF Reflects, Tracks
      <4>4. /\ Target(p)' = Target(p) /\ run[p].phase \in OnWalk
            /\ run'[p].att = run[p].att /\ run'[p].quiet = run[p].quiet
        BY <1>1, <2>1, <2>2, <3>1 DEF OnWalk
      <4> QED BY <1>1, <2>1, <2>3, <3>2, <4>2, <4>3, <4>4, WriteFresh
    <3> QED BY <3>3, <3>4
  <2> QED BY <2>4, <2>5
<1>5. CASE /\ db' = db
           /\ run' = [run EXCEPT ![p].phase = "commit", ![p].text = disk[f]]
  <2> DEFINE r == [run[p] EXCEPT !.phase = "commit", !.text = disk[f]]
  <2>1. run'[p] = r /\ \A q \in Procs \ {p} : run'[q] = run[q]
    BY <1>1, <1>5
  <2>2. /\ r.phase = "commit" /\ r.todo = run[p].todo /\ r.gone = run[p].gone
        /\ r.quiet = run[p].quiet /\ r.tmp = run[p].tmp /\ r.kind = run[p].kind
        /\ r.att = run[p].att /\ r.snap = run[p].snap /\ r.file = f /\ r.hash = run[p].hash
        /\ r.text = disk[f]
    BY <1>1, <1>2 DEF Runs
  <2> HIDE DEF r
  <2>3. Fresh(p)'
    BY <1>1, <1>2, <2>1, <2>2 DEF Fresh, OnWalk
  <2>4. Filled(p)'
    BY <1>1, <1>5, <2>1, <2>2 DEF Filled, Rebuilding, OnWalk, Reflects, Tracks
  <2>5. Rebuilt(p)'
    BY <2>1, <2>2 DEF Rebuilt
  <2> QED BY <1>1, <1>5, <2>1, <2>2, <2>3, <2>4, <2>5, KeptFresh DEF Kept, OnWalk
<1> QED BY <1>2, <1>3, <1>4, <1>5 DEF ParseFile

\* What it writes of an untouched file is what the disk holds.
LEMMA CommitWrites ==
    ASSUME FreshInv, NEW p \in Procs, CommitFile(p)
    PROVE  \E f \in Files, i \in Inodes :
             /\ f = run[p].file /\ f \in run[p].todo /\ i = Target(p)
             /\ \A j \in Inodes \ {i} : db'[j].rows = db[j].rows
             /\ \A g \in Files \ {f} : db'[i].rows[g] = db[i].rows[g]
             /\ f \in run[p].quiet => Reflects(db[i], f)'
<1> USE ConstantsAssumption
<1> DEFINE row == [hash |-> run[p].hash, text |-> run[p].text, model |-> run[p].model]
<1>1. /\ run[p].phase = "commit" /\ run[p] \in Runs /\ disk' = disk
      /\ Fresh(p) /\ InHand(p) /\ db \in [Inodes -> Databases]
  BY DEF CommitFile, FreshInv, IndInv, TypeOK
<1>2. PICK f \in Files, i \in Inodes : f = run[p].file /\ f \in run[p].todo /\ i = Target(p)
  BY <1>1 DEF InHand, Fresh, OnWalk, Target, Rebuilding, Runs
<1>3. db' = [db EXCEPT ![i] = ReplaceFileAndChunks(@, f, row, Stamp(p))]
  BY <1>2 DEF CommitFile
<1>4. /\ \A j \in Inodes \ {i} : db'[j].rows = db[j].rows
      /\ \A g \in Files \ {f} : db'[i].rows[g] = db[i].rows[g]
      /\ db'[i].rows[f] = row
  BY <1>1, <1>3 DEF ReplaceFileAndChunks, Databases, Rows
<1>5. f \in run[p].quiet => Reflects(db[i], f)'
  <2> SUFFICES ASSUME f \in run[p].quiet PROVE Reflects(db[i], f)'
    OBVIOUS
  <2>1. f \notin Outside /\ run[p].hash = disk[f] /\ run[p].text = disk[f]
    BY <1>1, <1>2 DEF Fresh, OnWalk
  <2>2. disk[f] # Absent /\ row.hash = disk[f] /\ row.text = disk[f]
    BY <1>1, <2>1 DEF InHand
  <2>3. row # None
    BY <1>1 DEF InHand, Valid
  <2> QED BY <1>1, <1>4, <2>1, <2>2, <2>3 DEF Reflects, Tracks
<1> QED BY <1>2, <1>4, <1>5

\* The file in hand is written: as it is on disk, when nobody touched it.
LEMMA CommitFileFresh ==
    ASSUME FreshInv, IndInv', NEW p \in Procs, CommitFile(p)
    PROVE  FreshInv'
<1> DEFINE r == FileDone(p)
<1>1. /\ run[p].phase = "commit" /\ run[p] \in Runs /\ run \in [Procs -> Runs] /\ disk' = disk
      /\ Fresh(p) /\ Filled(p) /\ run' = [run EXCEPT ![p] = r]
  BY DEF CommitFile, FreshInv, IndInv, TypeOK
<1>2. PICK f \in Files, i \in Inodes :
         /\ f = run[p].file /\ f \in run[p].todo /\ i = Target(p)
         /\ \A j \in Inodes \ {i} : db'[j].rows = db[j].rows
         /\ \A g \in Files \ {f} : db'[i].rows[g] = db[i].rows[g]
         /\ f \in run[p].quiet => Reflects(db[i], f)'
  BY CommitWrites
<1>3. run'[p] = r /\ \A q \in Procs \ {p} : run'[q] = run[q]
  BY <1>1
<1>4. /\ r.phase = "walk" /\ r.todo = run[p].todo \ {f} /\ r.gone = run[p].gone
      /\ r.quiet = run[p].quiet /\ r.tmp = run[p].tmp /\ r.kind = run[p].kind
      /\ r.att = run[p].att /\ r.snap = run[p].snap
  BY <1>1, <1>2 DEF Runs, FileDone
<1> HIDE DEF r
<1>5. Target(p)' = Target(p)
  BY <1>3, <1>4 DEF Target, Rebuilding
<1>6. f \in run[p].quiet => Reflects(db[Target(p)], f)'
  BY <1>2, <1>5 DEF Reflects, Tracks
<1>7. Fresh(p)'
  BY <1>1, <1>2, <1>3, <1>4 DEF Fresh, OnWalk
<1>8. Filled(p)'
  <2>1. CASE ~Rebuilding(p)
    BY <1>1, <1>3, <1>4, <2>1 DEF Filled, Rebuilding, OnWalk
  <2>2. CASE Rebuilding(p)
    <3>1. i = run[p].tmp /\ run'[p].tmp = run[p].tmp
      BY <1>2, <1>3, <1>4, <2>2 DEF Target
    <3>2. ASSUME NEW g \in run[p].quiet \ (run[p].todo \ {f})
          PROVE  Reflects(db[i], g)'
      <4>1. CASE g = f
        BY <1>2, <3>2, <4>1
      <4>2. CASE g # f
        <5>1. g \in Files \ {f} /\ Reflects(db[i], g)
          BY <1>1, <2>2, <3>1, <3>2, <4>2 DEF Filled, Runs
        <5> QED BY <1>1, <1>2, <5>1 DEF Reflects, Tracks
      <4> QED BY <4>1, <4>2
    <3>3. \A g \in run[p].todo \ {f} : db'[i].rows[g] = None
      BY <1>1, <1>2, <2>2, <3>1 DEF Filled, Runs
    <3>4. \A g \in run'[p].quiet \ run'[p].todo : Reflects(db[run[p].tmp], g)'
      BY <1>3, <1>4, <3>1, <3>2 DEF Reflects, Tracks
    <3> QED BY <1>1, <1>3, <1>4, <2>2, <3>1, <3>3, <3>4 DEF Filled, Rebuilding, OnWalk
  <2> QED BY <2>1, <2>2
<1>9. Rebuilt(p)'
  BY <1>3, <1>4 DEF Rebuilt
<1>10. run[p].phase \in OnWalk
  BY <1>1 DEF OnWalk
<1> QED BY <1>1, <1>2, <1>3, <1>4, <1>5, <1>6, <1>7, <1>8, <1>9, <1>10, WriteFresh

\* An update deletes the entries of files that are not there.
LEMMA SweepFresh ==
    ASSUME FreshInv, IndInv', NEW p \in Procs, Sweep(p)
    PROVE  FreshInv'
<1>1. /\ run[p].phase = "walk" /\ ~Rebuilding(p) /\ run[p] \in Runs /\ run \in [Procs -> Runs]
      /\ Fresh(p) /\ Filled(p) /\ run[p].att \in Inodes /\ db \in [Inodes -> Databases]
      /\ disk' = disk
  BY DEF Sweep, FreshInv, IndInv, TypeOK, InHand
<1>2. run[p].kind \notin {"rebuild", "search"} /\ Target(p) = run[p].att
  BY <1>1 DEF Filled, OnWalk, Target
<1>3. CASE run' = [run EXCEPT ![p].phase = "report"] /\ db' = db
  <2> DEFINE r == [run[p] EXCEPT !.phase = "report"]
  <2>1. run'[p] = r /\ \A q \in Procs \ {p} : run'[q] = run[q]
    BY <1>1, <1>3
  <2>2. r.phase = "report" /\ r.tmp = run[p].tmp /\ r.kind = run[p].kind
    BY <1>1 DEF Runs
  <2> HIDE DEF r
  <2>3. Fresh(p)' /\ Filled(p)' /\ Rebuilt(p)'
    BY <1>1, <1>2, <2>1, <2>2 DEF Fresh, Filled, Rebuilt, Rebuilding, OnWalk
  <2> QED BY <1>1, <1>3, <2>1, <2>2, <2>3, KeptFresh DEF Kept, OnWalk
<1>4. ASSUME NEW f \in run[p].gone,
             run' = [run EXCEPT ![p].gone = @ \ {f}],
             db' = [db EXCEPT ![run[p].att] = DeleteFile(@, f)]
      PROVE  FreshInv'
  <2> DEFINE r == [run[p] EXCEPT !.gone = @ \ {f}]
  <2>1. run'[p] = r /\ \A q \in Procs \ {p} : run'[q] = run[q]
    BY <1>1, <1>4
  <2>2. /\ r.phase = "walk" /\ r.todo = run[p].todo /\ r.gone = run[p].gone \ {f}
        /\ r.quiet = run[p].quiet /\ r.tmp = run[p].tmp /\ r.kind = run[p].kind
        /\ r.att = run[p].att
    BY <1>1 DEF Runs
  <2> HIDE DEF r
  <2>3. f \in Files
    BY <1>1 DEF Runs
  <2>4. /\ \A i \in Inodes \ {Target(p)} : db'[i].rows = db[i].rows
        /\ \A g \in Files \ {f} : db'[Target(p)].rows[g] = db[Target(p)].rows[g]
        /\ db'[Target(p)].rows[f] = None
    BY <1>1, <1>2, <1>4, <2>3 DEF DeleteFile, Databases, Rows
  <2>5. Target(p)' = Target(p)
    BY <1>1, <2>1, <2>2 DEF Target, Rebuilding
  <2>6. f \in run[p].quiet => Reflects(db[Target(p)], f)'
    BY <1>1, <1>4, <2>4, <2>5 DEF Fresh, OnWalk, Reflects, Tracks
  <2>7. Fresh(p)'
    BY <1>1, <2>1, <2>2 DEF Fresh, OnWalk
  <2>8. Filled(p)' /\ Rebuilt(p)'
    BY <1>1, <1>2, <2>1, <2>2 DEF Filled, Rebuilt, Rebuilding, OnWalk
  <2>9. run[p].phase \in OnWalk /\ run'[p].att = run[p].att /\ run'[p].quiet = run[p].quiet
    BY <1>1, <2>1, <2>2 DEF OnWalk
  <2> QED BY <1>1, <2>1, <2>3, <2>4, <2>5, <2>6, <2>7, <2>8, <2>9, WriteFresh
<1> QED BY <1>3, <1>4 DEF Sweep

\* A rebuild has indexed all that it listed when it publishes its database, and
\* nobody else works on that.
LEMMA SwapFresh ==
    ASSUME FreshInv, IndInv', NEW p \in Procs, Swap(p)
    PROVE  FreshInv'
<1> USE ConstantsAssumption
<1>1. /\ run[p].phase = "walk" /\ Rebuilding(p) /\ run[p].todo = {} /\ run[p] \in Runs
      /\ run \in [Procs -> Runs] /\ Filled(p) /\ TempOK(p) /\ disk' = disk
  BY DEF Swap, FreshInv, IndInv, TypeOK
<1>2. CASE Abort(p)
  BY <1>1, <1>2, AbortFresh
<1>3. CASE /\ run' = [run EXCEPT ![p].phase = "report", ![p].att = run[p].tmp, ![p].tmp = None]
           /\ db' = Reclaimed
  <2> DEFINE r == [run[p] EXCEPT !.phase = "report", !.att = run[p].tmp, !.tmp = None]
  <2>1. run'[p] = r /\ \A q \in Procs \ {p} : run'[q] = run[q]
    BY <1>1, <1>3
  <2>2. /\ r.phase = "report" /\ r.quiet = run[p].quiet /\ r.tmp = None
        /\ r.kind = run[p].kind /\ r.att = run[p].tmp
    BY <1>1 DEF Runs
  <2> HIDE DEF r
  <2>3. Kept(p)
    BY <1>3, <2>1, ReclaimedKeeps DEF FreshInv
  <2>4. run[p].tmp \in Inodes /\ run[p].quiet \subseteq Files
    BY <1>1 DEF Rebuilding, Runs
  <2>5. db'[run[p].tmp] = db[run[p].tmp]
    BY <1>3, <2>1, <2>2, <2>4 DEF Reclaimed, Open
  <2>6. ASSUME NEW f \in run[p].quiet
        PROVE  Reflects(db[run[p].att], f)'
    <3>1. Reflects(db[run[p].tmp], f)
      BY <1>1, <2>6 DEF Filled
    <3> QED BY <1>1, <2>1, <2>2, <2>5, <3>1 DEF Reflects, Tracks
  <2>7. \A q \in Procs \ {p} : run'[q].att # run[p].tmp
    BY <1>1, <2>1 DEF TempOK
  <2>8. Rebuilt(p)'
    BY <2>1, <2>2, <2>6, <2>7 DEF Rebuilt
  <2>9. Fresh(p)' /\ Filled(p)'
    BY <2>1, <2>2 DEF Fresh, Filled, Rebuilding, OnWalk
  <2> QED BY <1>1, <2>1, <2>2, <2>3, <2>8, <2>9, KeptFresh DEF OnWalk
<1> QED BY <1>2, <1>3 DEF Swap

\* The reports of a command are derived, and it ends, or goes on to search.
LEMMA WriteReportFresh ==
    ASSUME FreshInv, IndInv', NEW p \in Procs, WriteReport(p)
    PROVE  FreshInv'
<1>1. /\ run[p].phase = "report" /\ run[p] \in Runs /\ run \in [Procs -> Runs]
      /\ LockOK(p) /\ disk' = disk /\ db' = Reclaimed
  BY DEF WriteReport, FreshInv, IndInv, TypeOK
<1>2. CASE run[p].kind = "search"
  <2> DEFINE r == [run[p] EXCEPT !.phase = "query", !.quiet = {}]
  <2>1. run' = [run EXCEPT ![p] = r]
    BY <1>1, <1>2 DEF WriteReport
  <2>2. r \in Runs /\ r.phase = "query" /\ r.tmp = None
    BY <1>1 DEF Runs, Phases, LockOK, Rebuilding
  <2> HIDE DEF r
  <2>3. \A q \in Procs \ {p} : run'[q] = run[q]
    BY <1>1, <2>1
  <2>4. Kept(p)
    BY <1>1, <2>3, ReclaimedKeeps DEF FreshInv
  <2> QED BY <1>1, <2>1, <2>2, <2>4, OffWalkFresh DEF OnWalk
<1>3. CASE run[p].kind # "search"
  <2>1. Exit(p)
    BY <1>3 DEF WriteReport
  <2> QED BY <1>1, <2>1, ExitFresh
<1> QED BY <1>2, <1>3

\* No command is running at first.
LEMMA InitFresh == Init => FreshInv
<1> SUFFICES ASSUME Init, NEW p \in Procs PROVE Fresh(p) /\ Filled(p) /\ Rebuilt(p)
  BY InitInv DEF FreshInv
<1>1. run[p].phase = "idle" /\ run[p].tmp = None
  BY DEF Init, IdleRun
<1> QED BY <1>1 DEF Fresh, Filled, Rebuilt, Rebuilding, OnWalk

\* Every step of Next keeps the invariant.
LEMMA NextFresh == FreshInv /\ [Next]_vars => FreshInv'
<1> SUFFICES ASSUME FreshInv, [Next]_vars PROVE FreshInv'
  OBVIOUS
<1>1. IndInv'
  BY NextInv DEF FreshInv
<1>2. ASSUME NEW p \in Procs, Start(p)
      PROVE  FreshInv'
  BY <1>1, <1>2, OpenFresh, RewriteFrontmatterFresh DEF Start
<1>3. ASSUME NEW p \in Procs, Step(p)
      PROVE  FreshInv'
  <2>1. CASE RefuseCapture(p) \/ RefuseReindex(p) \/ Busy(p) \/ Answer(p)
    <3>1. Exit(p) /\ db' = Reclaimed /\ disk' = disk
      BY <2>1 DEF RefuseCapture, RefuseReindex, Busy, Answer
    <3> QED BY <1>1, <3>1, ExitFresh
  <2>2. CASE (\E c \in Valid : WriteCapture(p, c)) \/ OpenForReindex(p)
    BY <1>1, <2>2, WriteCaptureFresh, OpenFresh
  <2>3. CASE LockForUpdate(p) \/ UpdateUnlocked(p) \/ LockForRebuild(p)
    BY <1>1, <2>3, BeginUpdateFresh, LockForRebuildFresh
  <2>4. CASE HashFile(p) \/ ParseFile(p) \/ CommitFile(p)
    BY <1>1, <2>4, HashFileFresh, ParseFileFresh, CommitFileFresh
  <2>5. CASE Sweep(p) \/ Swap(p) \/ WriteReport(p)
    BY <1>1, <2>5, SweepFresh, SwapFresh, WriteReportFresh
  <2> QED BY <1>3, <2>1, <2>2, <2>3, <2>4, <2>5 DEF Step
<1>4. ASSUME NEW p \in Procs, Fault(p)
      PROVE  FreshInv'
  <2>1. CASE FailEmbedding(p)
    BY <1>1, <2>1, AbortFresh DEF FailEmbedding
  <2>2. CASE Kill(p)
    BY <1>1, <2>2, ExitFresh DEF Kill
  <2> QED BY <1>4, <2>1, <2>2 DEF Fault
<1>5. CASE \E f \in Files, c \in Contents \union {Absent} : Edit(f, c)
  BY <1>1, <1>5, EditFresh
<1>6. CASE UNCHANGED vars
  <2>1. /\ disk' = disk /\ db' = db /\ run' = run
    BY <1>6 DEF vars
  <2>2. ASSUME NEW p \in Procs
        PROVE  (Fresh(p) /\ Filled(p) /\ Rebuilt(p))'
    <3>1. Fresh(p) /\ Filled(p) /\ Rebuilt(p)
      BY DEF FreshInv
    <3>2. Fresh(p)'
      BY <2>1, <3>1 DEF Fresh
    <3>3. Filled(p)'
      BY <2>1, <3>1 DEF Filled, Rebuilding, Reflects, Tracks
    <3>4. Rebuilt(p)'
      BY <2>1, <3>1 DEF Rebuilt, Reflects, Tracks
    <3> QED BY <3>2, <3>3, <3>4
  <2> QED BY <1>1, <2>2 DEF FreshInv
<1> QED BY <1>2, <1>3, <1>4, <1>5, <1>6 DEF Next

\* What the walks know holds in every reachable state.
THEOREM Freshness == Spec => []FreshInv
BY InitFresh, NextFresh, PTL DEF Spec

\* A finished rebuild has indexed every file that nobody touched since its walk
\* began, whatever ran beside it and whoever was killed before, the commands that
\* write without the lock included (Indexer.rebuild).
THEOREM RebuildIsComplete == Spec => []RebuildReflectsDisk
<1>1. FreshInv => RebuildReflectsDisk
  BY DEF FreshInv, Rebuilt, RebuildReflectsDisk
<1> QED BY <1>1, Freshness, PTL

-----------------------------------------------------------------------------
(* When every writer takes the lock *)

\* What an `index update` knows: the entries of the files that it has yet to
\* visit are those it read at the start, and the others follow the disk.
Current(p) ==
    run[p].kind = "update" /\ run[p].phase \in Working =>
        /\ run[p].phase = "report" => run[p].todo = {} /\ run[p].gone = {}
        /\ \A f \in run[p].todo :
              run[p].snap[f] = IF db[run[p].att].rows[f] = None THEN None
                               ELSE db[run[p].att].rows[f].hash
        /\ \A f \in run[p].quiet \ (run[p].todo \union run[p].gone) :
              Tracks(db[run[p].att], f)

CurrentInv == FreshInv /\ \A p \in Procs : Current(p)

\* A step of one slot: the store of an update in progress is its own, for it
\* holds the lock.
LEMMA SlotCurrent ==
    ASSUME CurrentInv, FreshInv', NEW p \in Procs, disk' = disk, Kept(p) \/ lock = p,
           \A q \in Procs \ {p} : run'[q] = run[q], Current(p)'
    PROVE  CurrentInv'
<1>1. ASSUME NEW q \in Procs \ {p}
      PROVE  Current(q)'
  <2> SUFFICES ASSUME run[q].kind = "update", run[q].phase \in Working
               PROVE  Current(q)'
    BY DEF Current
  <2>1. run'[q] = run[q] /\ Current(q) /\ lock = q /\ run[q].att \in Inodes
    BY DEF CurrentInv, FreshInv, IndInv, LockOK, InHand, Locking, Working
  <2>2. db'[run[q].att].rows = db[run[q].att].rows
    BY <2>1 DEF Kept
  <2>3. \A f \in Files : Tracks(db[run[q].att], f)' <=> Tracks(db[run[q].att], f)
    BY <2>1, <2>2 DEF Tracks
  <2>4. run[q].quiet \subseteq Files
    BY DEF CurrentInv, FreshInv, IndInv, TypeOK, Runs
  <2> QED BY <2>1, <2>2, <2>3, <2>4 DEF Current
<1> QED BY <1>1 DEF CurrentInv

\* A command that ends.
LEMMA ExitCurrent ==
    ASSUME CurrentInv, FreshInv', NEW p \in Procs, Exit(p), db' = Reclaimed, disk' = disk
    PROVE  CurrentInv'
<1>1. run'[p] = IdleRun /\ \A q \in Procs \ {p} : run'[q] = run[q]
  BY DEF Exit, CurrentInv, FreshInv, IndInv, TypeOK
<1>2. Kept(p)
  BY <1>1, ReclaimedKeeps DEF CurrentInv, FreshInv
<1>3. Current(p)'
  BY <1>1 DEF Current, IdleRun, Working
<1> QED BY <1>1, <1>2, <1>3, SlotCurrent

\* A command that opens the index.
LEMMA OpenCurrent ==
    ASSUME CurrentInv, FreshInv', NEW p \in Procs, NEW m \in Models,
           OpenForUpdate(p, m) \/ OpenForRebuild(p, m) \/ OpenForSearch(p, m)
    PROVE  CurrentInv'
<1>1. /\ disk' = disk /\ \A i \in Inodes : db'[i].rows = db[i].rows
      /\ \E r \in Runs : /\ run' = [run EXCEPT ![p] = r]
                         /\ r.phase \in {"open", "waiting", "query", "draft", "edited"}
  BY OpenSlot DEF CurrentInv, FreshInv
<1>2. run'[p].phase \notin Working /\ \A q \in Procs \ {p} : run'[q] = run[q]
  BY <1>1 DEF CurrentInv, FreshInv, IndInv, TypeOK, Working
<1>3. Current(p)'
  BY <1>2 DEF Current
<1> QED BY <1>1, <1>2, <1>3, SlotCurrent DEF Kept

\* An edit by a user.
LEMMA EditCurrent ==
    ASSUME CurrentInv, FreshInv', NEW f \in Files, NEW c, Edit(f, c)
    PROVE  CurrentInv'
<1>1. db' = db /\ \A g \in Files \ {f} : disk'[g] = disk[g]
  BY DEF Edit, Touch, CurrentInv, FreshInv, IndInv, TypeOK
<1>2. ASSUME NEW q \in Procs
      PROVE  Current(q)'
  <2>1. run'[q] = [run[q] EXCEPT !.quiet = @ \ {f}] /\ run[q] \in Runs /\ Current(q)
    BY DEF Edit, Touch, CurrentInv, FreshInv, IndInv, TypeOK
  <2>2. /\ run'[q].phase = run[q].phase /\ run'[q].kind = run[q].kind /\ run'[q].att = run[q].att
        /\ run'[q].todo = run[q].todo /\ run'[q].gone = run[q].gone
        /\ run'[q].snap = run[q].snap /\ run'[q].quiet = run[q].quiet \ {f}
        /\ run[q].quiet \subseteq Files
    BY <2>1 DEF Runs
  <2>3. \A g \in Files \ {f} : Tracks(db[run[q].att], g)' <=> Tracks(db[run[q].att], g)
    BY <1>1, <2>2 DEF Tracks
  <2> QED BY <1>1, <2>1, <2>2, <2>3 DEF Current
<1> QED BY <1>2 DEF CurrentInv

\* An update begins: what it has read is what the store holds.
LEMMA BeginUpdateCurrent ==
    ASSUME CurrentInv, FreshInv', NEW p \in Procs, LockForUpdate(p)
    PROVE  CurrentInv'
<1> USE ConstantsAssumption
<1> DEFINE rows == db[run[p].att].rows
           snap == [f \in Files |-> IF rows[f] = None THEN None ELSE rows[f].hash]
           gone == {f \in Files \ Listed : rows[f] # None}
           r == [run[p] EXCEPT !.phase = "walk", !.snap = snap, !.todo = Listed,
                               !.gone = gone, !.quiet = Files]
<1>1. /\ run \in [Procs -> Runs] /\ run[p] \in Runs
      /\ disk' = disk /\ db' = db /\ run' = [run EXCEPT ![p] = r]
  BY DEF LockForUpdate, BeginWalk, CurrentInv, FreshInv, IndInv, TypeOK
<1>2. /\ r.phase = "walk" /\ r.todo = Listed /\ r.gone = gone /\ r.quiet = Files
      /\ r.snap = snap /\ r.att = run[p].att
  BY <1>1 DEF Runs
<1>3. \A f \in Files \ (Listed \union gone) : Tracks(db[run[p].att], f)
  BY ListedFiles DEF Tracks
<1> HIDE DEF r, gone
<1>4. run'[p] = r /\ \A q \in Procs \ {p} : run'[q] = run[q]
  BY <1>1
<1>5. \A f \in Files \ (Listed \union gone) : Tracks(db[run[p].att], f)'
  BY <1>1, <1>2, <1>3, <1>4 DEF Tracks
<1>6. \A f \in Listed : snap[f] = IF db[run[p].att].rows[f] = None THEN None
                                  ELSE db[run[p].att].rows[f].hash
  BY ListedFiles
<1> HIDE DEF rows, snap
<1>7. Current(p)'
  BY <1>1, <1>2, <1>4, <1>5, <1>6 DEF Current
<1> QED BY <1>1, <1>4, <1>7, SlotCurrent DEF Kept

\* So does a rebuild: no update is in progress.
LEMMA LockForRebuildCurrent ==
    ASSUME CurrentInv, FreshInv', NEW p \in Procs, LockForRebuild(p)
    PROVE  CurrentInv'
<1>1. /\ disk' = disk /\ lock = None /\ run'[p].kind = run[p].kind
      /\ run[p].kind \in {"rebuild", "search"}
      /\ \A q \in Procs \ {p} : run'[q] = run[q]
  <2>1. run \in [Procs -> Runs] /\ run[p] \in Runs /\ InHand(p)
    BY DEF CurrentInv, FreshInv, IndInv, TypeOK
  <2>2. PICK tmp : run' = [run EXCEPT ![p] = [@ EXCEPT !.phase = "walk", !.tmp = tmp,
                                                  !.todo = Listed, !.quiet = Files]]
    BY DEF LockForRebuild
  <2>3. run'[p] = [run[p] EXCEPT !.phase = "walk", !.tmp = tmp, !.todo = Listed, !.quiet = Files]
    BY <2>1, <2>2
  <2>4. run'[p].kind = run[p].kind
    BY <2>1, <2>3 DEF Runs
  <2> QED BY <2>1, <2>2, <2>4 DEF LockForRebuild, LockFree, InHand
<1>2. Current(p)'
  BY <1>1 DEF Current
<1>3. Kept(p)
  <2>1. PICK tmp \in Inodes :
           /\ ~Open(tmp)
           /\ db' = [Reclaimed EXCEPT ![tmp] = InitSchema(Blank, run[p].model)]
    BY DEF LockForRebuild
  <2>2. \A i \in Inodes \ {tmp} : db'[i] = Reclaimed[i]
    BY <2>1 DEF Reclaimed
  <2> QED BY <1>1, <2>1, <2>2 DEF Kept, Reclaimed, Open
<1> QED BY <1>1, <1>2, <1>3, SlotCurrent

\* An unchanged file, passed over, follows the disk.
LEMMA HashFileCurrent ==
    ASSUME CurrentInv, FreshInv', NEW p \in Procs, HashFile(p)
    PROVE  CurrentInv'
<1> USE ConstantsAssumption
<1>1. /\ run[p].phase = "walk" /\ run[p] \in Runs /\ run \in [Procs -> Runs] /\ disk' = disk
      /\ Fresh(p) /\ Current(p) /\ disk \in [Files -> Contents \union {Absent}]
  BY DEF HashFile, CurrentInv, FreshInv, IndInv, TypeOK
<1>2. PICK f \in run[p].todo :
         \/ Abort(p)
         \/ /\ disk[f] # Absent /\ run[p].snap[f] = disk[f]
            /\ run' = [run EXCEPT ![p].todo = @ \ {f}]
            /\ db' = db
         \/ /\ run' = [run EXCEPT ![p].phase = "parse", ![p].file = f, ![p].hash = disk[f]]
            /\ db' = db
  BY DEF HashFile
<1>3. f \in Files
  BY <1>1 DEF Runs
<1>4. CASE Abort(p)
  BY <1>1, <1>4, ExitCurrent DEF Abort
<1>5. CASE /\ disk[f] # Absent /\ run[p].snap[f] = disk[f]
           /\ run' = [run EXCEPT ![p].todo = @ \ {f}] /\ db' = db
  <2> DEFINE r == [run[p] EXCEPT !.todo = @ \ {f}]
  <2>1. run'[p] = r /\ \A q \in Procs \ {p} : run'[q] = run[q]
    BY <1>1, <1>5
  <2>2. /\ r.phase = "walk" /\ r.todo = run[p].todo \ {f} /\ r.gone = run[p].gone
        /\ r.quiet = run[p].quiet /\ r.kind = run[p].kind /\ r.att = run[p].att
        /\ r.snap = run[p].snap
    BY <1>1 DEF Runs
  <2> HIDE DEF r
  <2>3. run[p].kind = "update" => Tracks(db[run[p].att], f)
    <3>1. f \notin Outside /\ disk[f] \in Contents
      BY <1>1, <1>3, <1>5 DEF Fresh, OnWalk
    <3> QED BY <1>1, <1>5, <3>1 DEF Current, Tracks, Working
  <2>4. \A i \in Inodes, g \in Files : Tracks(db[i], g)' <=> Tracks(db[i], g)
    BY <1>1, <1>5 DEF Tracks
  <2>5. run[p].att \in Inodes /\ run[p].quiet \subseteq Files
    BY <1>1 DEF CurrentInv, FreshInv, IndInv, InHand, Runs
  <2>6. Current(p)'
    BY <1>1, <1>5, <2>1, <2>2, <2>3, <2>4, <2>5 DEF Current, Working
  <2> QED BY <1>1, <1>5, <2>1, <2>6, SlotCurrent DEF Kept
<1>6. CASE /\ db' = db
           /\ run' = [run EXCEPT ![p].phase = "parse", ![p].file = f, ![p].hash = disk[f]]
  <2> DEFINE r == [run[p] EXCEPT !.phase = "parse", !.file = f, !.hash = disk[f]]
  <2>1. run'[p] = r /\ \A q \in Procs \ {p} : run'[q] = run[q]
    BY <1>1, <1>6
  <2>2. /\ r.phase = "parse" /\ r.todo = run[p].todo /\ r.gone = run[p].gone
        /\ r.quiet = run[p].quiet /\ r.kind = run[p].kind /\ r.att = run[p].att
        /\ r.snap = run[p].snap
    BY <1>1 DEF Runs
  <2> HIDE DEF r
  <2>3. Current(p)'
    BY <1>1, <1>6, <2>1, <2>2 DEF Current, Working, Tracks
  <2> QED BY <1>1, <1>6, <2>1, <2>3, SlotCurrent DEF Kept
<1> QED BY <1>2, <1>4, <1>5, <1>6

\* A file that is parsed loses its entry only when it no longer validates.
LEMMA ParseWrites ==
    ASSUME FreshInv, NEW p \in Procs, ParseFile(p), ~Abort(p)
    PROVE  \E f \in Files, i \in Inodes :
             /\ f = run[p].file /\ f \in run[p].todo /\ i = run[p].att
             /\ \A j \in Inodes \ {i} : db'[j].rows = db[j].rows
             /\ \A g \in Files \ {f} : db'[i].rows[g] = db[i].rows[g]
             /\ db' = db \/ Reflects(db[i], f)'
<1> USE ConstantsAssumption
<1>1. /\ run[p].phase = "parse" /\ disk' = disk /\ db \in [Inodes -> Databases]
      /\ Fresh(p) /\ InHand(p)
  BY DEF ParseFile, FreshInv, IndInv, TypeOK
<1>2. PICK f \in Files, i \in Inodes : f = run[p].file /\ f \in run[p].todo /\ i = run[p].att
  BY <1>1 DEF InHand, Fresh, OnWalk
<1>3. CASE db' = db
  BY <1>2, <1>3
<1>4. CASE disk[f] \in Invalid /\ db' = [db EXCEPT ![i] = DeleteFile(@, f)]
  <2>1. /\ \A j \in Inodes \ {i} : db'[j].rows = db[j].rows
        /\ \A g \in Files \ {f} : db'[i].rows[g] = db[i].rows[g]
        /\ db'[i].rows[f] = None
    BY <1>1, <1>4 DEF DeleteFile, Databases, Rows
  <2>2. Reflects(db[i], f)'
    BY <1>1, <1>4, <2>1 DEF Reflects, Tracks
  <2> QED BY <1>2, <2>1, <2>2
<1> QED BY <1>2, <1>3, <1>4 DEF ParseFile

\* What an update sweeps away is not there.
LEMMA SweepWrites ==
    ASSUME FreshInv, NEW p \in Procs, Sweep(p)
    PROVE  \/ /\ db' = db /\ run[p].gone = {}
              /\ run' = [run EXCEPT ![p].phase = "report"]
           \/ \E f \in run[p].gone, i \in Inodes :
                /\ f \in Files /\ i = run[p].att
                /\ \A j \in Inodes \ {i} : db'[j].rows = db[j].rows
                /\ \A g \in Files \ {f} : db'[i].rows[g] = db[i].rows[g]
                /\ f \in run[p].quiet => Reflects(db[i], f)'
                /\ run' = [run EXCEPT ![p].gone = @ \ {f}]
<1>1. /\ run[p].phase = "walk" /\ disk' = disk /\ db \in [Inodes -> Databases]
      /\ Fresh(p) /\ run[p] \in Runs /\ run[p].att \in Inodes
  BY DEF Sweep, FreshInv, IndInv, TypeOK, InHand
<1>2. ASSUME NEW f \in run[p].gone, run' = [run EXCEPT ![p].gone = @ \ {f}],
             db' = [db EXCEPT ![run[p].att] = DeleteFile(@, f)]
      PROVE  \E i \in Inodes :
                /\ f \in Files /\ i = run[p].att
                /\ \A j \in Inodes \ {i} : db'[j].rows = db[j].rows
                /\ \A g \in Files \ {f} : db'[i].rows[g] = db[i].rows[g]
                /\ f \in run[p].quiet => Reflects(db[i], f)'
  <2>1. f \in Files
    BY <1>1 DEF Runs
  <2>2. PICK i \in Inodes : i = run[p].att
    BY <1>1
  <2>3. /\ \A j \in Inodes \ {i} : db'[j].rows = db[j].rows
        /\ \A g \in Files \ {f} : db'[i].rows[g] = db[i].rows[g]
        /\ db'[i].rows[f] = None
    BY <1>1, <1>2, <2>1, <2>2 DEF DeleteFile, Databases, Rows
  <2>4. f \in run[p].quiet => Reflects(db[i], f)'
    BY <1>1, <2>3 DEF Fresh, OnWalk, Reflects, Tracks
  <2> QED BY <2>1, <2>2, <2>3, <2>4
<1> QED BY <1>2 DEF Sweep

\* A walk is done with a file, and its entry follows the disk.
LEMMA WroteCurrent ==
    ASSUME Kinds \subseteq Locking, CurrentInv, FreshInv', NEW p \in Procs,
           run[p].phase \in OnWalk, NEW f \in Files, disk' = disk,
           \A q \in Procs \ {p} : run'[q] = run[q],
           run'[p].phase = "walk", run'[p].kind = run[p].kind, run'[p].att = run[p].att,
           run'[p].quiet = run[p].quiet, run'[p].snap = run[p].snap,
           run'[p].todo \subseteq run[p].todo \ {f},
           run[p].todo \union run[p].gone \subseteq run'[p].todo \union run'[p].gone \union {f},
           run[p].kind = "update" =>
              /\ \A g \in Files \ {f} : db'[run[p].att].rows[g] = db[run[p].att].rows[g]
              /\ f \in run[p].quiet => Tracks(db[run[p].att], f)'
    PROVE  CurrentInv'
<1>1. /\ IndInv /\ Current(p) /\ LockOK(p) /\ InHand(p)
      /\ run[p].todo \subseteq Files /\ run[p].quiet \subseteq Files
  BY DEF CurrentInv, FreshInv, IndInv, TypeOK, Runs
<1>2. lock = p
  BY <1>1 DEF LockOK, InHand, OnWalk, Working, Locking
<1>3. Current(p)'
  <2> SUFFICES ASSUME run[p].kind = "update"
               PROVE  Current(p)'
    BY DEF Current
  <2>1. \A g \in run'[p].todo :
           run'[p].snap[g] = IF db'[run'[p].att].rows[g] = None THEN None
                             ELSE db'[run'[p].att].rows[g].hash
    BY <1>1 DEF Current, OnWalk, Working
  <2>2. ASSUME NEW g \in run'[p].quiet \ (run'[p].todo \union run'[p].gone)
        PROVE  Tracks(db[run[p].att], g)'
    <3>1. CASE g = f
      BY <2>2, <3>1
    <3>2. CASE g # f
      <4>1. g \in Files /\ Tracks(db[run[p].att], g)
        BY <1>1, <2>2, <3>2 DEF Current, OnWalk, Working
      <4> QED BY <3>2, <4>1 DEF Tracks
    <3> QED BY <3>1, <3>2
  <2> QED BY <2>1, <2>2 DEF Current
<1> QED BY <1>2, <1>3, SlotCurrent

\* The three steps that write ...
LEMMA WritingCurrent ==
    ASSUME Kinds \subseteq Locking, CurrentInv, FreshInv', NEW p \in Procs,
           ParseFile(p) \/ CommitFile(p) \/ Sweep(p)
    PROVE  CurrentInv'
<1> USE ConstantsAssumption
<1>1. /\ run[p] \in Runs /\ run \in [Procs -> Runs] /\ disk' = disk /\ FreshInv
      /\ Fresh(p) /\ Filled(p) /\ Current(p) /\ LockOK(p) /\ InHand(p)
      /\ db \in [Inodes -> Databases]
  BY DEF ParseFile, CommitFile, Sweep, CurrentInv, FreshInv, IndInv, TypeOK
<1>2. CASE ParseFile(p) /\ Abort(p)
  BY <1>1, <1>2, ExitCurrent DEF Abort
<1>3. CASE ParseFile(p) /\ ~Abort(p)
  <2>1. PICK f \in Files, i \in Inodes :
           /\ f = run[p].file /\ f \in run[p].todo /\ i = run[p].att
           /\ \A j \in Inodes \ {i} : db'[j].rows = db[j].rows
           /\ \A g \in Files \ {f} : db'[i].rows[g] = db[i].rows[g]
           /\ db' = db \/ Reflects(db[i], f)'
    BY <1>1, <1>3, ParseWrites
  <2>2. run[p].phase = "parse"
    BY <1>3 DEF ParseFile
  <2>3. CASE /\ disk[f] \in Invalid
             /\ run' = [run EXCEPT ![p] = FileDone(p)]
             /\ db' = IF run[p].snap[f] = None THEN db
                      ELSE [db EXCEPT ![run[p].att] = DeleteFile(@, f)]
    <3> DEFINE r == FileDone(p)
    <3>1. run'[p] = r /\ \A q \in Procs \ {p} : run'[q] = run[q]
      BY <1>1, <2>3
    <3>2. /\ r.phase = "walk" /\ r.todo = run[p].todo \ {f} /\ r.gone = run[p].gone
          /\ r.quiet = run[p].quiet /\ r.kind = run[p].kind /\ r.att = run[p].att
          /\ r.snap = run[p].snap
      BY <1>1, <2>1 DEF Runs, FileDone
    <3> HIDE DEF r
    <3>3. run[p].kind = "update" => Tracks(db[i], f)'
      <4> SUFFICES ASSUME run[p].kind = "update" PROVE Tracks(db[i], f)'
        OBVIOUS
      <4>1. CASE run[p].snap[f] = None
        <5>1. db' = db /\ db[i].rows[f] = None
          BY <1>1, <2>1, <2>2, <2>3, <4>1 DEF Current, Working, Databases, Rows
        <5> QED BY <1>1, <2>3, <5>1 DEF Tracks
      <4>2. CASE run[p].snap[f] # None
        <5>1. db'[i].rows[f] = None
          BY <1>1, <2>1, <2>3, <4>2 DEF DeleteFile, Databases, Rows
        <5> QED BY <1>1, <2>3, <5>1 DEF Tracks
      <4> QED BY <4>1, <4>2
    <3>4. Tracks(db[i], f)' => Tracks(db[run[p].att], f)'
      BY <2>1, <3>1, <3>2 DEF Tracks
    <3>5. run[p].phase \in OnWalk
      BY <2>2 DEF OnWalk
    <3> QED BY <1>1, <2>1, <3>1, <3>2, <3>3, <3>4, <3>5, WroteCurrent
  <2>4. CASE db' = db /\ run' = [run EXCEPT ![p].phase = "commit", ![p].text = disk[f]]
    <3> DEFINE r == [run[p] EXCEPT !.phase = "commit", !.text = disk[f]]
    <3>1. run'[p] = r /\ \A q \in Procs \ {p} : run'[q] = run[q]
      BY <1>1, <2>4
    <3>2. /\ r.phase = "commit" /\ r.todo = run[p].todo /\ r.gone = run[p].gone
          /\ r.quiet = run[p].quiet /\ r.kind = run[p].kind /\ r.att = run[p].att
          /\ r.snap = run[p].snap
      BY <1>1 DEF Runs
    <3> HIDE DEF r
    <3>3. Current(p)'
      BY <1>1, <2>2, <2>4, <3>1, <3>2 DEF Current, Working, Tracks
    <3> QED BY <1>1, <2>4, <3>1, <3>3, SlotCurrent DEF Kept
  <2> QED BY <1>3, <2>1, <2>3, <2>4 DEF ParseFile
<1>4. CASE CommitFile(p)
  <2> DEFINE r == FileDone(p)
  <2>1. PICK f \in Files, i \in Inodes :
           /\ f = run[p].file /\ f \in run[p].todo /\ i = Target(p)
           /\ \A j \in Inodes \ {i} : db'[j].rows = db[j].rows
           /\ \A g \in Files \ {f} : db'[i].rows[g] = db[i].rows[g]
           /\ f \in run[p].quiet => Reflects(db[i], f)'
    BY <1>1, <1>4, CommitWrites
  <2>2. run[p].phase = "commit" /\ run' = [run EXCEPT ![p] = r]
    BY <1>4 DEF CommitFile
  <2>3. run'[p] = r /\ \A q \in Procs \ {p} : run'[q] = run[q]
    BY <1>1, <2>2
  <2>4. /\ r.phase = "walk" /\ r.todo = run[p].todo \ {f} /\ r.gone = run[p].gone
        /\ r.quiet = run[p].quiet /\ r.kind = run[p].kind /\ r.att = run[p].att
        /\ r.snap = run[p].snap
    BY <1>1, <2>1 DEF Runs, FileDone
  <2> HIDE DEF r
  <2>5. run[p].kind = "update" => i = run[p].att
    BY <1>1, <2>1, <2>2 DEF Filled, Target, OnWalk
  <2>6. i = run[p].att /\ f \in run[p].quiet => Tracks(db[run[p].att], f)'
    BY <2>1, <2>3, <2>4 DEF Reflects, Tracks
  <2>7. run[p].phase \in OnWalk
    BY <2>2 DEF OnWalk
  <2> QED BY <1>1, <2>1, <2>3, <2>4, <2>5, <2>6, <2>7, WroteCurrent
<1>5. CASE Sweep(p)
  <2>1. run[p].phase = "walk" /\ run[p].todo = {}
    BY <1>5 DEF Sweep
  <2>2. CASE /\ db' = db /\ run[p].gone = {}
             /\ run' = [run EXCEPT ![p].phase = "report"]
    <3> DEFINE r == [run[p] EXCEPT !.phase = "report"]
    <3>1. run'[p] = r /\ \A q \in Procs \ {p} : run'[q] = run[q]
      BY <1>1, <2>2
    <3>2. /\ r.phase = "report" /\ r.todo = {} /\ r.gone = {}
          /\ r.quiet = run[p].quiet /\ r.kind = run[p].kind /\ r.att = run[p].att
      BY <1>1, <2>1, <2>2 DEF Runs
    <3> HIDE DEF r
    <3>3. Current(p)'
      BY <1>1, <2>1, <2>2, <3>1, <3>2 DEF Current, Working, Tracks
    <3> QED BY <1>1, <2>2, <3>1, <3>3, SlotCurrent DEF Kept
  <2>3. ASSUME NEW f \in run[p].gone, NEW i \in Inodes,
               f \in Files, i = run[p].att,
               \A j \in Inodes \ {i} : db'[j].rows = db[j].rows,
               \A g \in Files \ {f} : db'[i].rows[g] = db[i].rows[g],
               f \in run[p].quiet => Reflects(db[i], f)',
               run' = [run EXCEPT ![p].gone = @ \ {f}]
        PROVE  CurrentInv'
    <3> DEFINE r == [run[p] EXCEPT !.gone = @ \ {f}]
    <3>1. run'[p] = r /\ \A q \in Procs \ {p} : run'[q] = run[q]
      BY <1>1, <2>3
    <3>2. /\ r.phase = "walk" /\ r.todo = {} /\ r.gone = run[p].gone \ {f}
          /\ r.quiet = run[p].quiet /\ r.kind = run[p].kind /\ r.att = run[p].att
          /\ r.snap = run[p].snap
      BY <1>1, <2>1 DEF Runs
    <3> HIDE DEF r
    <3>3. f \in run[p].quiet => Tracks(db[run[p].att], f)'
      BY <2>3, <3>1, <3>2 DEF Reflects, Tracks
    <3>4. run[p].phase \in OnWalk
      BY <2>1 DEF OnWalk
    <3> QED BY <1>1, <2>1, <2>3, <3>1, <3>2, <3>3, <3>4, WroteCurrent
  <2> QED BY <1>1, <1>5, <2>2, <2>3, SweepWrites
<1> QED BY <1>2, <1>3, <1>4, <1>5

\* ... and those that end a walk.
LEMMA EndingCurrent ==
    ASSUME Kinds \subseteq Locking, CurrentInv, FreshInv', NEW p \in Procs,
           Swap(p) \/ WriteReport(p)
    PROVE  CurrentInv'
<1>1. /\ run[p] \in Runs /\ run \in [Procs -> Runs] /\ disk' = disk /\ IndInv
      /\ Filled(p) /\ LockOK(p) /\ InHand(p)
  BY DEF Swap, WriteReport, CurrentInv, FreshInv, IndInv, TypeOK
<1>2. CASE Swap(p) /\ Abort(p)
  BY <1>1, <1>2, ExitCurrent DEF Abort
<1>3. CASE Swap(p) /\ ~Abort(p)
  <2> DEFINE r == [run[p] EXCEPT !.phase = "report", !.att = run[p].tmp, !.tmp = None]
  <2>1. /\ run' = [run EXCEPT ![p].phase = "report", ![p].att = run[p].tmp, ![p].tmp = None]
        /\ run[p].kind # "update" /\ lock = p
    BY <1>1, <1>3 DEF Swap, Filled, LockOK
  <2>2. run'[p] = r /\ \A q \in Procs \ {p} : run'[q] = run[q]
    BY <1>1, <2>1
  <2>3. r.kind = run[p].kind
    BY <1>1 DEF Runs
  <2> HIDE DEF r
  <2>4. Current(p)'
    BY <2>1, <2>2, <2>3 DEF Current
  <2> QED BY <1>1, <2>1, <2>2, <2>4, SlotCurrent
<1>4. CASE WriteReport(p) /\ run[p].kind = "search"
  <2> DEFINE r == [run[p] EXCEPT !.phase = "query", !.quiet = {}]
  <2>1. run' = [run EXCEPT ![p] = r] /\ lock = p
    BY <1>1, <1>4 DEF WriteReport, LockOK, Locking, Working
  <2>2. r.phase = "query"
    BY <1>1 DEF Runs
  <2> HIDE DEF r
  <2>3. run'[p] = r /\ \A q \in Procs \ {p} : run'[q] = run[q]
    BY <1>1, <2>1
  <2>4. Current(p)'
    BY <2>2, <2>3 DEF Current, Working
  <2> QED BY <1>1, <2>1, <2>3, <2>4, SlotCurrent
<1>5. CASE WriteReport(p) /\ run[p].kind # "search"
  <2>1. Exit(p) /\ db' = Reclaimed
    BY <1>5 DEF WriteReport
  <2> QED BY <1>1, <2>1, ExitCurrent
<1> QED BY <1>2, <1>3, <1>4, <1>5

\* When every command takes the lock, no step takes the walk without it.
LEMMA NoUnlocked ==
    ASSUME Kinds \subseteq Locking, IndInv, NEW p \in Procs
    PROVE  /\ run[p].phase \notin {"draft", "rewritten", "edited"}
           /\ ~OpenForReindex(p) /\ ~RefuseReindex(p) /\ ~UpdateUnlocked(p) /\ ~RefuseCapture(p)
           /\ \A c : ~WriteCapture(p, c)
           /\ \A m, f : ~OpenForCapture(p, m, f)
           /\ \A m, f, c : ~RewriteFrontmatter(p, m, f, c)
<1>1. run[p].phase \notin {"draft", "rewritten", "edited"}
  BY DEF IndInv, InHand
<1>2. "capture" \notin Kinds /\ "confirm" \notin Kinds
  BY DEF Locking
<1> QED BY <1>1, <1>2
        DEF OpenForReindex, RefuseReindex, UpdateUnlocked, RefuseCapture, WriteCapture,
            OpenForCapture, RewriteFrontmatter

\* Every step of Next keeps what an update knows.
LEMMA NextCurrent ==
    ASSUME Kinds \subseteq Locking, CurrentInv, [Next]_vars
    PROVE  CurrentInv'
<1>1. FreshInv /\ FreshInv' /\ IndInv
  BY NextFresh DEF CurrentInv, FreshInv
<1>2. ASSUME NEW p \in Procs, Start(p)
      PROVE  CurrentInv'
  <2>1. PICK m \in Models : OpenForUpdate(p, m) \/ OpenForRebuild(p, m) \/ OpenForSearch(p, m)
    BY <1>1, <1>2, NoUnlocked DEF Start
  <2> QED BY <1>1, <2>1, OpenCurrent
<1>3. ASSUME NEW p \in Procs, Step(p)
      PROVE  CurrentInv'
  <2>1. CASE Busy(p) \/ Answer(p)
    <3>1. Exit(p) /\ db' = Reclaimed /\ disk' = disk
      BY <2>1 DEF Busy, Answer
    <3> QED BY <1>1, <3>1, ExitCurrent
  <2>2. CASE LockForUpdate(p) \/ LockForRebuild(p)
    BY <1>1, <2>2, BeginUpdateCurrent, LockForRebuildCurrent
  <2>3. CASE HashFile(p)
    BY <1>1, <2>3, HashFileCurrent
  <2>4. CASE ParseFile(p) \/ CommitFile(p) \/ Sweep(p)
    BY <1>1, <2>4, WritingCurrent
  <2>5. CASE Swap(p) \/ WriteReport(p)
    BY <1>1, <2>5, EndingCurrent
  <2> QED BY <1>1, <1>3, <2>1, <2>2, <2>3, <2>4, <2>5, NoUnlocked DEF Step
<1>4. ASSUME NEW p \in Procs, Fault(p)
      PROVE  CurrentInv'
  BY <1>1, <1>4, ExitCurrent DEF Fault, FailEmbedding, Kill, Abort
<1>5. CASE \E f \in Files, c \in Contents \union {Absent} : Edit(f, c)
  BY <1>1, <1>5, EditCurrent
<1>6. CASE UNCHANGED vars
  BY <1>1, <1>6 DEF vars, CurrentInv, Current, Tracks
<1> QED BY <1>2, <1>3, <1>4, <1>5, <1>6 DEF Next

\* What an update knows holds in every reachable state.
THEOREM UpdateKnowledge ==
    ASSUME Kinds \subseteq Locking
    PROVE  Spec => []CurrentInv
<1>1. Init => CurrentInv
  <2> SUFFICES ASSUME Init, NEW p \in Procs PROVE Current(p)
    BY InitFresh DEF CurrentInv
  <2>1. run[p].phase = "idle"
    BY DEF Init, IdleRun
  <2> QED BY <2>1 DEF Current, Working
<1>2. CurrentInv /\ [Next]_vars => CurrentInv'
  BY NextCurrent
<1> QED BY <1>1, <1>2, PTL DEF Spec

\* A finished `index update` has brought its store up to date with every file
\* that nobody touched since its walk began, as long as only rebuild, update and
\* search write the index (Indexer.update under index_write_lock).
THEOREM UpdateIsComplete ==
    ASSUME Kinds \subseteq Locking
    PROVE  Spec => []UpdateReflectsDisk
<1>1. CurrentInv => UpdateReflectsDisk
  <2> SUFFICES ASSUME CurrentInv, NEW p \in Procs, run[p].phase = "report",
                      run[p].kind = "update", NEW f \in run[p].quiet
               PROVE  Tracks(db[run[p].att], f)
    BY DEF UpdateReflectsDisk
  <2> QED BY DEF CurrentInv, Current, Working
<1> QED BY <1>1, UpdateKnowledge, PTL

\* The skip manifest that a finished walk writes names every file the walk does
\* not reach, and of the untouched ones only those and the invalid
\* (_write_skip_manifest).
THEOREM ManifestIsHonest ==
    ASSUME Kinds \subseteq Locking
    PROVE  Spec => BannerIsHonest
<1>1. CurrentInv /\ [Next]_vars =>
        [\A p \in Procs : WriteReport(p) =>
            \A f \in run[p].quiet :
               /\ f \in report'.uncovered => f \in Outside \/ disk[f] \in Invalid
               /\ f \in Outside /\ disk[f] # Absent => f \in report'.uncovered]_vars
  <2> SUFFICES ASSUME CurrentInv, NEW p \in Procs, WriteReport(p), NEW f \in run[p].quiet
               PROVE  /\ f \in report'.uncovered => f \in Outside \/ disk[f] \in Invalid
                      /\ f \in Outside /\ disk[f] # Absent => f \in report'.uncovered
    OBVIOUS
  <2>1. /\ FreshInv /\ Current(p) /\ Rebuilt(p) /\ InHand(p) /\ f \in Files
        /\ run[p].phase = "report" /\ run[p].kind \in {"rebuild", "update", "search"}
    BY DEF WriteReport, CurrentInv, FreshInv, IndInv, TypeOK, Runs, InHand, Locking
  <2>2. Tracks(db[run[p].att], f)
    BY <2>1 DEF Current, Rebuilt, Reflects, Working
  <2>3. report'.uncovered = {g \in Files : disk[g] # Absent /\ db[run[p].att].rows[g] = None}
    BY DEF WriteReport
  <2> QED BY <2>1, <2>2, <2>3 DEF Tracks
<1> QED BY <1>1, UpdateKnowledge, PTL DEF Spec, BannerIsHonest

-----------------------------------------------------------------------------
(* No step takes an entry back *)

\* The steps that keep the rows of the live index: all but the writes of a walk
\* and the swap.
LEMMA LiveStays ==
    ASSUME Kinds \subseteq Locking, FreshInv, IndInv', [Next]_vars,
           \A p \in Procs : ~ParseFile(p) /\ ~CommitFile(p) /\ ~Sweep(p) /\ ~Swap(p)
    PROVE  live' = live /\ db'[live].rows = db[live].rows
<1>1. IndInv /\ live \in Inodes
  BY DEF FreshInv, IndInv, TypeOK
<1>2. ASSUME db' = Reclaimed, live' = live
      PROVE  db'[live].rows = db[live].rows
  BY <1>1, <1>2 DEF Reclaimed, Open
<1>3. ASSUME NEW p \in Procs, Start(p)
      PROVE  live' = live /\ db'[live].rows = db[live].rows
  BY <1>1, <1>3, NoUnlocked, OpenSlot DEF Start
<1>4. ASSUME NEW p \in Procs, Step(p)
      PROVE  live' = live /\ db'[live].rows = db[live].rows
  <2>1. CASE Busy(p) \/ Answer(p) \/ WriteReport(p)
    BY <1>2, <2>1 DEF Busy, Answer, WriteReport
  <2>2. CASE LockForUpdate(p)
    BY <2>2 DEF LockForUpdate
  <2>3. CASE LockForRebuild(p)
    <3>1. PICK tmp \in Inodes :
             /\ ~Open(tmp)
             /\ db' = [Reclaimed EXCEPT ![tmp] = InitSchema(Blank, run[p].model)]
      BY <2>3 DEF LockForRebuild
    <3>2. live' = live
      BY <2>3 DEF LockForRebuild
    <3>3. db'[live] = Reclaimed[live]
      BY <1>1, <3>1 DEF Reclaimed, Open
    <3> QED BY <1>1, <3>2, <3>3 DEF Reclaimed, Open
  <2>4. CASE HashFile(p)
    BY <1>2, <2>4 DEF HashFile, Abort
  <2> QED BY <1>1, <1>4, <2>1, <2>2, <2>3, <2>4, NoUnlocked DEF Step
<1>5. ASSUME NEW p \in Procs, Fault(p)
      PROVE  live' = live /\ db'[live].rows = db[live].rows
  BY <1>2, <1>5 DEF Fault, FailEmbedding, Kill, Abort
<1>6. CASE \E f \in Files, c \in Contents \union {Absent} : Edit(f, c)
  BY <1>6 DEF Edit
<1>7. CASE UNCHANGED vars
  BY <1>7 DEF vars
<1> QED BY <1>3, <1>4, <1>5, <1>6, <1>7 DEF Next

\* An entry of the live index that follows the disk goes on doing so, as long as
\* the file stays untouched: an update writes what it has read, and a rebuild
\* publishes what it has walked (Indexer.update, Indexer.rebuild).
LEMMA EntryStays ==
    ASSUME Kinds \subseteq Locking, FreshInv, IndInv', [Next]_vars,
           NEW f \in Files, Tracks(db[live], f), disk'[f] = disk[f],
           \A p \in Procs : lock = p /\ run[p].phase # "report" => f \in run[p].quiet
    PROVE  Tracks(db[live], f)'
<1>1. IndInv /\ live \in Inodes
  BY DEF FreshInv, IndInv, TypeOK
<1>2. CASE live' = live /\ db'[live].rows[f] = db[live].rows[f]
  BY <1>2 DEF Tracks
<1>3. ASSUME NEW p \in Procs, ParseFile(p) \/ CommitFile(p) \/ Sweep(p) \/ Swap(p)
      PROVE  f \in run[p].quiet
  BY <1>3 DEF ParseFile, CommitFile, Sweep, Swap, FreshInv, IndInv, LockOK, InHand, Working
<1>4. ASSUME db' = Reclaimed, live' = live
      PROVE  db'[live].rows[f] = db[live].rows[f]
  BY <1>1, <1>4 DEF Reclaimed, Open
<1>5. ASSUME NEW i \in Inodes, NEW g \in Files, live' = live,
             \A j \in Inodes \ {i} : db'[j].rows = db[j].rows,
             \A h \in Files \ {g} : db'[i].rows[h] = db[i].rows[h],
             g = f => Reflects(db[i], g)'
      PROVE  Tracks(db[live], f)'
  <2>1. CASE i = live /\ g = f
    BY <1>5, <2>1 DEF Reflects, Tracks
  <2>2. CASE i # live \/ g # f
    <3>1. db'[live].rows[f] = db[live].rows[f]
      BY <1>1, <1>5, <2>2
    <3> QED BY <1>2, <1>5, <3>1
  <2> QED BY <2>1, <2>2
<1>6. ASSUME NEW p \in Procs, ParseFile(p)
      PROVE  Tracks(db[live], f)'
  <2>1. CASE Abort(p)
    BY <1>2, <1>4, <1>6, <2>1 DEF ParseFile, Abort
  <2>2. CASE ~Abort(p)
    <3>1. PICK g \in Files, i \in Inodes :
             /\ \A j \in Inodes \ {i} : db'[j].rows = db[j].rows
             /\ \A h \in Files \ {g} : db'[i].rows[h] = db[i].rows[h]
             /\ db' = db \/ Reflects(db[i], g)'
      BY <1>6, <2>2, ParseWrites
    <3>2. live' = live
      BY <1>6 DEF ParseFile
    <3>3. CASE db' = db
      BY <1>2, <3>2, <3>3
    <3>4. CASE Reflects(db[i], g)'
      BY <1>5, <3>1, <3>2, <3>4
    <3> QED BY <3>1, <3>3, <3>4
  <2> QED BY <2>1, <2>2
<1>7. ASSUME NEW p \in Procs, CommitFile(p)
      PROVE  Tracks(db[live], f)'
  <2>1. PICK g \in Files, i \in Inodes :
           /\ \A j \in Inodes \ {i} : db'[j].rows = db[j].rows
           /\ \A h \in Files \ {g} : db'[i].rows[h] = db[i].rows[h]
           /\ g \in run[p].quiet => Reflects(db[i], g)'
    BY <1>7, CommitWrites
  <2>2. live' = live
    BY <1>7 DEF CommitFile
  <2>3. g = f => Reflects(db[i], g)'
    BY <1>3, <1>7, <2>1
  <2> QED BY <1>5, <2>1, <2>2, <2>3
<1>8. ASSUME NEW p \in Procs, Sweep(p)
      PROVE  Tracks(db[live], f)'
  <2>1. live' = live
    BY <1>8 DEF Sweep
  <2>2. CASE db' = db
    BY <1>2, <2>1, <2>2
  <2>3. CASE db' # db
    <3>1. PICK g \in run[p].gone, i \in Inodes :
             /\ g \in Files
             /\ \A j \in Inodes \ {i} : db'[j].rows = db[j].rows
             /\ \A h \in Files \ {g} : db'[i].rows[h] = db[i].rows[h]
             /\ g \in run[p].quiet => Reflects(db[i], g)'
      BY <1>8, <2>3, SweepWrites
    <3>2. g = f => Reflects(db[i], g)'
      BY <1>3, <1>8, <3>1
    <3> QED BY <1>5, <2>1, <3>1, <3>2
  <2> QED BY <2>2, <2>3
<1>9. ASSUME NEW p \in Procs, Swap(p)
      PROVE  Tracks(db[live], f)'
  <2>1. CASE live' = live /\ Abort(p)
    BY <1>2, <1>4, <2>1 DEF Abort
  <2>2. CASE live' = run[p].tmp /\ db' = Reclaimed
    <3>1. /\ run[p].tmp \in Inodes /\ Filled(p) /\ Rebuilding(p) /\ run[p].todo = {}
      BY <1>9 DEF Swap, Rebuilding, FreshInv, IndInv, TypeOK, Runs
    <3>2. Reflects(db[run[p].tmp], f)
      BY <1>3, <1>9, <3>1 DEF Filled
    <3>3. db'[live'] = db[run[p].tmp]
      BY <2>2, <3>1 DEF Reclaimed, Open
    <3> QED BY <3>2, <3>3 DEF Reflects, Tracks
  <2> QED BY <1>9, <2>1, <2>2 DEF Swap
<1>10. CASE \A p \in Procs : ~ParseFile(p) /\ ~CommitFile(p) /\ ~Sweep(p) /\ ~Swap(p)
  BY <1>2, <1>10, LiveStays
<1> QED BY <1>6, <1>7, <1>8, <1>9, <1>10

\* No step of a command takes an up-to-date entry of the live index back, as long
\* as the file stays untouched and only rebuild, update and search write the index
\* (index_write_lock).
THEOREM NoEntryGoesBack ==
    ASSUME Kinds \subseteq Locking
    PROVE  Spec => NeverBackwards
<1>1. FreshInv /\ IndInv' /\ [Next]_vars =>
        [\A f \in Files :
           /\ Tracks(db[live], f) /\ disk'[f] = disk[f]
           /\ \A p \in Procs : lock = p /\ run[p].phase # "report" => f \in run[p].quiet
           => Tracks(db[live], f)']_vars
  BY EntryStays
<1>2. FreshInv => IndInv
  BY DEF FreshInv
<1> QED BY <1>1, <1>2, Freshness, PTL DEF Spec, NeverBackwards

=============================================================================
