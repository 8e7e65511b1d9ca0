-------------------------- MODULE MemoryIndexProofs --------------------------
(***************************************************************************)
(* CuratedIndex implements MemoryIndex, for every set of files, contents,  *)
(* models and processes, whichever commands run, any number of edits and   *)
(* any number of kills.                                                    *)
(*                                                                         *)
(* The invariant behind the refinement relates what a walk has in hand,    *)
(* what it plans to remove and what it has put into its own database to    *)
(* what the files have held since it began, and says that a rebuild that   *)
(* reports has its own database for the live one.  It is needed because a  *)
(* file is hashed, parsed and committed, or listed and swept away, or      *)
(* indexed and published, many steps apart.                                *)
(***************************************************************************)
EXTENDS CuratedIndexFreshness, CuratedIndexHistory

\* The history covers a walk from its beginning.
Recorded(p) ==
    IF run[p].phase \in Walking THEN \A f \in Files : disk[f] \in seen[p][f]
    ELSE seen[p] = Nothing

\* What a walk has in hand, plans to remove or has put into its own database follows
\* from what the files held meanwhile.
Noted(p) ==
    /\ run[p].phase \in {"parse", "commit"} => run[p].hash \in seen[p][run[p].file]
    /\ run[p].phase = "commit" => run[p].text \in seen[p][run[p].file]
    /\ run[p].phase \in OnWalk =>
          \A f \in run[p].gone : f \in Outside \/ Absent \in seen[p][f]
    /\ Rebuilding(p) =>
          \A f \in Files \ run[p].todo : Promise!Justified(p, f, db[run[p].tmp].rows[f])
    /\ run[p].phase = "report" /\ run[p].kind \in {"rebuild", "search"} => run[p].att = live

HistoryInv ==
    /\ FreshInv
    /\ seen \in [Procs -> [Files -> SUBSET (Contents \union {Absent})]]
    /\ \A p \in Procs : Recorded(p) /\ Noted(p)

\* The types that the steps need.
LEMMA HistoryTyped ==
    ASSUME HistoryInv, NEW p \in Procs
    PROVE  /\ run \in [Procs -> Runs] /\ run[p] \in Runs
           /\ db \in [Inodes -> Databases] /\ live \in Inodes
           /\ disk \in [Files -> Contents \union {Absent}]
           /\ seen[p] \in [Files -> SUBSET (Contents \union {Absent})]
           /\ IndInv /\ InHand(p) /\ LockOK(p) /\ TempOK(p) /\ Fresh(p) /\ Filled(p)
           /\ Recorded(p) /\ Noted(p)
BY DEF HistoryInv, FreshInv, IndInv, TypeOK

\* The history goes on covering every walk.
LEMMA RecordKeeps ==
    ASSUME HistoryInv, Record, TypeOK'
    PROVE  /\ seen' \in [Procs -> [Files -> SUBSET (Contents \union {Absent})]]
           /\ \A p \in Procs : Recorded(p)'
           /\ \A p \in Procs : run'[p].phase \in Walking =>
                 \A f \in Files : /\ seen[p][f] \subseteq seen'[p][f]
                                  /\ disk'[f] \in seen'[p][f]
<1>1. disk' \in [Files -> Contents \union {Absent}]
  BY DEF TypeOK
<1>2. ASSUME NEW p \in Procs
      PROVE  /\ seen'[p] \in [Files -> SUBSET (Contents \union {Absent})]
             /\ seen'[p] = IF run'[p].phase \notin Walking THEN Nothing
                           ELSE [f \in Files |-> seen[p][f] \union {disk'[f]}]
  <2>1. seen'[p] = IF run'[p].phase \notin Walking THEN Nothing
                   ELSE [f \in Files |-> seen[p][f] \union {disk'[f]}]
    BY DEF Record
  <2>2. seen[p] \in [Files -> SUBSET (Contents \union {Absent})]
    BY DEF HistoryInv
  <2> QED BY <1>1, <2>1, <2>2 DEF Nothing
<1>3. \A p \in Procs : Recorded(p)'
  BY <1>2 DEF Recorded
<1>4. seen' \in [Procs -> [Files -> SUBSET (Contents \union {Absent})]]
  BY <1>2 DEF Record
<1> QED BY <1>2, <1>3, <1>4

\* While the files stay as they are, a history changes only when a walk begins or ends.
LEMMA RecordStays ==
    ASSUME HistoryInv, Record, disk' = disk, NEW p \in Procs,
           run'[p].phase \in Walking <=> run[p].phase \in Walking
    PROVE  seen'[p] = seen[p]
<1>1. /\ seen'[p] = IF run'[p].phase \notin Walking THEN Nothing
                    ELSE [f \in Files |-> seen[p][f] \union {disk[f]}]
      /\ Recorded(p) /\ seen[p] \in [Files -> SUBSET (Contents \union {Absent})]
  BY DEF Record, HistoryInv
<1>2. CASE run[p].phase \notin Walking
  BY <1>1, <1>2 DEF Recorded
<1>3. CASE run[p].phase \in Walking
  <2>1. \A f \in Files : seen[p][f] \union {disk[f]} = seen[p][f]
    BY <1>1, <1>3 DEF Recorded
  <2> QED BY <1>1, <1>3, <2>1
<1> QED BY <1>2, <1>3

\* What was justified stays so, as a history only grows.
LEMMA JustifiedStays ==
    ASSUME HistoryInv, Record, TypeOK', NEW p \in Procs, run'[p].phase \in Walking,
           NEW f \in Files, NEW e, Promise!Justified(p, f, e)
    PROVE  Promise!Justified(p, f, e)'
<1>1. seen[p][f] \subseteq seen'[p][f]
  BY RecordKeeps
<1> QED BY <1>1 DEF Promise!Justified

-----------------------------------------------------------------------------
(* A step of one slot *)

\* All that Noted reads of a slot.
SameWalk(q) ==
    /\ run'[q].phase = run[q].phase /\ run'[q].kind = run[q].kind
    /\ run'[q].att = run[q].att /\ run'[q].tmp = run[q].tmp
    /\ run'[q].todo = run[q].todo /\ run'[q].gone = run[q].gone
    /\ run'[q].file = run[q].file /\ run'[q].hash = run[q].hash
    /\ run'[q].text = run[q].text

\* A walk that rests knows what it knew.
LEMMA RestingNoted ==
    ASSUME HistoryInv, Record, TypeOK', NEW q \in Procs, SameWalk(q),
           Rebuilding(q) => db'[run[q].tmp].rows = db[run[q].tmp].rows,
           run[q].phase = "report" /\ run[q].kind \in {"rebuild", "search"} => live' = live
    PROVE  Noted(q)'
<1>1. /\ Noted(q) /\ InHand(q) /\ LockOK(q) /\ run[q] \in Runs
  BY HistoryTyped
<1>2. run[q].phase \in Walking => \A f \in Files : seen[q][f] \subseteq seen'[q][f]
  BY RecordKeeps DEF SameWalk
<1>3. run[q].phase \in {"parse", "commit"} => run[q].file \in Files
  BY <1>1 DEF InHand
<1>4. /\ run'[q].phase \in {"parse", "commit"} => run'[q].hash \in seen'[q][run'[q].file]
      /\ run'[q].phase = "commit" => run'[q].text \in seen'[q][run'[q].file]
  BY <1>1, <1>2, <1>3 DEF Noted, SameWalk, Walking
<1>5. run'[q].phase \in OnWalk =>
         \A f \in run'[q].gone : f \in Outside \/ Absent \in seen'[q][f]
  BY <1>1, <1>2 DEF Noted, SameWalk, Walking, OnWalk, Runs
<1>6. ASSUME Rebuilding(q)', NEW f \in Files \ run'[q].todo
      PROVE  Promise!Justified(q, f, db[run[q].tmp].rows[f])'
  <2>1. /\ Rebuilding(q) /\ f \in Files \ run[q].todo
        /\ (run[q].tmp)' = run[q].tmp /\ run'[q].phase \in Walking
    BY <1>1, <1>6 DEF SameWalk, Rebuilding, LockOK, Working, Walking
  <2>2. PICK e : e = db[run[q].tmp].rows[f]
    OBVIOUS
  <2>3. Promise!Justified(q, f, e)
    BY <1>1, <2>1, <2>2 DEF Noted
  <2>4. Promise!Justified(q, f, e)'
    BY <2>1, <2>3, JustifiedStays
  <2>5. (db[run[q].tmp].rows[f])' = e
    BY <2>1, <2>2
  <2> QED BY <2>4, <2>5 DEF Promise!Justified
<1>7. run'[q].phase = "report" /\ run'[q].kind \in {"rebuild", "search"} => run'[q].att = live'
  BY <1>1 DEF Noted, SameWalk
<1> QED BY <1>4, <1>5, <1>6, <1>7 DEF Noted

\* A step of slot p that leaves the temp database of a rebuild alone keeps what the
\* others know.
LEMMA OthersNoted ==
    ASSUME HistoryInv, FreshInv', Record, NEW p \in Procs,
           \A q \in Procs \ {p} : run'[q] = run[q],
           \A q \in Procs \ {p} : Rebuilding(q) =>
               db'[run[q].tmp].rows = db[run[q].tmp].rows,
           live' = live \/ Rebuilding(p),
           Noted(p)'
    PROVE  HistoryInv'
<1>1. TypeOK'
  BY DEF FreshInv, IndInv
<1>2. ASSUME NEW q \in Procs \ {p}
      PROVE  Noted(q)'
  <2>1. run[q].phase = "report" /\ run[q].kind \in {"rebuild", "search"} => live' = live
    BY HistoryTyped DEF LockOK, Working, Locking
  <2> QED BY <1>1, <2>1, RestingNoted DEF SameWalk
<1> QED BY <1>1, <1>2, RecordKeeps DEF HistoryInv

\* A command that is not on a walk, or no longer.
LEMMA OffWalkNoted ==
    ASSUME NEW p \in Procs, run'[p].phase \notin Walking, run'[p].tmp = None
    PROVE  Noted(p)'
BY DEF Noted, Walking, OnWalk, Rebuilding

-----------------------------------------------------------------------------
(* Commands that begin and end *)

\* The commands that end, open the index or refuse to work.
LEMMA LeavingNoted ==
    ASSUME HistoryInv, FreshInv', Record, NEW p \in Procs, live' = live,
           \/ Exit(p) /\ db' = Reclaimed
           \/ \E m \in Models : OpenForUpdate(p, m) \/ OpenForRebuild(p, m) \/ OpenForSearch(p, m)
           \/ \E m \in Models, f \in Files \ Outside : OpenForCapture(p, m, f)
           \/ OpenForReindex(p)
    PROVE  HistoryInv'
<1>1. run \in [Procs -> Runs] /\ IndInv /\ IndInv'
  BY HistoryTyped DEF HistoryInv, FreshInv
<1>2. CASE Exit(p) /\ db' = Reclaimed
  <2>1. run'[p] = IdleRun /\ \A q \in Procs \ {p} : run'[q] = run[q]
    BY <1>1, <1>2 DEF Exit
  <2>2. Kept(p)
    BY <1>1, <1>2, <2>1, ReclaimedKeeps
  <2>3. run'[p].phase \notin Walking /\ run'[p].tmp = None
    BY <2>1 DEF IdleRun, Walking
  <2>4. \A q \in Procs \ {p} : Rebuilding(q) => run[q].tmp \in Inodes
    BY <1>1 DEF Rebuilding, Runs
  <2> QED BY <2>1, <2>2, <2>3, <2>4, OffWalkNoted, OthersNoted DEF Kept
<1>3. CASE \/ \E m \in Models : \/ OpenForUpdate(p, m) \/ OpenForRebuild(p, m)
                                \/ OpenForSearch(p, m)
           \/ \E m \in Models, f \in Files \ Outside : OpenForCapture(p, m, f)
           \/ OpenForReindex(p)
  <2>1. PICK r \in Runs :
           /\ run' = [run EXCEPT ![p] = r] /\ r.tmp = None
           /\ r.phase \in {"open", "waiting", "query", "draft", "edited"}
    BY <1>1, <1>3, OpenSlot
  <2>2. \A i \in Inodes : db'[i].rows = db[i].rows
    BY <1>1, <1>3, OpenSlot
  <2>3. run'[p] = r /\ \A q \in Procs \ {p} : run'[q] = run[q]
    BY <1>1, <2>1
  <2>4. \A q \in Procs \ {p} : Rebuilding(q) => run[q].tmp \in Inodes
    BY <1>1 DEF Rebuilding, Runs
  <2>5. run'[p].phase \notin Walking /\ run'[p].tmp = None
    BY <2>1, <2>3 DEF Walking
  <2> QED BY <2>2, <2>3, <2>4, <2>5, OffWalkNoted, OthersNoted
<1> QED BY <1>2, <1>3

\* A memory file changes, by the hand of a command that does not walk or from outside.
LEMMA TouchNoted ==
    ASSUME HistoryInv, FreshInv', Record, NEW f \in Files, NEW c, NEW r \in [Procs -> Runs],
           Touch(f, c, r), UNCHANGED <<db, live>>,
           \A q \in Procs : \/ r[q] = run[q]
                            \/ r[q].phase \in {"rewritten", "edited"} /\ r[q].tmp = None
    PROVE  HistoryInv'
<1>1. TypeOK'
  BY DEF FreshInv, IndInv
<1>2. ASSUME NEW q \in Procs
      PROVE  Noted(q)'
  <2>1. r[q] \in Runs /\ run'[q] = [r[q] EXCEPT !.quiet = @ \ {f}]
    BY DEF Touch
  <2>2. CASE r[q] = run[q]
    <3>1. SameWalk(q)
      BY <2>1, <2>2 DEF Runs, SameWalk
    <3> QED BY <1>1, <3>1, RestingNoted
  <2>3. CASE r[q].phase \in {"rewritten", "edited"} /\ r[q].tmp = None
    <3>1. run'[q].phase = r[q].phase /\ run'[q].tmp = r[q].tmp
      BY <2>1 DEF Runs
    <3> QED BY <2>3, <3>1, OffWalkNoted DEF Walking
  <2> QED BY <2>2, <2>3
<1> QED BY <1>1, <1>2, RecordKeeps DEF HistoryInv

-----------------------------------------------------------------------------
(* The walk *)

\* A walk begins, and plans to remove what it did not find.
LEMMA BeginNoted ==
    ASSUME HistoryInv, FreshInv', Record, NEW p \in Procs,
           LockForUpdate(p) \/ UpdateUnlocked(p)
    PROVE  HistoryInv'
<1> DEFINE rows == db[run[p].att].rows
           snap == [f \in Files |-> IF rows[f] = None THEN None ELSE rows[f].hash]
           gone == {f \in Files \ Listed : rows[f] # None}
           r == [run[p] EXCEPT !.phase = "walk", !.snap = snap, !.todo = Listed,
                               !.gone = gone, !.quiet = Files]
<1>1. /\ run \in [Procs -> Runs] /\ run[p] \in Runs /\ InHand(p) /\ LockOK(p)
      /\ disk' = disk /\ db' = db /\ live' = live /\ run' = [run EXCEPT ![p] = r]
      /\ run[p].phase \in {"open", "edited"}
  BY HistoryTyped DEF LockForUpdate, UpdateUnlocked, BeginWalk
<1>2. run[p].tmp = None
  BY <1>1 DEF LockOK, Rebuilding, Working
<1>3. gone \subseteq Files \ Listed
  OBVIOUS
<1> HIDE DEF rows, snap, gone
<1>4. r.phase = "walk" /\ r.gone = gone /\ r.tmp = None
  BY <1>1, <1>2 DEF Runs
<1> HIDE DEF r
<1>5. run'[p] = r /\ \A q \in Procs \ {p} : run'[q] = run[q]
  BY <1>1
<1>6. \A f \in Files : disk'[f] \in seen'[p][f]
  BY <1>4, <1>5, RecordKeeps DEF Walking, FreshInv, IndInv
<1>7. Noted(p)'
  BY <1>1, <1>3, <1>4, <1>5, <1>6, ListedFiles DEF Noted, Rebuilding
<1> QED BY <1>1, <1>5, <1>7, OthersNoted

\* The walk of a rebuild begins with an empty database.
LEMMA BeginRebuildNoted ==
    ASSUME HistoryInv, FreshInv', Record, NEW p \in Procs, LockForRebuild(p)
    PROVE  HistoryInv'
<1> USE ConstantsAssumption
<1>1. PICK tmp \in Inodes :
         /\ ~Open(tmp)
         /\ run' = [run EXCEPT ![p] = [@ EXCEPT !.phase = "walk", !.tmp = tmp,
                                              !.todo = Listed, !.quiet = Files]]
         /\ db' = [Reclaimed EXCEPT ![tmp] = InitSchema(Blank, run[p].model)]
  BY DEF LockForRebuild
<1> DEFINE r == [run[p] EXCEPT !.phase = "walk", !.tmp = tmp, !.todo = Listed, !.quiet = Files]
<1>2. /\ run \in [Procs -> Runs] /\ run[p] \in Runs /\ Filled(p) /\ disk' = disk
      /\ live' = live
      /\ run[p].phase = "waiting" \/ (run[p].phase = "open" /\ run[p].kind = "search")
  BY HistoryTyped DEF LockForRebuild
<1>3. run' = [run EXCEPT ![p] = r]
  BY <1>1, <1>2
<1>4. run[p].gone = {}
  BY <1>2 DEF Filled
<1>5. r.phase = "walk" /\ r.todo = Listed /\ r.gone = {} /\ r.tmp = tmp
  BY <1>2, <1>4 DEF Runs
<1> HIDE DEF r
<1>6. run'[p] = r /\ \A q \in Procs \ {p} : run'[q] = run[q]
  BY <1>2, <1>3
<1>7. \A f \in Files : db'[tmp].rows[f] = None
  BY <1>1, InitSchemaRows DEF Reclaimed, Blank
<1>8. \A f \in Files : disk'[f] \in seen'[p][f]
  BY <1>5, <1>6, RecordKeeps DEF Walking, FreshInv, IndInv
<1>9. ASSUME NEW f \in Files \ Listed
      PROVE  Promise!Justified(p, f, db[run[p].tmp].rows[f])'
  <2>1. (db[run[p].tmp].rows[f])' = None
    BY <1>5, <1>6, <1>7
  <2> QED BY <1>2, <1>8, <1>9, <2>1, ListedFiles DEF Promise!Justified
<1>10. Noted(p)'
  BY <1>5, <1>6, <1>9 DEF Noted
<1>11. ASSUME NEW q \in Procs \ {p}, Rebuilding(q)
       PROVE  db'[run[q].tmp].rows = db[run[q].tmp].rows
  <2>1. run[q].tmp \in Inodes /\ Open(run[q].tmp)
    BY <1>2, <1>11 DEF Rebuilding, Runs, Open
  <2>2. Open(run[q].tmp)'
    BY <1>6 DEF Open
  <2> QED BY <1>1, <2>1, <2>2 DEF Reclaimed
<1> QED BY <1>2, <1>6, <1>10, <1>11, OthersNoted

\* What a rebuild has put into its database stays justified.
LEMMA PassedNoted ==
    ASSUME HistoryInv, FreshInv', Record, NEW p \in Procs, Rebuilding(p),
           run'[p].phase \in Walking, run'[p].tmp = run[p].tmp,
           NEW f \in Files \ run[p].todo,
           db'[run[p].tmp].rows[f] = db[run[p].tmp].rows[f]
    PROVE  Promise!Justified(p, f, db[run[p].tmp].rows[f])'
<1>1. PICK e : e = db[run[p].tmp].rows[f]
  OBVIOUS
<1>2. Promise!Justified(p, f, e)
  BY <1>1, HistoryTyped DEF Noted
<1>3. Promise!Justified(p, f, e)'
  BY <1>2, JustifiedStays DEF FreshInv, IndInv
<1>4. (db[run[p].tmp].rows[f])' = e
  BY <1>1
<1> QED BY <1>3, <1>4 DEF Promise!Justified

\* The store that a command writes to is not another's temp database.
LEMMA WritesApart ==
    ASSUME HistoryInv, NEW p \in Procs, NEW q \in Procs \ {p}, Rebuilding(q)
    PROVE  Target(p) # run[q].tmp /\ run[q].tmp \in Inodes
BY HistoryTyped DEF Target, LockOK, TempOK, Rebuilding, Runs

\* What a walk plans to remove it still has reason to remove.
LEMMA GoneNoted ==
    ASSUME HistoryInv, FreshInv', Record, NEW p \in Procs, run[p].phase \in OnWalk,
           run'[p].phase \in Walking, NEW f \in run[p].gone
    PROVE  f \in Outside \/ Absent \in seen'[p][f]
<1>1. f \in Files /\ (f \in Outside \/ Absent \in seen[p][f])
  BY HistoryTyped DEF Noted, Runs
<1> QED BY <1>1, RecordKeeps DEF FreshInv, IndInv

\* A file is hashed.
LEMMA HashNoted ==
    ASSUME HistoryInv, FreshInv', Record, NEW p \in Procs, HashFile(p)
    PROVE  HistoryInv'
<1> USE ConstantsAssumption
<1>1. /\ run[p].phase = "walk" /\ run[p] \in Runs /\ run \in [Procs -> Runs] /\ disk' = disk
      /\ Fresh(p) /\ Filled(p) /\ disk \in [Files -> Contents \union {Absent}] /\ live' = live
  BY HistoryTyped DEF HashFile
<1>2. PICK f \in run[p].todo :
         \/ Abort(p)
         \/ /\ disk[f] # Absent /\ run[p].snap[f] = disk[f]
            /\ run' = [run EXCEPT ![p].todo = @ \ {f}]
            /\ db' = db
         \/ /\ run' = [run EXCEPT ![p].phase = "parse", ![p].file = f, ![p].hash = disk[f]]
            /\ db' = db
  BY DEF HashFile
<1>3. f \in Files
  BY <1>1 DEF Runs
<1>4. CASE Abort(p)
  BY <1>1, <1>4, LeavingNoted DEF Abort
<1>5. CASE /\ disk[f] # Absent /\ run[p].snap[f] = disk[f]
           /\ run' = [run EXCEPT ![p].todo = @ \ {f}] /\ db' = db
  <2> DEFINE r == [run[p] EXCEPT !.todo = @ \ {f}]
  <2>1. run'[p] = r /\ \A q \in Procs \ {p} : run'[q] = run[q]
    BY <1>1, <1>5
  <2>2. r.phase = "walk" /\ r.gone = run[p].gone /\ r.tmp = run[p].tmp
    BY <1>1 DEF Runs
  <2> HIDE DEF r
  <2>3. ~Rebuilding(p)
    BY <1>1, <1>3, <1>5 DEF Filled
  <2>4. Noted(p)'
    BY <1>1, <2>1, <2>2, <2>3, GoneNoted DEF Noted, Rebuilding, Walking, OnWalk
  <2> QED BY <1>1, <1>5, <2>1, <2>4, OthersNoted
<1>6. CASE /\ run' = [run EXCEPT ![p].phase = "parse", ![p].file = f, ![p].hash = disk[f]]
           /\ db' = db
  <2> DEFINE r == [run[p] EXCEPT !.phase = "parse", !.file = f, !.hash = disk[f]]
  <2>1. run'[p] = r /\ \A q \in Procs \ {p} : run'[q] = run[q]
    BY <1>1, <1>6
  <2>2. /\ r.phase = "parse" /\ r.todo = run[p].todo /\ r.gone = run[p].gone
        /\ r.tmp = run[p].tmp /\ r.file = f /\ r.hash = disk[f]
    BY <1>1 DEF Runs
  <2> HIDE DEF r
  <2>3. disk[f] \in seen'[p][f]
    BY <1>1, <1>3, <2>1, <2>2, RecordKeeps DEF Walking, FreshInv, IndInv
  <2>4. \A g \in run[p].gone : g \in Outside \/ Absent \in seen'[p][g]
    BY <1>1, <2>1, <2>2, GoneNoted DEF Walking, OnWalk
  <2>5. ASSUME Rebuilding(p), NEW g \in Files \ run[p].todo
        PROVE  Promise!Justified(p, g, db[run[p].tmp].rows[g])'
    BY <1>6, <2>1, <2>2, <2>5, PassedNoted DEF Walking
  <2>6. (run[p].tmp)' = run[p].tmp
    BY <2>1, <2>2
  <2>7. Noted(p)'
    BY <2>1, <2>2, <2>3, <2>4, <2>5, <2>6 DEF Noted, Rebuilding
  <2> QED BY <1>1, <1>6, <2>1, <2>7, OthersNoted
<1> QED BY <1>2, <1>4, <1>5, <1>6

\* The file in hand is parsed; one that does not validate is justly absent.
LEMMA ParseNoted ==
    ASSUME HistoryInv, FreshInv', Record, NEW p \in Procs, ParseFile(p)
    PROVE  HistoryInv'
<1> USE ConstantsAssumption
<1>1. /\ run[p].phase = "parse" /\ run[p] \in Runs /\ run \in [Procs -> Runs] /\ disk' = disk
      /\ Fresh(p) /\ Filled(p) /\ InHand(p) /\ db \in [Inodes -> Databases] /\ live' = live
      /\ Noted(p)
  BY HistoryTyped DEF ParseFile
<1>2. PICK f \in Files : f = run[p].file /\ f \in run[p].todo
  BY <1>1 DEF InHand, Fresh, OnWalk
<1>3. CASE Abort(p)
  BY <1>1, <1>3, LeavingNoted DEF Abort
<1>4. CASE /\ disk[f] \in Invalid
           /\ run' = [run EXCEPT ![p] = FileDone(p)]
           /\ db' = IF run[p].snap[f] = None THEN db
                    ELSE [db EXCEPT ![run[p].att] = DeleteFile(@, f)]
  <2> DEFINE r == FileDone(p)
  <2>1. run'[p] = r /\ \A q \in Procs \ {p} : run'[q] = run[q]
    BY <1>1, <1>4
  <2>2. /\ r.phase = "walk" /\ r.todo = run[p].todo \ {f} /\ r.gone = run[p].gone
        /\ r.tmp = run[p].tmp
    BY <1>1, <1>2 DEF Runs, FileDone
  <2> HIDE DEF r
  <2>3. (run[p].tmp)' = run[p].tmp /\ run'[p].phase \in Walking
    BY <2>1, <2>2 DEF Walking
  <2>4. \A g \in run[p].gone : g \in Outside \/ Absent \in seen'[p][g]
    BY <1>1, <2>3, GoneNoted DEF OnWalk
  <2>5. disk[f] \in seen'[p][f]
    BY <1>1, <2>3, RecordKeeps DEF FreshInv, IndInv
  <2>6. ASSUME Rebuilding(p), NEW g \in Files \ (run[p].todo \ {f})
        PROVE  Promise!Justified(p, g, db[run[p].tmp].rows[g])'
    <3>1. db' = db
      BY <1>1, <1>2, <1>4, <2>6 DEF Filled
    <3>2. CASE g = f
      <4>1. (db[run[p].tmp].rows[g])' = None
        BY <1>1, <1>2, <2>3, <2>6, <3>1, <3>2 DEF Filled
      <4> QED BY <1>4, <2>5, <3>2, <4>1 DEF Promise!Justified
    <3>3. CASE g # f
      BY <2>3, <2>6, <3>1, <3>3, PassedNoted
    <3> QED BY <3>2, <3>3
  <2>7. Noted(p)'
    BY <2>1, <2>2, <2>3, <2>4, <2>6 DEF Noted, Rebuilding
  <2>8. ASSUME NEW q \in Procs \ {p}, Rebuilding(q)
        PROVE  db'[run[q].tmp].rows = db[run[q].tmp].rows
    <3>1. run[q].tmp \in Inodes /\ run[p].att # run[q].tmp
      BY <2>8, HistoryTyped, WritesApart DEF TempOK
    <3> QED BY <1>1, <1>4, <3>1
  <2> QED BY <1>1, <2>1, <2>7, <2>8, OthersNoted
<1>5. CASE /\ db' = db
           /\ run' = [run EXCEPT ![p].phase = "commit", ![p].text = disk[f]]
  <2> DEFINE r == [run[p] EXCEPT !.phase = "commit", !.text = disk[f]]
  <2>1. run'[p] = r /\ \A q \in Procs \ {p} : run'[q] = run[q]
    BY <1>1, <1>5
  <2>2. /\ r.phase = "commit" /\ r.todo = run[p].todo /\ r.gone = run[p].gone
        /\ r.tmp = run[p].tmp /\ r.file = f /\ r.hash = run[p].hash /\ r.text = disk[f]
    BY <1>1, <1>2 DEF Runs
  <2> HIDE DEF r
  <2>3. (run[p].tmp)' = run[p].tmp /\ run'[p].phase \in Walking
    BY <2>1, <2>2 DEF Walking
  <2>4. \A g \in run[p].gone : g \in Outside \/ Absent \in seen'[p][g]
    BY <1>1, <2>3, GoneNoted DEF OnWalk
  <2>5. run[p].hash \in seen[p][f]
    BY <1>1, <1>2 DEF Noted
  <2>6. run[p].hash \in seen'[p][f] /\ disk[f] \in seen'[p][f]
    BY <1>1, <2>3, <2>5, RecordKeeps DEF FreshInv, IndInv
  <2>7. ASSUME Rebuilding(p), NEW g \in Files \ run[p].todo
        PROVE  Promise!Justified(p, g, db[run[p].tmp].rows[g])'
    BY <1>5, <2>3, <2>7, PassedNoted
  <2>8. Noted(p)'
    BY <2>1, <2>2, <2>3, <2>4, <2>6, <2>7 DEF Noted, Rebuilding
  <2> QED BY <1>1, <1>5, <2>1, <2>8, OthersNoted
<1> QED BY <1>2, <1>3, <1>4, <1>5 DEF ParseFile

\* What a command commits follows from the two times that it read the file.
LEMMA CommitJustified ==
    ASSUME HistoryInv, NEW p \in Procs, CommitFile(p)
    PROVE  \E f \in Files, i \in Inodes, row \in [hash: Contents, text: Valid, model: Models] :
             /\ f = run[p].file /\ f \in run[p].todo /\ i = Target(p)
             /\ db'[i].rows = [db[i].rows EXCEPT ![f] = row]
             /\ \A j \in Inodes \ {i} : db'[j].rows = db[j].rows
             /\ Promise!Justified(p, f, row)
<1> USE ConstantsAssumption
<1> DEFINE new == [hash |-> run[p].hash, text |-> run[p].text, model |-> run[p].model]
<1>1. /\ run[p].phase = "commit" /\ run[p] \in Runs
      /\ Fresh(p) /\ InHand(p) /\ db \in [Inodes -> Databases] /\ Noted(p)
  BY HistoryTyped DEF CommitFile
<1>2. PICK f \in Files, i \in Inodes : f = run[p].file /\ f \in run[p].todo /\ i = Target(p)
  BY <1>1 DEF InHand, Fresh, OnWalk, Target, Rebuilding, Runs
<1>3. new \in [hash: Contents, text: Valid, model: Models]
  BY <1>1 DEF InHand
<1>4. db' = [db EXCEPT ![i] = ReplaceFileAndChunks(@, f, new, Stamp(p))]
  BY <1>2 DEF CommitFile
<1>5. /\ new.hash \in seen[p][f] /\ new.text \in seen[p][f] \ Invalid
      /\ f \notin Outside
  BY <1>1, <1>2 DEF Noted, Fresh, OnWalk, InHand, Valid
<1>6. new # None
  BY <1>3 DEF Valid
<1> HIDE DEF new
<1>7. /\ db'[i].rows = [db[i].rows EXCEPT ![f] = new]
      /\ \A j \in Inodes \ {i} : db'[j].rows = db[j].rows
  BY <1>1, <1>4 DEF ReplaceFileAndChunks, Databases
<1>8. Promise!Justified(p, f, new)
  BY <1>5, <1>6 DEF Promise!Justified
<1> QED BY <1>2, <1>3, <1>7, <1>8

\* The file in hand is written.
LEMMA CommitNoted ==
    ASSUME HistoryInv, FreshInv', Record, NEW p \in Procs, CommitFile(p)
    PROVE  HistoryInv'
<1> DEFINE r == FileDone(p)
<1>1. /\ run[p].phase = "commit" /\ run[p] \in Runs /\ run \in [Procs -> Runs]
      /\ run' = [run EXCEPT ![p] = r] /\ live' = live /\ db \in [Inodes -> Databases]
  BY HistoryTyped DEF CommitFile
<1>2. PICK f \in Files, i \in Inodes, row \in [hash: Contents, text: Valid, model: Models] :
         /\ f = run[p].file /\ f \in run[p].todo /\ i = Target(p)
         /\ db'[i].rows = [db[i].rows EXCEPT ![f] = row]
         /\ \A j \in Inodes \ {i} : db'[j].rows = db[j].rows
         /\ Promise!Justified(p, f, row)
  BY CommitJustified
<1>3. run'[p] = r /\ \A q \in Procs \ {p} : run'[q] = run[q]
  BY <1>1
<1>4. /\ r.phase = "walk" /\ r.todo = run[p].todo \ {f} /\ r.gone = run[p].gone
      /\ r.tmp = run[p].tmp
  BY <1>1, <1>2 DEF Runs, FileDone
<1> HIDE DEF r
<1>5. (run[p].tmp)' = run[p].tmp /\ run'[p].phase \in Walking
  BY <1>3, <1>4 DEF Walking
<1>6. \A g \in run[p].gone : g \in Outside \/ Absent \in seen'[p][g]
  BY <1>1, <1>5, GoneNoted DEF OnWalk
<1>7. ASSUME Rebuilding(p), NEW g \in Files \ (run[p].todo \ {f})
      PROVE  Promise!Justified(p, g, db[run[p].tmp].rows[g])'
  <2>1. i = run[p].tmp /\ db[i].rows \in Rows
    BY <1>1, <1>2, <1>7 DEF Target, Databases
  <2>2. CASE g = f
    <3>1. (db[run[p].tmp].rows[g])' = row
      BY <1>2, <1>5, <2>1, <2>2 DEF Rows
    <3>2. Promise!Justified(p, f, row)'
      BY <1>2, <1>5, JustifiedStays DEF FreshInv, IndInv
    <3> QED BY <2>2, <3>1, <3>2 DEF Promise!Justified
  <2>3. CASE g # f
    <3>1. db'[run[p].tmp].rows[g] = db[run[p].tmp].rows[g]
      BY <1>2, <2>1, <2>3 DEF Rows
    <3> QED BY <1>5, <1>7, <2>3, <3>1, PassedNoted
  <2> QED BY <2>2, <2>3
<1>8. Noted(p)'
  BY <1>3, <1>4, <1>5, <1>6, <1>7 DEF Noted, Rebuilding
<1>9. ASSUME NEW q \in Procs \ {p}, Rebuilding(q)
      PROVE  db'[run[q].tmp].rows = db[run[q].tmp].rows
  BY <1>2, <1>9, WritesApart
<1> QED BY <1>1, <1>3, <1>8, <1>9, OthersNoted

\* An update plans to remove ever less, and its walk ends.
LEMMA SweepNoted ==
    ASSUME HistoryInv, FreshInv', Record, NEW p \in Procs, Sweep(p)
    PROVE  HistoryInv'
<1>1. /\ run[p].phase = "walk" /\ ~Rebuilding(p) /\ run[p] \in Runs /\ run \in [Procs -> Runs]
      /\ Filled(p) /\ live' = live
  BY HistoryTyped DEF Sweep
<1>2. run[p].kind \notin {"rebuild", "search"}
  BY <1>1 DEF Filled, OnWalk
<1>3. CASE db' = db /\ run' = [run EXCEPT ![p].phase = "report"]
  <2> DEFINE r == [run[p] EXCEPT !.phase = "report"]
  <2>1. run'[p] = r /\ \A q \in Procs \ {p} : run'[q] = run[q]
    BY <1>1, <1>3
  <2>2. r.phase = "report" /\ r.tmp = run[p].tmp /\ r.kind = run[p].kind
    BY <1>1 DEF Runs
  <2> HIDE DEF r
  <2>3. Noted(p)'
    BY <1>1, <1>2, <2>1, <2>2 DEF Noted, Rebuilding, OnWalk
  <2> QED BY <1>1, <1>3, <2>1, <2>3, OthersNoted
<1>4. ASSUME NEW f \in run[p].gone, run' = [run EXCEPT ![p].gone = @ \ {f}],
             \A j \in Inodes \ {run[p].att} : db'[j].rows = db[j].rows
      PROVE  HistoryInv'
  <2> DEFINE r == [run[p] EXCEPT !.gone = @ \ {f}]
  <2>1. run'[p] = r /\ \A q \in Procs \ {p} : run'[q] = run[q]
    BY <1>1, <1>4
  <2>2. r.phase = "walk" /\ r.gone \subseteq run[p].gone /\ r.tmp = run[p].tmp
    BY <1>1 DEF Runs
  <2> HIDE DEF r
  <2>3. \A g \in r.gone : g \in Outside \/ Absent \in seen'[p][g]
    BY <1>1, <2>1, <2>2, GoneNoted DEF Walking, OnWalk
  <2>4. Noted(p)'
    BY <1>1, <2>1, <2>2, <2>3 DEF Noted, Rebuilding, OnWalk
  <2>5. ASSUME NEW q \in Procs \ {p}, Rebuilding(q)
        PROVE  db'[run[q].tmp].rows = db[run[q].tmp].rows
    BY <1>1, <1>4, <2>5, WritesApart DEF Target
  <2> QED BY <1>1, <2>1, <2>4, <2>5, OthersNoted
<1> QED BY <1>3, <1>4, SweepWrites DEF HistoryInv

\* A rebuild publishes its database, or gives up.
LEMMA SwapNoted ==
    ASSUME HistoryInv, FreshInv', Record, NEW p \in Procs, Swap(p)
    PROVE  HistoryInv'
<1> USE ConstantsAssumption
<1>1. /\ run[p].phase = "walk" /\ Rebuilding(p) /\ run[p] \in Runs /\ run \in [Procs -> Runs]
      /\ IndInv
  BY HistoryTyped DEF Swap
<1>2. CASE Abort(p) /\ live' = live
  BY <1>2, LeavingNoted DEF Abort
<1>3. CASE /\ run' = [run EXCEPT ![p].phase = "report", ![p].att = run[p].tmp, ![p].tmp = None]
           /\ db' = Reclaimed /\ live' = run[p].tmp
  <2> DEFINE r == [run[p] EXCEPT !.phase = "report", !.att = run[p].tmp, !.tmp = None]
  <2>1. run'[p] = r /\ \A q \in Procs \ {p} : run'[q] = run[q]
    BY <1>1, <1>3
  <2>2. r.phase = "report" /\ r.tmp = None /\ r.att = run[p].tmp
    BY <1>1 DEF Runs
  <2> HIDE DEF r
  <2>3. Noted(p)'
    BY <1>3, <2>1, <2>2 DEF Noted, Rebuilding, OnWalk
  <2>4. Kept(p)
    BY <1>1, <1>3, <2>1, ReclaimedKeeps
  <2>5. \A q \in Procs \ {p} : Rebuilding(q) => run[q].tmp \in Inodes
    BY <1>1 DEF Rebuilding, Runs
  <2> QED BY <1>1, <2>1, <2>3, <2>4, <2>5, OthersNoted DEF Kept
<1> QED BY <1>2, <1>3 DEF Swap

\* The command ends, or goes on to search.
LEMMA WriteReportNoted ==
    ASSUME HistoryInv, FreshInv', Record, NEW p \in Procs, WriteReport(p)
    PROVE  HistoryInv'
<1>1. /\ run[p].phase = "report" /\ run[p] \in Runs /\ run \in [Procs -> Runs]
      /\ LockOK(p) /\ IndInv /\ db' = Reclaimed /\ live' = live
  BY HistoryTyped DEF WriteReport
<1>2. CASE run[p].kind = "search"
  <2> DEFINE r == [run[p] EXCEPT !.phase = "query", !.quiet = {}]
  <2>1. run' = [run EXCEPT ![p] = r]
    BY <1>1, <1>2 DEF WriteReport
  <2>2. r.phase = "query" /\ r.tmp = None
    BY <1>1 DEF Runs, LockOK, Rebuilding
  <2> HIDE DEF r
  <2>3. run'[p] = r /\ \A q \in Procs \ {p} : run'[q] = run[q]
    BY <1>1, <2>1
  <2>4. Kept(p)
    BY <1>1, <2>3, ReclaimedKeeps
  <2>5. \A q \in Procs \ {p} : Rebuilding(q) => run[q].tmp \in Inodes
    BY <1>1 DEF Rebuilding, Runs
  <2>6. Noted(p)'
    BY <2>2, <2>3, OffWalkNoted DEF Walking
  <2> QED BY <1>1, <2>3, <2>4, <2>5, <2>6, OthersNoted DEF Kept
<1>3. CASE run[p].kind # "search"
  BY <1>1, <1>3, LeavingNoted DEF WriteReport
<1> QED BY <1>2, <1>3

\* Whoever changes a memory file does not walk; all other slots stay as they are.
LEMMA Touches ==
    ASSUME FreshInv,
           \/ \E f \in Files, c \in Contents \union {Absent} : Edit(f, c)
           \/ \E p \in Procs, c \in Valid : WriteCapture(p, c)
           \/ \E p \in Procs, m \in Models, f \in Files, c \in Contents :
                 RewriteFrontmatter(p, m, f, c)
    PROVE  \E f \in Files, c \in Contents \union {Absent}, r \in [Procs -> Runs] :
             /\ Touch(f, c, r) /\ db' = db /\ live' = live
             /\ \A q \in Procs : \/ r[q] = run[q]
                                 \/ /\ run[q].phase \in {"idle", "draft"}
                                    /\ r[q].phase \in {"rewritten", "edited"} /\ r[q].tmp = None
<1> USE ConstantsAssumption
<1>1. run \in [Procs -> Runs]
  BY DEF FreshInv, IndInv, TypeOK
<1>2. CASE \E f \in Files, c \in Contents \union {Absent} : Edit(f, c)
  BY <1>1, <1>2 DEF Edit
<1>3. ASSUME NEW p \in Procs, NEW c \in Valid, WriteCapture(p, c)
      PROVE  \E f \in Files, r \in [Procs -> Runs] :
               /\ Touch(f, c, r) /\ db' = db /\ live' = live
               /\ \A q \in Procs : \/ r[q] = run[q]
                                   \/ /\ run[q].phase \in {"idle", "draft"}
                                      /\ r[q].phase \in {"rewritten", "edited"}
                                      /\ r[q].tmp = None
  <2> DEFINE r == [run EXCEPT ![p].phase = "edited", ![p].file = None]
  <2>1. run[p] \in Runs /\ run[p].phase = "draft" /\ LockOK(p) /\ InHand(p)
    BY <1>1, <1>3 DEF WriteCapture, FreshInv, IndInv
  <2>2. run[p].file \in Files /\ run[p].tmp = None
    BY <2>1 DEF LockOK, InHand, Rebuilding, Working
  <2>3. r[p] = [run[p] EXCEPT !.phase = "edited", !.file = None]
    BY <1>1
  <2>4. Touch(run[p].file, c, r) /\ db' = db /\ live' = live
    BY <1>3 DEF WriteCapture
  <2> HIDE DEF r
  <2>5. r[p] \in Runs /\ r[p].phase = "edited" /\ r[p].tmp = None
    BY <2>1, <2>2, <2>3 DEF Runs, Phases
  <2>6. r \in [Procs -> Runs] /\ \A q \in Procs \ {p} : r[q] = run[q]
    BY <1>1, <2>5 DEF r
  <2> QED BY <2>1, <2>2, <2>4, <2>5, <2>6
<1>4. ASSUME NEW p \in Procs, NEW m \in Models, NEW f \in Files, NEW c \in Contents,
             RewriteFrontmatter(p, m, f, c)
      PROVE  \E r \in [Procs -> Runs] :
               /\ Touch(f, c, r) /\ db' = db /\ live' = live
               /\ \A q \in Procs : \/ r[q] = run[q]
                                   \/ /\ run[q].phase \in {"idle", "draft"}
                                      /\ r[q].phase \in {"rewritten", "edited"}
                                      /\ r[q].tmp = None
  <2> DEFINE n == [IdleRun EXCEPT !.phase = "rewritten", !.kind = "confirm", !.model = m]
             r == [run EXCEPT ![p] = n]
  <2>1. "confirm" \in Kinds /\ run[p].phase = "idle"
    BY <1>4 DEF RewriteFrontmatter, Idle
  <2>2. n.phase = "rewritten" /\ n.tmp = None
    BY DEF IdleRun
  <2>3. n \in Runs
    BY <2>1, IdleRunType DEF Runs, Phases
  <2>4. Touch(f, c, r) /\ db' = db /\ live' = live
    BY <1>4 DEF RewriteFrontmatter
  <2> HIDE DEF n
  <2>5. r[p] = n /\ r \in [Procs -> Runs] /\ \A q \in Procs \ {p} : r[q] = run[q]
    BY <1>1, <2>3
  <2> HIDE DEF r
  <2> QED BY <2>1, <2>2, <2>4, <2>5
<1>5. Valid \subseteq Contents \union {Absent} /\ Contents \subseteq Contents \union {Absent}
  BY DEF Valid
<1>6. CASE \E p \in Procs, c \in Valid : WriteCapture(p, c)
  BY <1>3, <1>5, <1>6
<1>7. CASE \E p \in Procs, m \in Models, f \in Files, c \in Contents :
             RewriteFrontmatter(p, m, f, c)
  BY <1>4, <1>5, <1>7
<1> QED BY <1>2, <1>6, <1>7


-----------------------------------------------------------------------------
(* Every step *)

\* No walk is under way at first.
LEMMA InitHistory == HistoryInit => HistoryInv
<1> SUFFICES ASSUME HistoryInit PROVE HistoryInv
  OBVIOUS
<1>1. FreshInv /\ seen = [p \in Procs |-> Nothing] /\ run = [p \in Procs |-> IdleRun]
  BY InitFresh DEF HistoryInit, Init
<1>2. ASSUME NEW p \in Procs
      PROVE  Recorded(p) /\ Noted(p)
  <2>1. run[p].phase = "idle" /\ run[p].tmp = None /\ seen[p] = Nothing
    BY <1>1 DEF IdleRun
  <2> QED BY <2>1 DEF Recorded, Noted, Walking, OnWalk, Rebuilding
<1>3. seen \in [Procs -> [Files -> SUBSET (Contents \union {Absent})]]
  BY <1>1 DEF Nothing
<1> QED BY <1>1, <1>2, <1>3 DEF HistoryInv

\* Every step keeps what the walks know.
LEMMA NextHistory == HistoryInv /\ [HistoryNext]_historyVars => HistoryInv'
<1> SUFFICES ASSUME HistoryInv, [HistoryNext]_historyVars PROVE HistoryInv'
  OBVIOUS
<1>1. CASE HistoryNext
  <2>1. Record /\ Next /\ FreshInv
    BY <1>1 DEF HistoryNext, HistoryInv
  <2>2. FreshInv'
    BY <2>1, NextFresh
  <2>3. CASE \/ \E f \in Files, c \in Contents \union {Absent} : Edit(f, c)
             \/ \E p \in Procs, c \in Valid : WriteCapture(p, c)
             \/ \E p \in Procs, m \in Models, f \in Files, c \in Contents :
                   RewriteFrontmatter(p, m, f, c)
    <3>1. PICK f \in Files, c \in Contents \union {Absent}, r \in [Procs -> Runs] :
             /\ Touch(f, c, r) /\ db' = db /\ live' = live
             /\ \A q \in Procs : \/ r[q] = run[q]
                                 \/ r[q].phase \in {"rewritten", "edited"} /\ r[q].tmp = None
      BY <2>1, <2>3, Touches
    <3> QED BY <2>1, <2>2, <3>1, TouchNoted
  <2>4. ASSUME NEW p \in Procs, Start(p)
        PROVE  HistoryInv'
    <3>1. CASE \/ \E m \in Models : OpenForUpdate(p, m) \/ OpenForRebuild(p, m) \/ OpenForSearch(p, m)
               \/ \E m \in Models, f \in Files \ Outside : OpenForCapture(p, m, f)
      <4>1. live' = live
        BY <3>1 DEF OpenForUpdate, OpenForRebuild, OpenForSearch, OpenForCapture
      <4> QED BY <2>1, <2>2, <3>1, <4>1, LeavingNoted
    <3> QED BY <2>3, <2>4, <3>1 DEF Start
  <2>5. ASSUME NEW p \in Procs, Step(p)
        PROVE  HistoryInv'
    <3>1. CASE RefuseCapture(p) \/ RefuseReindex(p) \/ Busy(p) \/ Answer(p)
      <4>1. Exit(p) /\ db' = Reclaimed /\ live' = live
        BY <3>1 DEF RefuseCapture, RefuseReindex, Busy, Answer
      <4> QED BY <2>1, <2>2, <4>1, LeavingNoted
    <3>2. CASE OpenForReindex(p)
      <4>1. live' = live
        BY <3>2 DEF OpenForReindex
      <4> QED BY <2>1, <2>2, <3>2, <4>1, LeavingNoted
    <3>3. CASE LockForUpdate(p) \/ UpdateUnlocked(p) \/ LockForRebuild(p)
      BY <2>1, <2>2, <3>3, BeginNoted, BeginRebuildNoted
    <3>4. CASE HashFile(p) \/ ParseFile(p) \/ CommitFile(p)
      BY <2>1, <2>2, <3>4, HashNoted, ParseNoted, CommitNoted
    <3>5. CASE Sweep(p) \/ Swap(p) \/ WriteReport(p)
      BY <2>1, <2>2, <3>5, SweepNoted, SwapNoted, WriteReportNoted
    <3>6. CASE \E c \in Valid : WriteCapture(p, c)
      BY <2>3, <3>6
    <3> QED BY <2>5, <3>1, <3>2, <3>3, <3>4, <3>5, <3>6 DEF Step
  <2>6. ASSUME NEW p \in Procs, Fault(p)
        PROVE  HistoryInv'
    <3>1. Exit(p) /\ db' = Reclaimed /\ live' = live
      BY <2>6 DEF Fault, FailEmbedding, Kill, Abort
    <3> QED BY <2>1, <2>2, <3>1, LeavingNoted
  <2> QED BY <2>1, <2>3, <2>4, <2>5, <2>6 DEF Next
<1>2. CASE UNCHANGED historyVars
  <2>1. disk' = disk /\ db' = db /\ live' = live /\ run' = run /\ seen' = seen /\ vars' = vars
    BY <1>2 DEF historyVars, vars
  <2>2. FreshInv'
    BY <2>1, NextFresh DEF HistoryInv
  <2>3. ASSUME NEW p \in Procs
        PROVE  Recorded(p)' /\ Noted(p)'
    <3>1. Recorded(p) /\ Noted(p)
      BY HistoryTyped
    <3> QED BY <2>1, <3>1 DEF Recorded, Noted, Rebuilding, Promise!Justified
  <2> QED BY <2>1, <2>2, <2>3 DEF HistoryInv
<1> QED BY <1>1, <1>2

\* What the walks know, against the files' history, holds in every reachable state.
THEOREM History == HistorySpec => []HistoryInv
BY InitHistory, NextHistory, PTL DEF HistorySpec

-----------------------------------------------------------------------------
(* Each step as a step of MemoryIndex *)

\* A slot that the step leaves alone keeps its record and what it searches.
LEMMA OthersSeen ==
    ASSUME HistoryInv, Record, NEW p \in Procs, disk' = disk,
           \A q \in Procs \ {p} : run'[q] = run[q]
    PROVE  /\ seen' = [seen EXCEPT ![p] = seen'[p]]
           /\ \A q \in Procs \ {p} : seen'[q] = seen[q]
<1>1. \A q \in Procs \ {p} : seen'[q] = seen[q]
  BY RecordStays
<1>2. seen \in [Procs -> [Files -> SUBSET (Contents \union {Absent})]]
  BY DEF HistoryInv
<1>3. seen' = [q \in Procs |-> seen'[q]]
  BY DEF Record
<1> QED BY <1>1, <1>2, <1>3

\* The databases that other searches read stay as they are.
ReadersKept(p) ==
    \A q \in Procs \ {p} :
        run'[q] = run[q] /\ (run[q].phase = "query" => db'[run[q].att].rows = db[run[q].att].rows)

\* A command lets go of everything: its walk or its search is over.
LEMMA EndStep ==
    ASSUME HistoryInv, Record, NEW p \in Procs, disk' = disk, ReadersKept(p),
           db'[live'].rows = db[live].rows, run'[p].phase \notin Walking \union {"query"}
    PROVE  Promise!End(p)
<1>1. seen' = [seen EXCEPT ![p] = Nothing]
  BY OthersSeen DEF ReadersKept, Record
<1>2. {q \in Procs : run'[q].phase = "query"} = {q \in Procs : run[q].phase = "query"} \ {p}
  BY DEF ReadersKept
<1>3. View' = [q \in {r \in Procs : run[r].phase = "query"} \ {p} |-> db[run[q].att].rows]
  BY <1>2 DEF View, ReadersKept
<1>4. View' = [q \in DOMAIN View \ {p} |-> View[q]]
  BY <1>3 DEF View
<1> QED BY <1>1, <1>4 DEF Promise!End, Promise!Nothing, Nothing

\* A search begins with the live index.
LEMMA SearchStep ==
    ASSUME HistoryInv, Record, NEW p \in Procs, disk' = disk, ReadersKept(p),
           live' = live, db'[live].rows = db[live].rows,
           run'[p].phase = "query", run'[p].att = live
    PROVE  Promise!BeginSearch(p)
<1>1. seen' = [seen EXCEPT ![p] = Nothing]
  BY OthersSeen DEF ReadersKept, Record, Walking
<1>2. {q \in Procs : run'[q].phase = "query"} = {q \in Procs : run[q].phase = "query"} \union {p}
  BY DEF ReadersKept
<1>3. View' = [q \in {r \in Procs : run[r].phase = "query"} \union {p} |->
                  IF q = p THEN db[live].rows ELSE db[run[q].att].rows]
  BY <1>2 DEF View, ReadersKept
<1>4. View' = [q \in DOMAIN View \union {p} |-> IF q = p THEN db[live].rows ELSE View[q]]
  BY <1>3 DEF View
<1> QED BY <1>1, <1>4 DEF Promise!BeginSearch, Promise!Nothing, Nothing

\* Nobody's search changes.
LEMMA ViewStays ==
    ASSUME NEW p \in Procs, ReadersKept(p),
           run[p].phase # "query", run'[p].phase # "query"
    PROVE  View' = View
<1>1. {q \in Procs : run'[q].phase = "query"} = {q \in Procs : run[q].phase = "query"}
  BY DEF ReadersKept
<1> QED BY <1>1 DEF View, ReadersKept

\* A walk begins.
LEMMA WalkStep ==
    ASSUME HistoryInv, Record, NEW p \in Procs, disk' = disk, ReadersKept(p),
           db'[live'].rows = db[live].rows,
           run[p].phase \notin Walking \union {"query"}, run'[p].phase \in Walking
    PROVE  Promise!BeginWalk(p)
<1>1. seen[p] = Nothing
  BY HistoryTyped DEF Recorded
<1>2. seen'[p] = [f \in Files |-> {disk[f]}]
  BY <1>1 DEF Record, Nothing
<1>3. seen' = [seen EXCEPT ![p] = [f \in Files |-> {disk[f]}]]
  BY <1>2, OthersSeen DEF ReadersKept
<1> QED BY <1>3, ViewStays DEF Promise!BeginWalk, Walking

\* A step that neither searches nor reads a row: an index that is looked at, a lock.
LEMMA RestStep ==
    ASSUME HistoryInv, Record, NEW p \in Procs, disk' = disk, ReadersKept(p),
           db'[live'].rows = db[live].rows,
           run[p].phase # "query", run'[p].phase # "query",
           run[p].phase \in Walking <=> run'[p].phase \in Walking
    PROVE  UNCHANGED Promise!vars
<1>1. seen'[p] = seen[p]
  BY RecordStays
<1>2. seen' = seen
  BY <1>1, OthersSeen DEF ReadersKept, HistoryInv
<1> QED BY <1>2, ViewStays DEF Promise!vars

\* A command enters one file into the database it works on, or removes it from there.
LEMMA WriteStep ==
    ASSUME HistoryInv, Record, NEW p \in Procs, disk' = disk, live' = live,
           \A q \in Procs \ {p} : run'[q] = run[q],
           run[p].phase \in Walking, run'[p].phase \in Walking,
           NEW i \in Inodes, NEW f, NEW e, Promise!Justified(p, f, e),
           db'[i].rows = [db[i].rows EXCEPT ![f] = e],
           \A j \in Inodes \ {i} : db'[j].rows = db[j].rows
    PROVE  Promise!Write(p, f, e)
<1>1. seen' = seen
  BY RecordStays, OthersSeen DEF HistoryInv
<1>2. db'[live].rows \in {db[live].rows, [db[live].rows EXCEPT ![f] = e]}
  BY HistoryTyped
<1>3. {q \in Procs : run'[q].phase = "query"} = {q \in Procs : run[q].phase = "query"}
  BY DEF Walking
<1>4. ASSUME NEW q \in Procs, run[q].phase = "query"
      PROVE  View'[q] \in {View[q], [View[q] EXCEPT ![f] = e]}
  <2>1. run[q].att \in Inodes /\ run'[q] = run[q]
    BY <1>4, HistoryTyped DEF InHand, Walking
  <2>2. View[q] = db[run[q].att].rows /\ View'[q] = db'[run[q].att].rows
    BY <1>3, <1>4, <2>1 DEF View
  <2> QED BY <2>1, <2>2
<1>5. DOMAIN View = {q \in Procs : run[q].phase = "query"} /\ DOMAIN View' = DOMAIN View
  BY <1>3 DEF View
<1> QED BY <1>1, <1>2, <1>4, <1>5 DEF Promise!Write

\* Closing a database keeps what the others read, and the live index.
LEMMA ReclaimedReaders ==
    ASSUME HistoryInv, NEW p \in Procs, db' = Reclaimed, live' \in Inodes,
           \A q \in Procs \ {p} : run'[q] = run[q]
    PROVE  ReadersKept(p) /\ db'[live'].rows = db[live'].rows
<1>1. Kept(p)
  BY HistoryTyped, ReclaimedKeeps
<1>2. \A q \in Procs : run[q].phase = "query" => run[q].att \in Inodes
  BY HistoryTyped DEF InHand
<1>3. db'[live'] = db[live']
  BY DEF Reclaimed, Open
<1> QED BY <1>1, <1>2, <1>3 DEF ReadersKept, Kept

\* A command ends, is refused or dies.
LEMMA LeavingStep ==
    ASSUME HistoryInv, Record, NEW p \in Procs, Exit(p), db' = Reclaimed,
           disk' = disk, live' = live
    PROVE  Promise!End(p)
<1>1. run'[p] = IdleRun /\ \A q \in Procs \ {p} : run'[q] = run[q]
  BY HistoryTyped DEF Exit
<1>2. run'[p].phase \notin Walking \union {"query"}
  BY <1>1 DEF IdleRun, Walking
<1>3. ReadersKept(p) /\ db'[live'].rows = db[live].rows
  BY <1>1, HistoryTyped, ReclaimedReaders
<1> QED BY <1>2, <1>3, EndStep

\* A command opens the index, to work on it or to search it.
LEMMA OpeningStep ==
    ASSUME HistoryInv, FreshInv', Record, NEW p \in Procs,
           \/ \E m \in Models : OpenForUpdate(p, m) \/ OpenForRebuild(p, m) \/ OpenForSearch(p, m)
           \/ \E m \in Models, f \in Files \ Outside : OpenForCapture(p, m, f)
           \/ OpenForReindex(p)
    PROVE  Promise!BeginSearch(p) \/ UNCHANGED Promise!vars
<1>1. run \in [Procs -> Runs] /\ IndInv /\ IndInv' /\ live \in Inodes
  BY HistoryTyped DEF FreshInv
<1>2. /\ disk' = disk /\ live' = live /\ \A i \in Inodes : db'[i].rows = db[i].rows
      /\ \E r \in Runs : /\ run' = [run EXCEPT ![p] = r]
                         /\ r.phase \in {"open", "waiting", "query", "draft", "edited"}
  BY <1>1, OpenSlot
<1>3. /\ \A q \in Procs \ {p} : run'[q] = run[q]
      /\ run'[p].phase \in {"open", "waiting", "query", "draft", "edited"}
  BY <1>1, <1>2
<1>4. \A q \in Procs : run[q].phase = "query" => run[q].att \in Inodes
  BY HistoryTyped DEF InHand
<1>5. ReadersKept(p) /\ db'[live].rows = db[live].rows
  BY <1>1, <1>2, <1>3, <1>4 DEF ReadersKept
<1>6. run[p].phase \in {"idle", "rewritten"}
  BY DEF OpenForUpdate, OpenForRebuild, OpenForSearch, OpenForCapture, OpenForReindex, Idle
<1>7. CASE run'[p].phase = "query"
  <2>1. PICK m \in Models : OpenForSearch(p, m)
    <3>1. ASSUME NEW kind, NEW m, NEW phase, run' = [run EXCEPT ![p] = Connected(kind, m, phase)]
          PROVE  run'[p].phase = phase
      BY <1>1, <3>1, ConnectedKnows
    <3>2. ASSUME NEW m, NEW f, run' = [run EXCEPT ![p] = [Connected("capture", m, "draft") EXCEPT !.file = f]]
          PROVE  run'[p].phase = "draft"
      BY <1>1, <3>2 DEF Connected, IdleRun
    <3>3. OpenForReindex(p) => run'[p].phase = "edited"
      BY <1>1 DEF OpenForReindex, Runs
    <3>4. /\ \A m \in Models : OpenForUpdate(p, m) => run'[p].phase = "open"
          /\ \A m \in Models : OpenForRebuild(p, m) => run'[p].phase = "waiting"
      BY <3>1 DEF OpenForUpdate, OpenForRebuild
    <3>5. \A m \in Models, f \in Files \ Outside : OpenForCapture(p, m, f) => run'[p].phase = "draft"
      BY <3>2 DEF OpenForCapture
    <3> QED BY <1>7, <3>3, <3>4, <3>5
  <2>2. run'[p].att = live
    BY <1>1, <2>1 DEF OpenForSearch, Connected, IdleRun
  <2> QED BY <1>2, <1>5, <1>7, <2>2, SearchStep
<1>8. CASE run'[p].phase # "query"
  BY <1>2, <1>3, <1>5, <1>6, <1>8, RestStep DEF Walking
<1> QED BY <1>7, <1>8

\* A walk begins, in the index as it is or beside it.
LEMMA BeginStep ==
    ASSUME HistoryInv, Record, NEW p \in Procs,
           LockForUpdate(p) \/ UpdateUnlocked(p) \/ LockForRebuild(p)
    PROVE  Promise!BeginWalk(p)
<1>1. /\ run \in [Procs -> Runs] /\ run[p] \in Runs /\ live \in Inodes
      /\ disk' = disk /\ live' = live
      /\ run[p].phase \in {"open", "edited", "waiting"}
  BY HistoryTyped DEF LockForUpdate, UpdateUnlocked, LockForRebuild
<1>2. CASE LockForUpdate(p) \/ UpdateUnlocked(p)
  <2> DEFINE rows == db[run[p].att].rows
             snap == [f \in Files |-> IF rows[f] = None THEN None ELSE rows[f].hash]
             gone == {f \in Files \ Listed : rows[f] # None}
             r == [run[p] EXCEPT !.phase = "walk", !.snap = snap, !.todo = Listed,
                                 !.gone = gone, !.quiet = Files]
  <2>2. db' = db /\ run' = [run EXCEPT ![p] = r]
    BY <1>1, <1>2 DEF LockForUpdate, UpdateUnlocked, BeginWalk
  <2> HIDE DEF rows, snap, gone
  <2>3. r.phase = "walk"
    BY <1>1 DEF Runs
  <2> HIDE DEF r
  <2>1. db' = db /\ run'[p].phase = "walk" /\ \A q \in Procs \ {p} : run'[q] = run[q]
    BY <1>1, <2>2, <2>3
  <2> QED BY <1>1, <2>1, WalkStep DEF ReadersKept, Walking
<1>3. CASE LockForRebuild(p)
  <2>1. PICK tmp \in Inodes :
           /\ ~Open(tmp)
           /\ run' = [run EXCEPT ![p] = [@ EXCEPT !.phase = "walk", !.tmp = tmp,
                                                !.todo = Listed, !.quiet = Files]]
           /\ db' = [Reclaimed EXCEPT ![tmp] = InitSchema(Blank, run[p].model)]
    BY <1>3 DEF LockForRebuild
  <2>2. run'[p].phase = "walk" /\ \A q \in Procs \ {p} : run'[q] = run[q]
    BY <1>1, <2>1 DEF Runs
  <2>3. db'[live] = db[live]
    BY <1>1, <2>1 DEF Reclaimed, Open
  <2>4. ASSUME NEW q \in Procs \ {p}, run[q].phase = "query"
        PROVE  db'[run[q].att] = db[run[q].att]
    <3>1. run[q].att \in Inodes
      BY <2>4, HistoryTyped DEF InHand
    <3>2. Open(run[q].att) /\ Open(run[q].att)'
      BY <2>2 DEF Open
    <3> QED BY <2>1, <3>1, <3>2 DEF Reclaimed
  <2> QED BY <1>1, <2>2, <2>3, <2>4, WalkStep DEF ReadersKept, Walking
<1> QED BY <1>2, <1>3

\* Looking at a file changes nothing that a search could read.
LEMMA HashStep ==
    ASSUME HistoryInv, Record, NEW p \in Procs, HashFile(p)
    PROVE  Promise!End(p) \/ UNCHANGED Promise!vars
<1>1. /\ run[p].phase = "walk" /\ run[p] \in Runs /\ run \in [Procs -> Runs]
      /\ disk' = disk /\ live' = live
  BY HistoryTyped DEF HashFile
<1>2. CASE Abort(p)
  BY <1>1, <1>2, LeavingStep DEF Abort
<1>3. CASE ~Abort(p)
  <2>1. PICK f \in run[p].todo :
           /\ db' = db
           /\ \/ run' = [run EXCEPT ![p].todo = @ \ {f}]
              \/ run' = [run EXCEPT ![p].phase = "parse", ![p].file = f, ![p].hash = disk[f]]
    BY <1>3 DEF HashFile
  <2>2. run'[p].phase \in {"walk", "parse"} /\ \A q \in Procs \ {p} : run'[q] = run[q]
    BY <1>1, <2>1 DEF Runs
  <2> QED BY <1>1, <2>1, <2>2, RestStep DEF ReadersKept, Walking
<1> QED BY <1>2, <1>3

\* A file that does not validate loses its entry.
LEMMA ParseStep ==
    ASSUME HistoryInv, FreshInv', Record, NEW p \in Procs, ParseFile(p)
    PROVE  \/ Promise!End(p) \/ UNCHANGED Promise!vars
           \/ \E f \in Files : Promise!Write(p, f, None)
<1> USE ConstantsAssumption
<1>1. /\ run[p].phase = "parse" /\ run[p] \in Runs /\ run \in [Procs -> Runs]
      /\ disk' = disk /\ live' = live /\ InHand(p) /\ Fresh(p) /\ db \in [Inodes -> Databases]
      /\ Recorded(p) /\ run[p].att \in Inodes
  BY HistoryTyped DEF ParseFile, InHand
<1>2. PICK f \in Files : f = run[p].file
  BY <1>1 DEF InHand
<1>3. CASE Abort(p)
  BY <1>1, <1>3, LeavingStep DEF Abort
<1>4. CASE /\ disk[f] \in Invalid
           /\ run' = [run EXCEPT ![p] = FileDone(p)]
           /\ db' = [db EXCEPT ![run[p].att] = DeleteFile(@, f)]
  <2>1. run'[p].phase = "walk" /\ \A q \in Procs \ {p} : run'[q] = run[q]
    BY <1>1, <1>4 DEF FileDone, Runs
  <2>2. Promise!Justified(p, f, None)
    BY <1>1, <1>4 DEF Promise!Justified, Recorded, Walking
  <2>3. /\ db'[run[p].att].rows = [db[run[p].att].rows EXCEPT ![f] = None]
        /\ \A j \in Inodes \ {run[p].att} : db'[j].rows = db[j].rows
    BY <1>1, <1>4 DEF DeleteFile, Databases
  <2>4. Promise!Write(p, f, None)
    BY <1>1, <2>1, <2>2, <2>3, WriteStep DEF Walking
  <2> QED BY <2>4
<1>5. CASE /\ db' = db
           /\ \/ run' = [run EXCEPT ![p] = FileDone(p)]
              \/ run' = [run EXCEPT ![p].phase = "commit", ![p].text = disk[f]]
  <2>1. run'[p].phase \in {"walk", "commit"} /\ \A q \in Procs \ {p} : run'[q] = run[q]
    <3>1. CASE run' = [run EXCEPT ![p] = FileDone(p)]
      BY <1>1, <3>1 DEF FileDone, Runs
    <3>2. CASE run' = [run EXCEPT ![p].phase = "commit", ![p].text = disk[f]]
      BY <1>1, <3>2 DEF Runs
    <3> QED BY <1>5, <3>1, <3>2
  <2> QED BY <1>1, <1>5, <2>1, RestStep DEF ReadersKept, Walking
<1> QED BY <1>2, <1>3, <1>4, <1>5 DEF ParseFile

\* A file enters the database that the command works on.
LEMMA CommitStep ==
    ASSUME HistoryInv, Record, NEW p \in Procs, CommitFile(p)
    PROVE  \E f \in Files, e \in Promise!Entries : Promise!Write(p, f, e)
<1>1. /\ run[p].phase = "commit" /\ run[p] \in Runs /\ run \in [Procs -> Runs]
      /\ disk' = disk /\ live' = live /\ run' = [run EXCEPT ![p] = FileDone(p)]
  BY HistoryTyped DEF CommitFile
<1>2. PICK f \in Files, i \in Inodes, row \in [hash: Contents, text: Valid, model: Models] :
         /\ db'[i].rows = [db[i].rows EXCEPT ![f] = row]
         /\ \A j \in Inodes \ {i} : db'[j].rows = db[j].rows
         /\ Promise!Justified(p, f, row)
  BY CommitJustified
<1>3. run'[p].phase = "walk" /\ \A q \in Procs \ {p} : run'[q] = run[q]
  BY <1>1 DEF FileDone, Runs
<1>4. Promise!Write(p, f, row)
  BY <1>1, <1>2, <1>3, WriteStep DEF Walking
<1> QED BY <1>2, <1>4 DEF Promise!Entries, Valid

\* What the walk did not find is removed.
LEMMA SweepStep ==
    ASSUME HistoryInv, Record, NEW p \in Procs, Sweep(p)
    PROVE  UNCHANGED Promise!vars \/ \E f \in Files : Promise!Write(p, f, None)
<1>1. /\ run[p].phase = "walk" /\ run[p] \in Runs /\ run \in [Procs -> Runs]
      /\ disk' = disk /\ live' = live /\ Noted(p) /\ db \in [Inodes -> Databases]
      /\ run[p].att \in Inodes
  BY HistoryTyped DEF Sweep, InHand
<1>2. CASE db' = db /\ run' = [run EXCEPT ![p].phase = "report"]
  <2>1. run'[p].phase = "report" /\ \A q \in Procs \ {p} : run'[q] = run[q]
    BY <1>1, <1>2 DEF Runs
  <2> QED BY <1>1, <1>2, <2>1, RestStep DEF ReadersKept, Walking
<1>3. ASSUME NEW f \in run[p].gone, run' = [run EXCEPT ![p].gone = @ \ {f}],
             db' = [db EXCEPT ![run[p].att] = DeleteFile(@, f)]
      PROVE  f \in Files /\ Promise!Write(p, f, None)
  <2>1. run'[p].phase = "walk" /\ (\A q \in Procs \ {p} : run'[q] = run[q]) /\ f \in Files
    BY <1>1, <1>3 DEF Runs
  <2>2. Promise!Justified(p, f, None)
    BY <1>1, <1>3 DEF Promise!Justified, Noted, OnWalk
  <2>3. /\ db'[run[p].att].rows = [db[run[p].att].rows EXCEPT ![f] = None]
        /\ \A j \in Inodes \ {run[p].att} : db'[j].rows = db[j].rows
    BY <1>1, <1>3 DEF DeleteFile, Databases
  <2> QED BY <1>1, <2>1, <2>2, <2>3, WriteStep DEF Walking
<1> QED BY <1>2, <1>3 DEF Sweep

\* A rebuilt database takes the place of the index, whole.
LEMMA SwapStep ==
    ASSUME HistoryInv, Record, NEW p \in Procs, Swap(p)
    PROVE  Promise!End(p) \/ Promise!Publish(p)
<1> USE ConstantsAssumption
<1>1. /\ run[p].phase = "walk" /\ Rebuilding(p) /\ run[p].todo = {} /\ run[p] \in Runs
      /\ run \in [Procs -> Runs] /\ disk' = disk /\ Noted(p) /\ db \in [Inodes -> Databases]
  BY HistoryTyped DEF Swap
<1>2. CASE Abort(p) /\ live' = live
  BY <1>1, <1>2, LeavingStep DEF Abort
<1>3. CASE /\ run' = [run EXCEPT ![p].phase = "report", ![p].att = run[p].tmp, ![p].tmp = None]
           /\ db' = Reclaimed /\ live' = run[p].tmp
  <2>1. run'[p].phase = "report" /\ \A q \in Procs \ {p} : run'[q] = run[q]
    BY <1>1, <1>3 DEF Runs
  <2>2. run[p].tmp \in Inodes
    BY <1>1 DEF Rebuilding, Runs
  <2>3. ReadersKept(p) /\ db'[live'].rows = db[live'].rows
    BY <1>3, <2>1, <2>2, ReclaimedReaders
  <2>4. seen' = seen
    BY <1>1, <2>1, RecordStays, OthersSeen DEF HistoryInv, Walking
  <2>5. View' = View
    BY <1>1, <2>1, <2>3, ViewStays
  <2>6. \A f \in Files : Promise!Justified(p, f, db'[live'].rows[f])
    BY <1>1, <1>3, <2>3 DEF Noted
  <2>7. DOMAIN db'[live'].rows = Files
    BY <1>1, <1>3, <2>2, <2>3 DEF Databases, Rows
  <2> QED BY <1>1, <2>4, <2>5, <2>6, <2>7 DEF Promise!Publish
<1> QED BY <1>2, <1>3 DEF Swap

\* The reports are written, and the command ends, or searches what it published.
LEMMA ReportStep ==
    ASSUME HistoryInv, Record, NEW p \in Procs, WriteReport(p)
    PROVE  Promise!End(p) \/ Promise!BeginSearch(p)
<1>1. /\ run[p].phase = "report" /\ run[p] \in Runs /\ run \in [Procs -> Runs]
      /\ db' = Reclaimed /\ disk' = disk /\ live' = live /\ live \in Inodes /\ Noted(p)
  BY HistoryTyped DEF WriteReport
<1>2. CASE run[p].kind = "search"
  <2>1. run' = [run EXCEPT ![p].phase = "query", ![p].quiet = {}]
    BY <1>1, <1>2 DEF WriteReport
  <2>2. /\ run'[p].phase = "query" /\ run'[p].att = run[p].att
        /\ \A q \in Procs \ {p} : run'[q] = run[q]
    BY <1>1, <2>1 DEF Runs
  <2>3. ReadersKept(p) /\ db'[live].rows = db[live].rows
    BY <1>1, <2>2, ReclaimedReaders
  <2>4. run[p].att = live
    BY <1>1, <1>2 DEF Noted
  <2> QED BY <1>1, <2>2, <2>3, <2>4, SearchStep
<1>3. CASE run[p].kind # "search"
  <2>1. Exit(p)
    BY <1>3 DEF WriteReport
  <2> QED BY <1>1, <2>1, LeavingStep
<1> QED BY <1>2, <1>3

\* A memory file changes.
LEMMA EditStep ==
    ASSUME HistoryInv, Record, NEW f \in Files, NEW c \in Contents \union {Absent},
           NEW r \in [Procs -> Runs], Touch(f, c, r), db' = db, live' = live,
           \A q \in Procs : \/ r[q] = run[q]
                            \/ /\ run[q].phase \in {"idle", "draft"}
                               /\ r[q].phase \in {"rewritten", "edited"}
    PROVE  Promise!Edit(f, c)
<1>1. /\ disk' = [disk EXCEPT ![f] = c] /\ disk \in [Files -> Contents \union {Absent}]
      /\ seen \in [Procs -> [Files -> SUBSET (Contents \union {Absent})]]
      /\ \A q \in Procs : Recorded(q)
  BY DEF Touch, HistoryInv, FreshInv, IndInv, TypeOK
<1>2. ASSUME NEW q \in Procs
      PROVE  \/ run'[q].phase = run[q].phase /\ run'[q].att = run[q].att
             \/ /\ run[q].phase \notin Walking \union {"query"}
                /\ run'[q].phase \notin Walking \union {"query"}
  <2>1. r[q] \in Runs /\ run'[q] = [r[q] EXCEPT !.quiet = @ \ {f}]
    BY DEF Touch
  <2>2. run'[q].phase = r[q].phase /\ run'[q].att = r[q].att
    BY <2>1 DEF Runs
  <2> QED BY <2>2 DEF Walking
<1>3. ASSUME NEW q \in Procs
      PROVE  seen'[q] = [seen[q] EXCEPT ![f] = IF @ = {} THEN {} ELSE @ \union {c}]
  <2>1. seen[q] \in [Files -> SUBSET (Contents \union {Absent})]
    BY <1>1
  <2>2. CASE run[q].phase \notin Walking
    <3>1. seen[q] = Nothing /\ seen'[q] = Nothing
      BY <1>1, <1>2, <2>2 DEF Record, Recorded
    <3>2. Nothing[f] = {} /\ Nothing = [g \in Files |-> {}]
      BY DEF Nothing
    <3>3. [Nothing EXCEPT ![f] = {}] = Nothing
      BY <3>2
    <3> QED BY <3>1, <3>2, <3>3
  <2>3. CASE run[q].phase \in Walking
    <3>1. seen'[q] = [g \in Files |-> seen[q][g] \union {disk'[g]}]
      BY <1>2, <2>3 DEF Record
    <3>2. \A g \in Files : disk[g] \in seen[q][g]
      BY <1>1, <2>3 DEF Recorded
    <3>3. seen'[q][f] = seen[q][f] \union {c} /\ seen[q][f] # {}
      BY <1>1, <3>1, <3>2
    <3>4. \A g \in Files \ {f} : seen'[q][g] = seen[q][g]
      BY <1>1, <3>1, <3>2
    <3> QED BY <2>1, <3>1, <3>3, <3>4
  <2> QED BY <2>2, <2>3
<1>4. seen' = [q \in Procs |-> [seen[q] EXCEPT ![f] = IF @ = {} THEN {} ELSE @ \union {c}]]
  BY <1>3 DEF Record
<1>5. {q \in Procs : run'[q].phase = "query"} = {q \in Procs : run[q].phase = "query"}
  BY <1>2
<1>6. \A q \in Procs : run[q].phase = "query" => run'[q].att = run[q].att
  BY <1>2
<1>7. View' = View
  BY <1>5, <1>6 DEF View
<1> QED BY <1>1, <1>4, <1>7 DEF Promise!Edit

\* Every step is one that the promise allows.
LEMMA NextKeepsPromise ==
    ASSUME HistoryInv, [HistoryNext]_historyVars
    PROVE  [Promise!Next]_(Promise!vars)
<1> USE ConstantsAssumption
<1>1. CASE HistoryNext
  <2>1. Record /\ Next /\ FreshInv /\ FreshInv' /\ None \in Promise!Entries \union {None}
    BY <1>1, NextFresh DEF HistoryNext, HistoryInv
  <2>2. CASE \/ \E f \in Files, c \in Contents \union {Absent} : Edit(f, c)
             \/ \E p \in Procs, c \in Valid : WriteCapture(p, c)
             \/ \E p \in Procs, m \in Models, f \in Files, c \in Contents :
                   RewriteFrontmatter(p, m, f, c)
    <3>1. PICK f \in Files, c \in Contents \union {Absent}, r \in [Procs -> Runs] :
             /\ Touch(f, c, r) /\ db' = db /\ live' = live
             /\ \A q \in Procs : \/ r[q] = run[q]
                                 \/ /\ run[q].phase \in {"idle", "draft"}
                                    /\ r[q].phase \in {"rewritten", "edited"}
      BY <2>1, <2>2, Touches
    <3>2. Promise!Edit(f, c)
      BY <2>1, <3>1, EditStep
    <3> QED BY <3>2 DEF Promise!Next
  <2>3. ASSUME NEW p \in Procs, Start(p)
        PROVE  [Promise!Next]_(Promise!vars)
    <3>1. CASE \/ \E m \in Models : OpenForUpdate(p, m) \/ OpenForRebuild(p, m) \/ OpenForSearch(p, m)
               \/ \E m \in Models, f \in Files \ Outside : OpenForCapture(p, m, f)
      <4>1. Promise!BeginSearch(p) \/ UNCHANGED Promise!vars
        BY <2>1, <3>1, OpeningStep
      <4> QED BY <4>1 DEF Promise!Next
    <3> QED BY <2>2, <2>3, <3>1 DEF Start
  <2>4. ASSUME NEW p \in Procs, Step(p)
        PROVE  [Promise!Next]_(Promise!vars)
    <3>1. CASE RefuseCapture(p) \/ RefuseReindex(p) \/ Busy(p) \/ Answer(p)
      <4>1. Exit(p) /\ db' = Reclaimed /\ disk' = disk /\ live' = live
        BY <3>1 DEF RefuseCapture, RefuseReindex, Busy, Answer
      <4>2. Promise!End(p)
        BY <2>1, <4>1, LeavingStep
      <4> QED BY <4>2 DEF Promise!Next
    <3>2. CASE OpenForReindex(p)
      <4>1. Promise!BeginSearch(p) \/ UNCHANGED Promise!vars
        BY <2>1, <3>2, OpeningStep
      <4> QED BY <4>1 DEF Promise!Next
    <3>3. CASE LockForUpdate(p) \/ UpdateUnlocked(p) \/ LockForRebuild(p)
      <4>1. Promise!BeginWalk(p)
        BY <2>1, <3>3, BeginStep
      <4> QED BY <4>1 DEF Promise!Next
    <3>4. CASE HashFile(p)
      <4>1. Promise!End(p) \/ UNCHANGED Promise!vars
        BY <2>1, <3>4, HashStep
      <4> QED BY <4>1 DEF Promise!Next
    <3>5. CASE ParseFile(p)
      <4>1. \/ Promise!End(p) \/ UNCHANGED Promise!vars
            \/ \E f \in Files : Promise!Write(p, f, None)
        BY <2>1, <3>5, ParseStep
      <4> QED BY <2>1, <4>1 DEF Promise!Next
    <3>6. CASE CommitFile(p)
      <4>1. \E f \in Files, e \in Promise!Entries : Promise!Write(p, f, e)
        BY <2>1, <3>6, CommitStep
      <4> QED BY <4>1 DEF Promise!Next
    <3>7. CASE Sweep(p)
      <4>1. UNCHANGED Promise!vars \/ \E f \in Files : Promise!Write(p, f, None)
        BY <2>1, <3>7, SweepStep
      <4> QED BY <2>1, <4>1 DEF Promise!Next
    <3>8. CASE Swap(p) \/ WriteReport(p)
      <4>1. Promise!End(p) \/ Promise!Publish(p) \/ Promise!BeginSearch(p)
        BY <2>1, <3>8, SwapStep, ReportStep
      <4> QED BY <4>1 DEF Promise!Next
    <3>9. CASE \E c \in Valid : WriteCapture(p, c)
      BY <2>2, <3>9
    <3> QED BY <2>4, <3>1, <3>2, <3>3, <3>4, <3>5, <3>6, <3>7, <3>8, <3>9 DEF Step
  <2>5. ASSUME NEW p \in Procs, Fault(p)
        PROVE  [Promise!Next]_(Promise!vars)
    <3>1. Exit(p) /\ db' = Reclaimed /\ disk' = disk /\ live' = live
      BY <2>5 DEF Fault, FailEmbedding, Kill, Abort
    <3>2. Promise!End(p)
      BY <2>1, <3>1, LeavingStep
    <3> QED BY <3>2 DEF Promise!Next
  <2> QED BY <2>1, <2>2, <2>3, <2>4, <2>5 DEF Next
<1>2. CASE UNCHANGED historyVars
  <2>1. disk' = disk /\ db' = db /\ live' = live /\ run' = run /\ seen' = seen
    BY <1>2 DEF historyVars, vars
  <2>2. View' = View
    BY <2>1 DEF View
  <2> QED BY <2>1, <2>2 DEF Promise!vars
<1> QED BY <1>1, <1>2

\* No search reads a half-built index, and every entry that any command puts into the
\* index or takes out of it follows from what the file held while that command walked.
THEOREM IndexKeepsPromise == HistorySpec => ImplementsMemoryIndex
<1> USE ConstantsAssumption
<1>1. HistoryInit => Promise!Init
  <2> SUFFICES ASSUME HistoryInit PROVE Promise!Init
    OBVIOUS
  <2>1. Init /\ TypeOK /\ seen = [p \in Procs |-> Nothing] /\ run = [p \in Procs |-> IdleRun]
    BY InitInv DEF HistoryInit, IndInv, Init
  <2>2. {p \in Procs : run[p].phase = "query"} = {}
    BY <2>1 DEF IdleRun
  <2>3. DOMAIN View = {}
    BY <2>2 DEF View
  <2>4. db[live].rows \in Rows
    BY <2>1 DEF TypeOK, Databases
  <2> QED BY <2>1, <2>3, <2>4 DEF Promise!Init, Promise!Nothing, Nothing, Promise!Entries,
                                  Rows, Valid, TypeOK
<1>2. HistoryInv /\ [HistoryNext]_historyVars => [Promise!Next]_(Promise!vars)
  BY NextKeepsPromise
<1> QED BY <1>1, <1>2, History, PTL DEF HistorySpec, ImplementsMemoryIndex, Promise!Spec

=============================================================================
