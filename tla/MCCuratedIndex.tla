-------------------------- MODULE MCCuratedIndex --------------------------
(* Small instances of CuratedIndex for TLC.  Files and inodes are numbers,  *)
(* because the walk and the choice of a fresh inode are ordered.            *)
EXTENDS CuratedIndex, TLC

OneFile == {1}
TwoFiles == {1, 2}
ThreeFiles == {1, 2, 3}
FourInodes == 1..4

\* Processes are interchangeable; used by the runs without liveness.
ProcSymmetry == Permutations(Procs)
=============================================================================
