--------------------------- MODULE MCMemoryIndex ---------------------------
(* Small instances of CuratedIndex with its history, for TLC. *)
EXTENDS MCCuratedIndex, CuratedIndexHistory
=============================================================================
