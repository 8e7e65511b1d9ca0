-------------------------- MODULE MCSessionPipeline --------------------------
(* Small instances of SessionPipeline for TLC: two text rows and one without *)
(* text, in a transcript that grows and one that replaces it.                *)
EXTENDS SessionPipeline

TwoTexts == {1, 2}

\* Row 3 carries no text; <<2>> is no extension of the others.
Growing == {<<1>>, <<1, 3>>}
Rewritten == {<<1>>, <<1, 3>>, <<2>>}

ProcSymmetry == Permutations(Procs)
=============================================================================
