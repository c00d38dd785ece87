--------------------------- MODULE MCCTProcessLog ---------------------------
(* CTProcessLog on small instances. *)
EXTENDS CTProcessLog, TLC

CONSTANTS c1, c2, c3
MCChilds == {c1, c2, c3}
MCTwoChilds == {c1, c2}
MCSymmetry == Permutations(MCChilds)
=============================================================================
