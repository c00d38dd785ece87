----------------------------- MODULE MCCTServer -----------------------------
(***************************************************************************)
(* CTServer on small instances: descriptors are numbers, because the       *)
(* kernel gives out the lowest that is free.                               *)
(***************************************************************************)
EXTENDS CTServer, TLC

CONSTANTS c1, c2, c3

MCChilds == {c1, c2, c3}
MCTwoChilds == {c1, c2}
MCFds == 5 .. 12
MCFewFds == 5 .. 10

\* Nothing but the names tells the children apart.
MCSymmetry == Permutations(MCChilds)
=============================================================================
