--------------------------- MODULE MCIntervalPaths ---------------------------
(* Two registers of integers from -3 to 2: the least MaxInt at which x - 1 *)
(* of an x >= 2 is told apart.                                             *)
EXTENDS IntervalPaths, TLC

MCRefinements == {Everything, [low |-> 0, high |-> PosInf], [low |-> 1, high |-> 2]}
MCSymmetry == Permutations(Reg)
=============================================================================
