--------------------------- MODULE MCListRuntime ---------------------------
(***************************************************************************)
(* ListRuntime on a small instance.  The first capacity is 1, so that a    *)
(* list of two elements has grown twice: once from nothing, once by        *)
(* copying.  One value is enough to see a cell that was not copied.        *)
(***************************************************************************)
EXTENDS ListRuntime, TLC

\* Names are told apart by equality only.
Symmetry == Permutations(Blocks) \cup Permutations(Objects)
            \cup Permutations(Threads) \cup Permutations(Headers)
=============================================================================
