--------------------------- MODULE MCCompileCache ---------------------------
(***************************************************************************)
(* Small programs for CompileCache: a callee g with two definitions whose  *)
(* contracts differ (the second one recursive), a caller f1 whose proof    *)
(* depends on g's contract, a redefinition f2 of it that calls nothing,    *)
(* and a definition h1 that no proof accepts.                              *)
(***************************************************************************)
EXTENDS CompileCache, TLC

CONSTANTS f, g, h, g1, g2, f1, f2, h1, a, b

MCNameOf == [s \in Source |-> CASE s \in {f1, f2} -> f [] s = h1 -> h [] OTHER -> g]
MCCallees == [s \in Source |-> IF s \in {f1, g2} THEN {g} ELSE {}]

(* f1 is proved under g's first contract, and when g has no signature      *)
(* (then nothing is assumed or checked at the call); not under the second. *)
MCProvable == {x \in Source \X View : x[1] # h1 /\ (x[1] = f1 => x[2][g] # b)}

MCContractOf == [x \in Source \X BOOLEAN \X View |-> IF x[1] = g2 THEN b ELSE a]

Symmetry == Permutations(Proc) \cup Permutations(Inode)
=============================================================================
