-------------------------- MODULE MCCacheEviction --------------------------
(* Small directories for CacheEviction.                                    *)
EXTENDS CacheEviction, TLC

Symmetry == Permutations(Proc) \cup Permutations(File)
=============================================================================
