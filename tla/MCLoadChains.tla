----------------------------- MODULE MCLoadChains -----------------------------
(* Instances of LoadChains; ids of rows are interchangeable. *)
EXTENDS LoadChains, TLC

IdSymmetry == Permutations(Ids)
===============================================================================
