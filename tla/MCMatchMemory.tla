--------------------------- MODULE MCMatchMemory ---------------------------
(***************************************************************************)
(* Instances of MatchMemory for TLC: two texts, alike but not the same.     *)
(* Runs, keys and texts are each interchangeable: MCDistance tells texts    *)
(* only equal or different.                                                 *)
(***************************************************************************)
EXTENDS MatchMemory, TLC

MCDistance == [t \in Texts |-> [u \in Texts |-> IF t = u THEN 0 ELSE 6]]

Symmetry == Permutations(Runs) \cup Permutations(Keys) \cup Permutations(Texts)
=============================================================================
