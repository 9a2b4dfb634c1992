--------------------------- MODULE MCRuleLearning ---------------------------
(***************************************************************************)
(* Instances of RuleLearning for TLC.                                       *)
(***************************************************************************)
EXTENDS RuleLearning, TLC

Symmetry == Permutations(Runs) \cup Permutations(Pairs)
=============================================================================
