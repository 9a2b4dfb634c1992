---------------------------- MODULE MCReconGraph ----------------------------
(***************************************************************************)
(* Instances of ReconGraph for TLC.                                         *)
(***************************************************************************)
EXTENDS ReconGraph, TLC

\* What the sources may deliver.
AllFeeds     == [batch : Batches, outage : BOOLEAN]
HealthyFeeds == [batch : {"clean"}, outage : {FALSE}]
OutageFeeds  == [batch : {"empty", "clean"}, outage : BOOLEAN]

\* One run of either kind, alone: for the other all passes are used up.  A
\* human-in-the-loop run has one pass less.
Alone ==
    /\ \E t \in Runs : starts = [u \in Runs |->
          CASE u # t -> MaxStarts [] t \in HitlRuns -> 1 [] OTHER -> 0]
    /\ crashes = 0

ItemSymmetry == Permutations(Items)

OneRunInit == Fresh /\ Alone
OneRunSpec == OneRunInit /\ [][Next]_vars
=============================================================================
