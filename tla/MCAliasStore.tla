---------------------------- MODULE MCAliasStore ----------------------------
(***************************************************************************)
(* Instances of AliasStore for TLC.                                         *)
(***************************************************************************)
EXTENDS AliasStore, TLC

CONSTANTS n1, n2, a1, a2

MCNames   == {n1, n2}
MCAnswers == {a1, a2}

\* The old file knows one of the two names.
MCOldCache == (n1 :> a1) @@ (n2 :> NoAnswer)
=============================================================================
