------------------------------ MODULE Routing ------------------------------
(***************************************************************************)
(* The conditional edges of the reconciliation graph                        *)
(* (recon_platform/graph/routing.py) and the fixed ones (build_graph in     *)
(* recon_platform/graph/build.py), as functions of a run's channel values.  *)
(***************************************************************************)
EXTENDS Naturals

MAX_VALIDATION_RETRIES == 2

Nodes == {"supervisor", "ingestion", "validation", "normalization", "matching",
          "resolution", "consolidation", "reporting", "learning"}

-----------------------------------------------------------------------------
\* Faulty variant, which shows what the properties of ReconGraph depend on: one
\* retry too many.
ValidationGate_OneMore(s) ==
    IF "critical" \in s.issues
    THEN IF s.retry_count <= MAX_VALIDATION_RETRIES THEN "ingestion" ELSE "resolution"
    ELSE IF "review" \in s.issues THEN "resolution" ELSE "normalization"
-----------------------------------------------------------------------------

\* "critical" is an issue of severity error that names no row, "review" an
\* ambiguous row the LLM handed to a human.
ValidationGate(s) ==
    CASE "critical" \in s.issues /\ s.retry_count < MAX_VALIDATION_RETRIES -> "ingestion"
      [] "critical" \in s.issues /\ s.retry_count >= MAX_VALIDATION_RETRIES -> "resolution"
      [] "critical" \notin s.issues /\ "review" \in s.issues -> "resolution"
      [] OTHER -> "normalization"

MatchedGate(s) == IF s.unmatched THEN "resolution" ELSE "consolidation"

CloseReadyGate(s) == IF s.close_ready THEN "learning" ELSE "end"

\* The node that follows n.  "start" is a thread that holds only its input,
\* "none" a thread that has no checkpoint.
Successor(n, s) ==
    CASE n = "start"         -> "supervisor"
      [] n = "supervisor"    -> "ingestion"
      [] n = "ingestion"     -> "validation"
      [] n = "validation"    -> ValidationGate(s)
      [] n = "normalization" -> "matching"
      [] n = "matching"      -> MatchedGate(s)
      [] n = "resolution"    -> "consolidation"
      [] n = "consolidation" -> "reporting"
      [] n = "reporting"     -> CloseReadyGate(s)
      [] OTHER               -> "end"
=============================================================================
