--------------------------- MODULE StableMatching ---------------------------
(***************************************************************************)
(* What run_match_subgraph promises for a batch (reasoning/match_subgraph.py *)
(* over matching_tools.py and semantic_match_agent.py): matches by rule,     *)
(* strongest first and best first, that no eligible pair can improve on.    *)
(* How it gets there is not said.                                           *)
(***************************************************************************)
EXTENDS MatchRules

CONSTANT Gateway  \* whether an LLM gateway is at hand

VARIABLES book, source,  \* the batch
          status, result

promiseVars == <<book, source, status, result>>

\* A set of matches that matching may end with.  Over unique ids the
\* deterministic part is determined: the pairs of each rule are totally ordered.
Outcome(matches) ==
    /\ \A m \in matches : /\ m.rule \in Deterministic \/ (Gateway /\ m.rule = Semantic)
                          /\ m.pair \in Candidates(m.rule, book, source)
    /\ OneToOne(matches)
    /\ \A k \in Deterministic : AllSettled(k, book, source, matches)

Init == status = "running" /\ result = {}

\* Only a batch with unique ids is matched ...
Finish ==
    /\ status = "running" /\ status' = "done"
    /\ Accepted(book, source)
    /\ Outcome(result')
    /\ UNCHANGED <<book, source>>

\* ... and only repeated ids, or a model at hand, make matching raise.
Fail ==
    /\ status = "running" /\ status' = "failed"
    /\ ~Accepted(book, source) \/ Gateway
    /\ UNCHANGED <<book, source, result>>

Next == Finish \/ Fail
Spec == Init /\ [][Next]_promiseVars
=============================================================================
