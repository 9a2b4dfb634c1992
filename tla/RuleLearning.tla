---------------------------- MODULE RuleLearning ----------------------------
(***************************************************************************)
(* The learning loop: reasoning/agents/learning_agent.py mines a run's      *)
(* matches into suggestions, reasoning/rule_store.py keeps them, an analyst *)
(* approves some, and run_match_subgraph hands the approved ones to the     *)
(* tolerance and fuzzy tools of the next run.                               *)
(*                                                                         *)
(* Several runs are in flight at once.  What a run matched is checkpointed; *)
(* the rule store lives in the process.                                     *)
(***************************************************************************)
EXTENDS Integers, Sequences, FiniteSets

CONSTANTS
    Runs,        \* runs in flight
    Pairs,       \* the book/source pairs exact matching leaves in a batch, each
                 \* with no other pair to compete with
    Deltas,      \* their differences in amount, in cents
    Ratios,      \* the similarities of reference, in thousandths
    DefaultTol,  \* tolerance_tool's and fuzzy_tool's amount_tol, in cents
    DefaultMin,  \* fuzzy_tool's min_ratio, in thousandths
    MaxItems,    \* bound: suggestions in the store
    MaxCrashes,  \* bound: process crashes
    NoRun        \* a run that has matched nothing it can learn from

ASSUME DeltaAssumption   == Deltas \subseteq Nat /\ DefaultTol \in Nat
\* A tie may round either way in floating point: none occurs.
ASSUME RatioAssumption   == Ratios \subseteq {r \in Nat : r % 10 # 5}
\* The default is a whole number of hundredths.
ASSUME DefaultAssumption == DefaultMin \in Nat /\ DefaultMin % 10 = 0
ASSUME BoundAssumption   == MaxItems \in Nat /\ MaxCrashes \in Nat

VARIABLES store,    \* rule_store: the items in the order of their ids
          run,      \* what each run matched and has not yet learnt from
          crashes

vars == <<store, run, crashes>>

MIN_SUPPORT == 2

Hundreds == {r \in Nat : r % 10 = 0}

\* A RuleStoreItem: its suggestion's type and parameter, and its approval.
Items == [kind : {"widen_tolerance"}, param : Deltas, approved : BOOLEAN]
            \cup [kind : {"lower_fuzzy_threshold"}, param : Hundreds, approved : BOOLEAN]
            \cup [kind : {"recurring_exception_pattern"}, param : {0}, approved : BOOLEAN]

\* What became of a pair: the rule that matched it and that match's metadata.
Outcomes == [rule : {"tolerance"}, value : Deltas]
               \cup [rule : {"fuzzy"}, value : Ratios]
               \cup [rule : {"none"}, value : {0}]

ASSUME NoRunAssumption == NoRun \notin [Pairs -> Outcomes]

-----------------------------------------------------------------------------
(* apply_approved_rules and the two tools it configures.  Definitions       *)
(* named X_... are faulty variants of X, no part of the specification.      *)

\* Suggestions count before anybody approved them.
Approved_All(kind) == {i \in DOMAIN store : store[i].kind = kind}

\* The last suggestion of a kind overrides the ones before it.
Approved_Latest(kind) ==
    {i \in DOMAIN store : /\ store[i].kind = kind /\ store[i].approved
                          /\ \A j \in DOMAIN store :
                                store[j].kind = kind /\ store[j].approved => j <= i}

Approved(kind) == {i \in DOMAIN store : store[i].kind = kind /\ store[i].approved}

\* The widest approved tolerance takes the place of the default.
TolAccepts(d) ==
    LET rules == Approved("widen_tolerance")
    IN  IF rules = {} THEN d <= DefaultTol ELSE \E i \in rules : d <= store[i].param

\* So does the lowest approved threshold.
RatioAccepts(r) ==
    LET rules == Approved("lower_fuzzy_threshold")
    IN  IF rules = {} THEN r >= DefaultMin ELSE \E i \in rules : r >= store[i].param

\* The outcome of a pair under the rules approved now: the tolerance tool first,
\* when the dates are close, then the fuzzy tool with its own amount tolerance.
Outcome(delta, close, ratio) ==
    IF close /\ TolAccepts(delta) THEN [rule |-> "tolerance", value |-> delta]
    ELSE IF delta <= DefaultTol /\ RatioAccepts(ratio) THEN [rule |-> "fuzzy", value |-> ratio]
    ELSE [rule |-> "none", value |-> 0]

Possible == {Outcome(d, close, r) : d \in Deltas, close \in BOOLEAN, r \in Ratios}

Suggestion(kind, param) == [kind |-> kind, param |-> param, approved |-> FALSE]

Values(outcomes, rule) == {outcomes[p].value : p \in {p \in Pairs : outcomes[p].rule = rule}}

Supported(outcomes, rule) ==
    Cardinality({p \in Pairs : outcomes[p].rule = rule}) >= MIN_SUPPORT

\* What _mine_tolerance_pattern suggests: the largest delta that matched.
MinedTolerance(outcomes) ==
    LET deltas == Values(outcomes, "tolerance")
    IN  IF Supported(outcomes, "tolerance")
        THEN {<<Suggestion("widen_tolerance", d)>> :
                 d \in {d \in deltas : \A other \in deltas : other <= d}}
        ELSE {<<>>}

\* round(ratio, 2), in thousandths.
Hundredths_Lowered(r)   == 10 * ((r + 5) \div 10) - 10
Hundredths(r)           == 10 * ((r + 5) \div 10)

\* What _mine_fuzzy_pattern suggests: the smallest ratio that matched, rounded.
MinedFuzzy(outcomes) ==
    LET ratios == Values(outcomes, "fuzzy")
    IN  IF Supported(outcomes, "fuzzy")
        THEN {<<Suggestion("lower_fuzzy_threshold", Hundredths(r))>> :
                 r \in {r \in ratios : \A other \in ratios : r <= other}}
        ELSE {<<>>}

\* What _mine_exception_pattern suggests: the transactions of a pair left over
\* may be exceptions of one type or of several.
MinedExceptions(outcomes) ==
    IF Values(outcomes, "none") = {} THEN {<<>>}
    ELSE {<<>>, <<Suggestion("recurring_exception_pattern", 0)>>}

-----------------------------------------------------------------------------
Init == store = <<>> /\ run = [r \in Runs |-> NoRun] /\ crashes = 0

\* run_matching over some batch.
Match(r) ==
    /\ run[r] = NoRun
    /\ \E outcomes \in [Pairs -> Possible] : run' = [run EXCEPT ![r] = outcomes]
    /\ UNCHANGED <<store, crashes>>

\* learning_agent adds what it mined.
Learn(r) ==
    /\ run[r] # NoRun
    /\ \E t \in MinedTolerance(run[r]), f \in MinedFuzzy(run[r]), e \in MinedExceptions(run[r]) :
          /\ Len(store) + Len(t) + Len(f) + Len(e) <= MaxItems
          /\ store' = store \o t \o f \o e
    /\ run' = [run EXCEPT ![r] = NoRun]
    /\ UNCHANGED crashes

\* A run that is not close-ready ends without learning.
End(r) ==
    /\ run[r] # NoRun
    /\ run' = [run EXCEPT ![r] = NoRun]
    /\ UNCHANGED <<store, crashes>>

\* RuleStore.approve
Approve(i) ==
    /\ i \in DOMAIN store /\ ~store[i].approved
    /\ store' = [store EXCEPT ![i].approved = TRUE]
    /\ UNCHANGED <<run, crashes>>

\* The process dies: the store is gone, what runs matched is checkpointed.
Crash ==
    /\ crashes < MaxCrashes
    /\ store' = <<>>
    /\ crashes' = crashes + 1
    /\ UNCHANGED run

Next == \/ \E r \in Runs : Match(r) \/ Learn(r) \/ End(r)
        \/ \E i \in 1 .. MaxItems : Approve(i)
        \/ Crash

Spec == Init /\ [][Next]_vars

-----------------------------------------------------------------------------
(* Properties.                                                             *)

\* Every variable has its type.
TypeOK == /\ store \in Seq(Items) /\ Len(store) <= MaxItems
          /\ run \in [Runs -> {NoRun} \cup [Pairs -> Outcomes]]
          /\ crashes \in Nat

\* However many runs learn from each other's matches and whatever is approved,
\* the loop never accepts a pair that the tools' defaults would refuse: no
\* chain of approvals loosens matching.  (learning_agent.py:126-127 says the
\* opposite, "never stricter": a suggestion is the outer edge of what already
\* matched, so approving one narrows matching to it.)
LearnedWithinDefaults ==
    /\ \A d \in Deltas : TolAccepts(d) => d <= DefaultTol
    /\ \A r \in Ratios : RatioAccepts(r) => r >= DefaultMin

\* "nothing changes matching behavior until an analyst approves"
\* (rule_store.py:4-5): mining, by any run, leaves what the tools accept alone.
OnlyApprovalChanges ==
    [][(\A i \in DOMAIN store : i \in DOMAIN store' /\ store'[i] = store[i])
          => /\ \A d \in Deltas : TolAccepts(d)' <=> TolAccepts(d)
             /\ \A r \in Ratios : RatioAccepts(r)' <=> RatioAccepts(r)]_vars

\* "take the most permissive ... across all of them, not just the latest"
\* (learning_agent.py:128-129): once a rule of its kind is approved, further
\* approvals, in any order, only make a tool accept more until the process ends.
ApprovalsAddUp ==
    [][crashes' = crashes
          => /\ Approved("widen_tolerance") # {}
                   => \A d \in Deltas : TolAccepts(d) => TolAccepts(d)'
             /\ Approved("lower_fuzzy_threshold") # {}
                   => \A r \in Ratios : RatioAccepts(r) => RatioAccepts(r)']_vars
=============================================================================
