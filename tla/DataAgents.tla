----------------------------- MODULE DataAgents -----------------------------
(***************************************************************************)
(* Ingestion followed by validation (datagents/agents/validation_agent.py,  *)
(* tools/validation_tools.py, guardrails/validators.py), as the ingestion   *)
(* and validation nodes of recon_platform/graph/build.py run them and as    *)
(* the stand-alone datagents/data_subgraph.py does.  What comes out is what *)
(* ReconGraph takes for granted of its sources.                             *)
(***************************************************************************)
EXTENDS Ingestion, FiniteSets

CONSTANTS
    Graphed,  \* runs of the reconciliation graph; the others run the sub-graph
    Gateway,  \* whether an LLM gateway is given
    MaxTries  \* max_retries of validate_with_retry

ASSUME GraphedAssumption == Graphed \subseteq Runs
ASSUME GatewayAssumption == Gateway \in BOOLEAN
ASSUME TriesAssumption   == MaxTries \in Nat

VARIABLES
    todo,      \* positions in merged[r].txns still to be judged
    invalid,   \* answers for the first of them that failed validation
    findings,  \* each run's findings: errors, and verdicts on ambiguous rows
    issues,    \* the issues a run ends up with
    asked      \* history: positions the gateway was asked about

vvars == <<todo, invalid, findings, issues, asked>>
vars  == <<ivars, vvars>>

Findings == [txn : Nat, reason : {"error", "ambiguous"}, escalate : BOOLEAN]
Records  == [severity : {"error", "warning", "review"}, row_ref : Nat]

Init ==
    /\ IngestInit
    /\ todo     = [r \in Runs |-> <<>>]
    /\ invalid  = [r \in Runs |-> 0]
    /\ findings = [r \in Runs |-> {}]
    /\ issues   = [r \in Runs |-> {}]
    /\ asked    = [r \in Runs |-> {}]

Txns(r)  == merged[r].txns
Row(r,i) == Txns(r)[i].row
Batch(r) == 1 .. Len(Txns(r))

-----------------------------------------------------------------------------
\* The deterministic tools flag a row that fails a check, and every row but the
\* first of those that share an id.
Failing(r) ==
    {i \in Batch(r) : \/ Row(r, i).form = "flawed"
                      \/ \E j \in 1 .. i - 1 : Row(r, j).id = Row(r, i).id}
FlaggedIds(r) == {Row(r, i).id : i \in Failing(r)}
IsAmbiguous(r, i) == Row(r, i).form \in {"unsure", "hostile"}

\* Ambiguous rows whose id is not flagged are judged when there is a gateway.
Unclear(r) ==
    {i \in Batch(r) : Gateway /\ IsAmbiguous(r, i) /\ Row(r, i).id \notin FlaggedIds(r)}

\* validate_transactions: the deterministic checks, then the judgments.
Check(r) ==
    /\ At(r, "check")
    /\ Goto(r, "judge")
    /\ findings' = [findings EXCEPT ![r] =
          {[txn |-> i, reason |-> "error", escalate |-> FALSE] : i \in Failing(r)}]
    /\ todo' = [todo EXCEPT ![r] = Among(Positions(Txns(r)), Unclear(r))]
    /\ UNCHANGED <<shipment, timer, staged, merged, calls, raced, down, invalid, issues, asked>>

Judging(r) == At(r, "judge") /\ todo[r] # <<>>

\* The first row of todo gets its verdict.
Settle(r, escalate) ==
    /\ findings' = [findings EXCEPT ![r] =
          @ \cup {[txn |-> Head(todo[r]), reason |-> "ambiguous", escalate |-> escalate]}]
    /\ todo'     = [todo EXCEPT ![r] = Tail(@)]
    /\ invalid'  = [invalid EXCEPT ![r] = 0]

\* The injection guard keeps a row from the gateway.
Refuse(r) ==
    /\ Judging(r) /\ Row(r, Head(todo[r])).form = "hostile"
    /\ Settle(r, TRUE)
    /\ UNCHANGED <<ivars, issues, asked>>

\* gateway.generate() is called for a row the guard lets through.
Ask(r) ==
    /\ Judging(r) /\ Row(r, Head(todo[r])).form # "hostile"
    /\ asked' = [asked EXCEPT ![r] = @ \cup {Head(todo[r])}]

\* A usable answer: "review", or a confidence below ESCALATE_CONFIDENCE,
\* escalates the row.
Answer(r) ==
    /\ Ask(r)
    /\ \E verdict \in {"ok", "review"}, sure \in BOOLEAN : Settle(r, verdict = "review" \/ ~sure)
    /\ UNCHANGED <<ivars, issues>>

\* The row is passed over once the answers run out.
Garbage_PassesOver(r) ==
    /\ Ask(r)
    /\ IF invalid[r] < MaxTries
       THEN /\ invalid' = [invalid EXCEPT ![r] = @ + 1]
            /\ UNCHANGED <<todo, findings>>
       ELSE /\ todo'    = [todo EXCEPT ![r] = Tail(@)]
            /\ invalid' = [invalid EXCEPT ![r] = 0]
            /\ UNCHANGED findings
    /\ UNCHANGED <<ivars, issues>>

\* One answer too many.
Garbage_OneMore(r) ==
    /\ Ask(r)
    /\ IF invalid[r] <= MaxTries
       THEN /\ invalid' = [invalid EXCEPT ![r] = @ + 1]
            /\ UNCHANGED <<todo, findings>>
       ELSE Settle(r, TRUE)
    /\ UNCHANGED <<ivars, issues>>

\* After the last answer it asks all over again.
Garbage_StartsOver(r) ==
    /\ Ask(r)
    /\ invalid' = [invalid EXCEPT ![r] = IF @ < MaxTries THEN @ + 1 ELSE 0]
    /\ UNCHANGED <<ivars, issues, todo, findings>>

\* validate_with_retry: an answer that does not validate is asked for again, and
\* after the last one GuardrailError escalates the row.
Garbage(r) ==
    /\ Ask(r)
    /\ IF invalid[r] < MaxTries
       THEN /\ invalid' = [invalid EXCEPT ![r] = @ + 1]
            /\ UNCHANGED <<todo, findings>>
       ELSE Settle(r, TRUE)
    /\ UNCHANGED <<ivars, issues>>

\* Whatever generate() raises leaves the validation.
GiveUp(r) ==
    /\ Ask(r)
    /\ Goto(r, "gave up")
    /\ UNCHANGED <<shipment, timer, staged, merged, calls, raced, down,
                   todo, invalid, findings, issues>>

\* validation_node makes an escalated finding a "review" issue; the sub-graph's
\* validation_agent leaves it a warning, and the escalation to the finding.
Severity(r, f) ==
    IF f.reason = "error" THEN "error"
    ELSE IF f.escalate /\ r \in Graphed THEN "review" ELSE "warning"

\* Findings become issues that name no row.
Conclude_WithoutRow(r) ==
    /\ At(r, "judge") /\ todo[r] = <<>>
    /\ Goto(r, "done")
    /\ issues' = [issues EXCEPT ![r] =
          {[severity |-> "error", row_ref |-> merged[r].issues[i].row_ref] :
              i \in 1 .. Len(merged[r].issues)}
          \cup {[severity |-> Severity(r, f), row_ref |-> NoRow] : f \in findings[r]}]
    /\ UNCHANGED <<shipment, timer, staged, merged, calls, raced, down,
                   todo, invalid, findings, asked>>

\* The issues of ingestion and those made of the findings, which name the row
\* (the code by its txn_id, here by its position).
Conclude(r) ==
    /\ At(r, "judge") /\ todo[r] = <<>>
    /\ Goto(r, "done")
    /\ issues' = [issues EXCEPT ![r] =
          {[severity |-> "error", row_ref |-> merged[r].issues[i].row_ref] :
              i \in 1 .. Len(merged[r].issues)}
          \cup {[severity |-> Severity(r, f), row_ref |-> f.txn] : f \in findings[r]}]
    /\ UNCHANGED <<shipment, timer, staged, merged, calls, raced, down,
                   todo, invalid, findings, asked>>

ValidateStep(r) ==
    Check(r) \/ Refuse(r) \/ Answer(r) \/ Garbage(r) \/ GiveUp(r) \/ Conclude(r)

\* What validation_gate looks for in the issues.
HasCriticalIssue(r)    == \E i \in issues[r] : i.severity = "error" /\ i.row_ref = NoRow
HasEscalationNeeded(r) == \E i \in issues[r] : i.severity = "review"

-----------------------------------------------------------------------------
Step(r) == (IngestStep(r) /\ UNCHANGED vvars) \/ ValidateStep(r)

Next == (\E r \in Runs : Step(r)) \/ (Tick /\ UNCHANGED vvars)

Ended(r)   == work[r].step \in {"done", "choked", "gave up"}
AllEnded   == \A r \in Runs : Ended(r)

Spec == Init /\ [][Next]_vars

\* Time goes on, calls return, and a run goes on when it can.
FairSpec == Spec /\ WF_vars(Tick /\ UNCHANGED vvars) /\ \A r \in Runs : WF_vars(Step(r))

-----------------------------------------------------------------------------
(* Properties.                                                             *)

\* Every variable has its type.
TypeOK ==
    /\ shipment \in Shipments
    /\ work   \in [Runs -> [source : Nat \ {0}, step : Steps, failed : Nat]]
    /\ timer  \in [Runs -> Clocks]
    /\ staged \in [Files -> Sources \cup {Nothing}]
    /\ \A r \in Runs :
          /\ merged[r].txns   \in Seq([source : Sources, row : Rows])
          /\ merged[r].issues \in Seq([source : Sources, row_ref : Nat])
          /\ merged[r].spans  \in Seq([source : Sources, attempts : Nat])
    /\ calls \in [Runs -> Nat]
    /\ raced \in [Runs -> SUBSET Sources] /\ down \in [Runs -> SUBSET Sources]
    /\ todo  \in [Runs -> Seq(Nat)] /\ invalid \in [Runs -> 0 .. MaxTries]
    /\ findings \in [Runs -> SUBSET Findings] /\ issues \in [Runs -> SUBSET Records]
    /\ asked \in [Runs -> SUBSET Nat]

\* A row without a reference does not slip through when there is a gateway: it
\* gets one verdict, which is to escalate it if the gateway never saw it, unless
\* some row of the same txn_id already has an error.
NothingSlipsThrough ==
    \A r \in Runs : Gateway /\ At(r, "done") =>
        \A i \in Batch(r) : IsAmbiguous(r, i) =>
            LET verdicts == {f \in findings[r] : f.txn = i /\ f.reason = "ambiguous"}
            IN  \/ /\ Cardinality(verdicts) = 1
                   /\ i \notin asked[r] => \A f \in verdicts : f.escalate
                \/ \E f \in findings[r] : f.reason = "error" /\ Row(r, f.txn).id = Row(r, i).id

\* What validation_gate, and with it ReconGraph, takes for granted.  Only a
\* source that was given up makes a run ingest again, never a row, whatever is
\* wrong with it; and only an escalated row stops it for a review, never a row
\* with an error.
GateSeesTheTruth ==
    \A r \in Graphed : At(r, "done") =>
        /\ HasCriticalIssue(r) <=> down[r] # {}
        /\ HasEscalationNeeded(r) <=>
              \E f \in findings[r] : f.escalate /\ IsAmbiguous(r, f.txn)
                                     /\ Row(r, f.txn).id \notin FlaggedIds(r)

\* Every run comes to its end, however often its sources fail.
RunsEnd == <>AllEnded
=============================================================================
