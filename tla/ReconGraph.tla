----------------------------- MODULE ReconGraph -----------------------------
(***************************************************************************)
(* Reconciliation runs as LangGraph threads: the node functions of          *)
(* recon_platform/graph/build.py, the idempotent entry point of             *)
(* graph/checkpointer.py, the human-in-the-loop entry points of             *)
(* hitl/resume.py, and the review queue they all share.                     *)
(*                                                                         *)
(* A run is a thread of the checkpointer.  After every node LangGraph saves *)
(* which node ran (at) and the channel values (state); these survive a      *)
(* restart of the process.  The invocations in progress (call, armed) and   *)
(* the review queue (queue) live in the process and are lost with it.       *)
(* Several runs are driven, and their exceptions reviewed, concurrently.    *)
(***************************************************************************)
EXTENDS Routing, ReviewQueue

CONSTANTS
    HitlRuns,   \* runs driven by start_run_with_hitl / resume_with_decision;
                \* the others are driven by run_pipeline
    Feeds,      \* what the configured sources may deliver, a set of
                \* deliveries
    Gateway,    \* whether an LLM gateway is bound into the nodes
    Decisions,  \* the decisions an analyst may inject
    MaxStarts,  \* bound: passes begun from START, per run
    MaxCrashes  \* bound: process crashes

\* What one ingestion brings in: no rows, clean rows, rows with one an LLM has
\* to judge, rows that repeat a txn_id, both of these, or a row the source tools
\* choke on; and whether a source was out.
Batches    == {"empty", "clean", "ambiguous", "duplicate", "both", "malformed"}
Deliveries == [batch : Batches, outage : BOOLEAN]

ASSUME HitlAssumption     == HitlRuns \subseteq Runs
ASSUME FeedAssumption     == Feeds \subseteq Deliveries
ASSUME GatewayAssumption  == Gateway \in BOOLEAN
ASSUME DecisionAssumption ==
    Decisions \subseteq {"proceed", "zero_unmatched", "clear_issues"}
ASSUME BoundAssumption    == MaxStarts \in Nat /\ MaxCrashes \in Nat

VARIABLES
    at,      \* checkpointed: the last node of each run, "start" or "none"
    state,   \* checkpointed: the channel values of each run
    call,    \* in the process: the entry point now driving each run
    armed,   \* in the process: whether reaching the interrupt point pauses
    queue,   \* in the process: the review queue
    hist,    \* history: what the properties need to remember of each run
    starts, crashes  \* counters behind MaxStarts and MaxCrashes

vars == <<at, state, call, armed, queue, hist, starts, crashes>>

Reports == {"none", "open", "ready"}   \* what the ReconReport says of close_ready
States  == [configured  : BOOLEAN,
            feed        : Deliveries,
            issues      : SUBSET {"critical", "review"},
            retry_count : Nat,
            unmatched   : BOOLEAN,
            exceptions  : SUBSET Items,
            risky       : SUBSET Items,
            close_ready : BOOLEAN,
            report      : Reports]
\* Bound: ingestions of one pass counted in the history.
IngestCap == MAX_VALIDATION_RETRIES + 2

History == [ingested : 0 .. IngestCap,  \* ingestions completed in this pass
            escalated : BOOLEAN,        \* resolution ran in this pass and process
            shown     : SUBSET Items,   \* exceptions standing at the last decision
            decided   : BOOLEAN,        \* an analyst decided something in this pass
            reviewed  : SUBSET Items]   \* exceptions an analyst resolved, ever

Ended    == {"consolidation", "reporting", "learning"}

\* What the nodes can tell of the rows a run holds.
HasAmbiguous(t) == state[t].feed.batch \in {"ambiguous", "both"}
RepeatsAnId(t)  == state[t].feed.batch \in {"duplicate", "both"}
HasRows(t)      == state[t].feed.batch # "empty"

\* Definitions named X_... are faulty variants of X.  They are no part of the
\* specification: each is a slip the code could contain, and shows that some
\* property below would notice it.

\* The checkpointer's view of a thread: get_state(config).next, and whether a
\* completed thread is one run_pipeline will skip.
Upcoming(t) == Successor(at[t], state[t])
Done(t)     == at[t] # "none" /\ Upcoming(t) = "end"
Skipped(t)  == Done(t) /\ state[t].close_ready

\* The interrupt compiled into every graph, run_pipeline's too.
Paused_Everywhere(t) == Upcoming(t) = "resolution" /\ armed[t] /\ call[t] # "idle"

\* Only exceptions pause a run, ambiguous rows do not.
Paused_OnlyUnmatched(t) ==
    Upcoming(t) = "resolution" /\ armed[t] /\ call[t] \in {"start", "resume"}
    /\ state[t].unmatched

\* An invocation stops at the end of the graph, and before "resolution" in the
\* graph that build_hitl_graph compiles unless it has just been resumed there.
Paused(t) == Upcoming(t) = "resolution" /\ armed[t] /\ call[t] \in {"start", "resume"}
Halted(t) == Upcoming(t) = "end" \/ Paused(t)

\* No run has been heard of and the process has just started.
Fresh ==
    /\ at    = [t \in Runs |-> "none"]
    /\ state = [t \in Runs |->
                  [configured |-> FALSE, feed |-> [batch |-> "empty", outage |-> FALSE],
                   issues |-> {}, retry_count |-> 0, unmatched |-> FALSE,
                   exceptions |-> {}, risky |-> {}, close_ready |-> FALSE,
                   report |-> "none"]]
    /\ call  = [t \in Runs |-> "idle"]
    /\ armed = [t \in Runs |-> FALSE]
    /\ queue = EmptyQueue
    /\ hist  = [t \in Runs |-> [ingested |-> 0, escalated |-> FALSE, shown |-> {},
                                decided |-> FALSE, reviewed |-> {}]]

Init ==
    /\ Fresh
    /\ starts  = [t \in Runs |-> 0]
    /\ crashes = 0

-----------------------------------------------------------------------------
(* Entry points.                                                           *)

\* The channel values, and the history, of one run.
Save(t, s)     == state' = [state EXCEPT ![t] = s]
Remember(t, h) == hist' = [hist EXCEPT ![t] = h]

\* The channel values after an input is written: a channel the input does not
\* name keeps its value, retry_count and exceptions among them.  The input
\* either configures the sources or seeds the counts.
FreshStates(t) ==
    {[state[t] EXCEPT !.issues = {}, !.configured = TRUE]} \cup
    {[state[t] EXCEPT !.issues = {}, !.unmatched = u, !.close_ready = TRUE] :
        u \in IF t \in HitlRuns THEN BOOLEAN ELSE {FALSE}}

\* graph.invoke(input): a new pass from START on the same thread.
Begin(t, kind) ==
    /\ call[t] = "idle" /\ starts[t] < MaxStarts
    /\ \E s \in FreshStates(t) : Save(t, s)
    /\ at'     = [at EXCEPT ![t] = "start"]
    /\ call'   = [call EXCEPT ![t] = kind]
    /\ armed'  = [armed EXCEPT ![t] = TRUE]
    /\ Remember(t, [hist[t] EXCEPT !.ingested = 0, !.escalated = FALSE, !.decided = FALSE])
    /\ starts' = [starts EXCEPT ![t] = @ + 1]
    /\ UNCHANGED <<queue, crashes>>

\* A completed run is processed again.
BeginPipeline_NeverSkips(t) ==
    t \notin HitlRuns /\ Upcoming(t) = "end" /\ Begin(t, "pipeline")

\* An interrupted run is given a fresh state and starts over (C16's bug).
BeginPipeline_StartsOver(t) == t \notin HitlRuns /\ ~Skipped(t) /\ Begin(t, "pipeline")

\* run_pipeline on a thread with nothing left to run.  Reading the checkpoint and
\* the invoke() that follows (checkpointer.py:65-82) are one step, and a thread has
\* one call at a time (call[t] = "idle"): callers see to that, no lock does.
BeginPipeline(t) == /\ t \notin HitlRuns
                    /\ Upcoming(t) = "end" /\ ~Skipped(t)
                    /\ Begin(t, "pipeline")

\* run_pipeline on a thread with pending nodes: invoke(None), no input.
ContinuePipeline(t) ==
    /\ t \notin HitlRuns
    /\ call[t] = "idle" /\ Upcoming(t) # "end"
    /\ call' = [call EXCEPT ![t] = "pipeline"]
    /\ UNCHANGED <<at, state, armed, queue, hist, starts, crashes>>

\* start_run_with_hitl, whatever the thread holds already.
StartHitl(t) == t \in HitlRuns /\ Begin(t, "start")

\* resume_with_decision: update_state() writes the decision as the node that
\* ran last, so that node's conditional edge is taken again, then invoke(None)
\* runs on without stopping where it stands.
ResumeHitl(t) ==
    /\ t \in HitlRuns
    /\ call[t] = "idle" /\ at[t] \notin {"none", "start"}
    /\ \E d \in Decisions :
          Save(t, [state[t] EXCEPT
              !.unmatched = IF d = "zero_unmatched" THEN FALSE ELSE @,
              !.issues    = IF d = "clear_issues" THEN {} ELSE @])
    /\ call'  = [call EXCEPT ![t] = "resume"]
    /\ armed' = [armed EXCEPT ![t] = FALSE]
    /\ Remember(t, [hist[t] EXCEPT !.shown = state[t].exceptions, !.decided = TRUE])
    /\ UNCHANGED <<at, queue, starts, crashes>>

\* A run is put on the queue unless it is on it, resolved or not.
Return_AddsOnce(t) ==
    /\ call[t] # "idle" /\ Halted(t)
    /\ call'  = [call EXCEPT ![t] = "idle"]
    /\ queue' = CASE call[t] = "start" /\ Upcoming(t) = "resolution"
                     /\ queue[t][Plain] = "absent" -> Add(queue, t, Plain)
                  [] call[t] = "resume" -> MarkResolved(queue, t, Plain)
                  [] OTHER -> queue
    /\ UNCHANGED <<at, state, armed, hist, starts, crashes>>

\* The entry point after its invoke(): start_run_with_hitl registers a paused
\* run, resume_with_decision marks its run resolved, run_pipeline just returns.
Return(t) ==
    /\ call[t] # "idle" /\ Halted(t)
    /\ call'  = [call EXCEPT ![t] = "idle"]
    /\ queue' = CASE call[t] = "start" /\ Upcoming(t) = "resolution" -> Add(queue, t, Plain)
                  [] call[t] = "resume" -> MarkResolved(queue, t, Plain)
                  [] OTHER -> queue
    /\ UNCHANGED <<at, state, armed, hist, starts, crashes>>

-----------------------------------------------------------------------------
(* Nodes.  Each is one super-step: the node function, then the checkpoint. *)

\* Once resumed, an invocation never stops at the interrupt again.
RunNode_NeverRearms(t, n) ==
    /\ call[t] # "idle" /\ ~Halted(t)
    /\ Upcoming(t) = n
    /\ at' = [at EXCEPT ![t] = n]
    /\ UNCHANGED <<armed, call, starts, crashes>>

RunNode(t, n) ==
    /\ call[t] # "idle" /\ ~Halted(t)
    /\ Upcoming(t) = n
    /\ at'    = [at EXCEPT ![t] = n]
    /\ armed' = [armed EXCEPT ![t] = TRUE]
    /\ UNCHANGED <<call, starts, crashes>>

Supervise(t) == RunNode(t, "supervisor") /\ UNCHANGED <<state, queue, hist>>

\* The history counts ingestions up to its bound.
CountIngestion(t) ==
    Remember(t, [hist[t] EXCEPT !.ingested = IF @ < IngestCap THEN @ + 1 ELSE @])

\* retry_count is not counted up when ingestion really ran.
Ingest_NoCount(t) ==
    /\ RunNode(t, "ingestion")
    /\ \E f \in Feeds :
          Save(t, [state[t] EXCEPT
              !.feed   = f,
              !.issues = @ \cup (IF f.outage THEN {"critical"} ELSE {})])
    /\ CountIngestion(t)
    /\ UNCHANGED queue

\* ingestion_node: replaces the transactions, adds to the issues.
Ingest(t) ==
    /\ RunNode(t, "ingestion")
    /\ \/ /\ state[t].configured
          /\ \E f \in {d \in Feeds : d.batch # "malformed"} :
                Save(t, [state[t] EXCEPT
                    !.feed        = f,
                    !.issues      = @ \cup (IF f.outage THEN {"critical"} ELSE {}),
                    !.retry_count = @ + 1])
       \/ /\ ~state[t].configured
          /\ Save(t, [state[t] EXCEPT !.retry_count = @ + 1])
    /\ CountIngestion(t)
    /\ UNCHANGED queue

\* validation_node: with a gateway an ambiguous row may be handed to a human.
\* Findings about a single row never reach a gate and are left out.
Validate(t) ==
    /\ RunNode(t, "validation")
    /\ \/ UNCHANGED state
       \/ /\ Gateway /\ HasAmbiguous(t)
          /\ Save(t, [state[t] EXCEPT !.issues = @ \cup {"review"}])
    /\ UNCHANGED <<queue, hist>>

Normalize(t) == RunNode(t, "normalization") /\ UNCHANGED <<state, queue, hist>>

\* matching_node: every transaction left unmatched becomes one exception, and
\* some of them carry enough risk to be escalated.
Match(t) ==
    /\ RunNode(t, "matching")
    /\ ~RepeatsAnId(t)
    /\ \/ ~HasRows(t) /\ UNCHANGED state
       \/ /\ HasRows(t)
          /\ \E left \in SUBSET Items : \E high \in SUBSET left :
                Save(t, [state[t] EXCEPT !.exceptions = left, !.risky = high,
                                         !.unmatched = (left # {})])
    /\ UNCHANGED <<queue, hist>>

\* A node raises: ingestion on a row its tools do not expect, matching on a
\* repeated txn_id, validation, normalization and matching when the gateway
\* does, matching also when the semantic matcher's output fails its guardrail.
\* No checkpoint is written, and the exception leaves the entry point before
\* anything it does after invoke().
NodeFails(t) ==
    /\ call[t] # "idle" /\ ~Halted(t)
    /\ \/ /\ Upcoming(t) = "ingestion" /\ state[t].configured
          /\ \E f \in Feeds : f.batch = "malformed"
       \/ Upcoming(t) = "validation" /\ Gateway /\ HasAmbiguous(t)
       \/ Upcoming(t) = "normalization" /\ Gateway /\ HasRows(t)
       \/ Upcoming(t) = "matching" /\ (RepeatsAnId(t) \/ (Gateway /\ HasRows(t)))
    /\ call' = [call EXCEPT ![t] = "idle"]
    /\ UNCHANGED <<at, state, armed, queue, hist, starts, crashes>>

\* resolution_node
Resolve(t) ==
    /\ RunNode(t, "resolution")
    /\ queue' = Escalate(queue, t, state[t].risky)
    /\ Remember(t, [hist[t] EXCEPT !.escalated = TRUE])
    /\ UNCHANGED state

\* close_ready is taken from the caller's input, as it was before C14.
Consolidate_TrustsCaller(t) ==
    /\ RunNode(t, "consolidation")
    /\ Save(t, [state[t] EXCEPT !.report = IF state[t].close_ready THEN "ready" ELSE "open"])
    /\ UNCHANGED <<queue, hist>>

\* consolidation_node: close_ready comes from the live queue.
Consolidate(t) ==
    /\ RunNode(t, "consolidation")
    /\ LET ready == PendingForRun(queue, t) = {}
       IN  Save(t, [state[t] EXCEPT !.close_ready = ready,
                                    !.report = IF ready THEN "ready" ELSE "open"])
    /\ UNCHANGED <<queue, hist>>

Report(t) == RunNode(t, "reporting") /\ UNCHANGED <<state, queue, hist>>

Learn(t) == RunNode(t, "learning") /\ UNCHANGED <<state, queue, hist>>

-----------------------------------------------------------------------------
(* The analyst and the machine.                                            *)

\* resolve_exception() for an exception of the run that is on the queue.
ResolveException(t, i) ==
    /\ i \in state[t].exceptions /\ queue[t][i] = "pending"
    /\ queue' = MarkResolved(queue, t, i)
    /\ Remember(t, [hist[t] EXCEPT !.reviewed = @ \cup {i}])
    /\ UNCHANGED <<at, state, call, armed, starts, crashes>>

\* The process dies: invocations and queue are gone, checkpoints stay.
Crash ==
    /\ crashes < MaxCrashes
    /\ call'    = [t \in Runs |-> "idle"]
    /\ queue'   = EmptyQueue
    /\ hist'    = [t \in Runs |-> [hist[t] EXCEPT !.escalated = FALSE]]
    /\ crashes' = crashes + 1
    /\ UNCHANGED <<at, state, armed, starts>>

\* close_period() of a run's report does not raise.
CanClose(t) == state[t].report = "ready"

-----------------------------------------------------------------------------
Process(t) == \/ Supervise(t) \/ Ingest(t) \/ Validate(t) \/ Normalize(t)
              \/ Match(t) \/ NodeFails(t) \/ Resolve(t) \/ Consolidate(t)
              \/ Report(t) \/ Learn(t) \/ Return(t)
Caller(t)  == BeginPipeline(t) \/ ContinuePipeline(t) \/ StartHitl(t) \/ ResumeHitl(t)
Analyst(t) == \E i \in Items : ResolveException(t, i)

Next == (\E t \in Runs : Process(t) \/ Caller(t) \/ Analyst(t)) \/ Crash

Spec == Init /\ [][Next]_vars

\* An invocation that has begun goes on, and the scheduler keeps calling
\* run_pipeline.  Nobody is obliged to start, resume, resolve or crash.
Fairness == \A t \in Runs : /\ WF_vars(Process(t))
                            /\ WF_vars(BeginPipeline(t) \/ ContinuePipeline(t))
FairSpec == Spec /\ Fairness

-----------------------------------------------------------------------------
(* Properties.                                                             *)

\* Every variable has its type.
TypeOK ==
    /\ at      \in [Runs -> Nodes \cup {"none", "start"}]
    /\ state   \in [Runs -> States]
    /\ call    \in [Runs -> {"idle", "pipeline", "start", "resume"}]
    /\ armed   \in [Runs -> BOOLEAN]
    /\ queue   \in Queues
    /\ hist    \in [Runs -> History]
    /\ starts  \in [Runs -> Nat]
    /\ crashes \in Nat

\* What consolidation_node promises (C14), across interleaved analysts, runs
\* and passes: when resolution ran in this pass and the process has not died
\* since, a report that says ready means an analyst resolved every high-risk
\* exception of the run.
SignedOff ==
    \A t \in Runs : hist[t].escalated /\ at[t] \in Ended /\ CanClose(t)
                       => state[t].risky \subseteq hist[t].reviewed

\* close_ready, once computed, never comes to coexist with a pending exception
\* of the run: nothing may be escalated behind a run that learning and
\* run_pipeline's skip already treat as complete.
ReadyHasNothingPending ==
    \A t \in Runs : at[t] \in Ended /\ state[t].close_ready
                       => PendingForRun(queue, t) = {}

\* validation_gate and ingestion_node together stop the retry loop: no pass
\* ingests more than MAX_VALIDATION_RETRIES times, crashes and resumes included.
RetriesBounded == \A t \in Runs : hist[t].ingested <= MAX_VALIDATION_RETRIES

\* Escalation is idempotent (B9): while the process lives, an exception an
\* analyst resolved is never put back to pending, whichever pass escalates it
\* again.
ResolvedStaysResolved ==
    [][\A t \in Runs, i \in Items :
          queue[t][i] = "resolved" /\ crashes' = crashes => queue'[t][i] = "resolved"]_vars

\* run_pipeline is idempotent: whatever is called afterwards, a run that is
\* complete and close-ready keeps its checkpoint for ever.
CompletedIsFinal ==
    [][\A t \in Runs \ HitlRuns :
          Skipped(t) => at'[t] = at[t] /\ state'[t] = state[t]]_vars

\* The order of the nodes along the graph.
Rank == [none |-> 0, start |-> 0, supervisor |-> 1, ingestion |-> 2, validation |-> 3,
         normalization |-> 4, matching |-> 5, resolution |-> 6, consolidation |-> 7,
         reporting |-> 8, learning |-> 9]

\* run_pipeline after a kill goes on where the checkpoint stands (C16): short
\* of a retry of ingestion, a node that completed never runs again, and a new
\* pass begins only when the last one came to its end.
NoRework ==
    [][\A t \in Runs \ HitlRuns :
          at'[t] # at[t] => \/ Rank[at'[t]] > Rank[at[t]]
                            \/ at[t] = "validation" /\ at'[t] = "ingestion"
                            \/ at[t] = "none" \/ Done(t)]_vars

\* The interrupt before resolution: in a human-in-the-loop run, what
\* resolution_node escalates is what stood when an analyst last decided, even
\* when the decision sends the run back through matching.
ResolutionIsSanctioned ==
    [][\A t \in HitlRuns :
          at[t] # "resolution" /\ at'[t] = "resolution"
             => hist[t].decided /\ state[t].exceptions = hist[t].shown]_vars

\* "individual rows that genuinely need a human decision" (routing.py:35-38):
\* a human-in-the-loop run that holds such a row is ready only after an analyst
\* decided in this pass.  run_pipeline has no interrupt and goes straight on.
ReviewRowsSeeAHuman ==
    \A t \in HitlRuns : at[t] \in Ended /\ CanClose(t) /\ "review" \in state[t].issues
                           => hist[t].decided

\* "tracks which runs are currently waiting on a human" (review_queue.py:4): a
\* run that stands at the interrupt with no invocation at work is on the queue,
\* unless the process died or its analyst already decided once in this pass: a
\* decision that makes the run pause again marks it resolved.
PausedRunIsListed ==
    \A t \in HitlRuns :
        /\ call[t] = "idle" /\ armed[t] /\ Upcoming(t) = "resolution"
        /\ crashes = 0 /\ ~hist[t].decided
        => queue[t][Plain] = "pending"

\* Every invocation returns to its caller: the retry loop, the pauses and the
\* failures all come to an end.
CallsReturn == \A t \in Runs : call[t] # "idle" ~> call[t] = "idle"

\* A scheduler that keeps calling run_pipeline brings every pass it began to
\* the end of the graph, over crashes and outages of the sources.
PipelineFinishes == \A t \in Runs \ HitlRuns : at[t] = "start" ~> Done(t)

-----------------------------------------------------------------------------
(* What the documentation says and the code does not do.                   *)

\* "an escalated one does [block close] until an analyst resolves it, even
\* across a resumed HITL run" (graph/build.py:327-331): a ready report of a
\* run that went through resolution means its high-risk exceptions were
\* reviewed.
ReadyMeansReviewed ==
    \A t \in Runs : at[t] \in Ended /\ CanClose(t) /\ state[t].unmatched
                       => state[t].risky \subseteq hist[t].reviewed

\* "a batch-level failure ... exactly what the retry-then-escalate loop below
\* exists for" (routing.py:18-20): when the retry reads the sources without an
\* outage the run proceeds to normalization.
RecoveredSourceProceeds ==
    \A t \in Runs : at[t] = "validation" /\ state[t].configured /\ hist[t].ingested > 1
                    /\ ~state[t].feed.outage /\ "review" \notin state[t].issues
                       => Upcoming(t) = "normalization"
=============================================================================
