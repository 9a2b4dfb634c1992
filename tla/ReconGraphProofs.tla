-------------------------- MODULE ReconGraphProofs --------------------------
(***************************************************************************)
(* Theorems about ReconGraph, for every set of runs, items, feeds and       *)
(* decisions and every bound.                                              *)
(***************************************************************************)
EXTENDS ReconGraph, TLAPS

-----------------------------------------------------------------------------
(* Type correctness.                                                       *)

\* The initial state has its types.
LEMMA InitTypeOK == Init => TypeOK
  BY BoundAssumption DEF Init, Fresh, TypeOK, States, History, Reports, Deliveries, Batches, Queues, Keys,
     Status, EmptyQueue, IngestCap, MAX_VALIDATION_RETRIES

\* The queue operators keep the queue a queue.
LEMMA QueueTypes ==
    ASSUME NEW q \in Queues, NEW r \in Runs
    PROVE  /\ EmptyQueue \in Queues
           /\ \A k \in Keys : Add(q, r, k) \in Queues /\ MarkResolved(q, r, k) \in Queues
           /\ \A risky : Escalate(q, r, risky) \in Queues
  BY DEF Queues, Keys, Status, EmptyQueue, Add, MarkResolved, Escalate

\* What one run's checkpoint, history and counter may be.
LEMMA RowTypes ==
    ASSUME TypeOK, NEW t \in Runs
    PROVE  state[t] \in States /\ hist[t] \in History /\ starts[t] \in Nat
  BY DEF TypeOK

\* Saving well-typed channel values keeps state typed.
LEMMA SaveType ==
    ASSUME state \in [Runs -> States], NEW t \in Runs, NEW s \in States, Save(t, s)
    PROVE  state' \in [Runs -> States]
  BY DEF Save

\* Remembering a well-typed history keeps hist typed.
LEMMA RememberType ==
    ASSUME hist \in [Runs -> History], NEW t \in Runs, NEW h \in History, Remember(t, h)
    PROVE  hist' \in [Runs -> History]
  BY DEF Remember

\* The channel values a new input leaves behind are well typed.
LEMMA FreshType ==
    ASSUME state \in [Runs -> States], NEW t \in Runs
    PROVE  FreshStates(t) \subseteq States
<1>1. SUFFICES ASSUME NEW s \in FreshStates(t)
               PROVE  s \in States
    OBVIOUS
<1>2. state[t] \in States
    OBVIOUS
<1>3. CASE s = [state[t] EXCEPT !.issues = {}, !.configured = TRUE]
    BY <1>2, <1>3 DEF States
<1>4. ASSUME NEW u \in BOOLEAN,
             s = [state[t] EXCEPT !.issues = {}, !.unmatched = u, !.close_ready = TRUE]
      PROVE  s \in States
    BY <1>2, <1>4 DEF States
<1>5. QED
    BY <1>3, <1>4 DEF FreshStates

\* Starting a pass keeps the types.
LEMMA BeginType ==
    ASSUME TypeOK, NEW t \in Runs, NEW kind \in {"pipeline", "start"}, Begin(t, kind)
    PROVE  TypeOK'
<1>1. state' \in [Runs -> States]
    BY FreshType, SaveType DEF Begin, TypeOK
<1>2. hist' \in [Runs -> History]
  <2>1. 0 \in 0 .. IngestCap
      BY DEF IngestCap, MAX_VALIDATION_RETRIES
  <2>2. [hist[t] EXCEPT !.ingested = 0, !.escalated = FALSE, !.decided = FALSE] \in History
      BY <2>1, RowTypes DEF History
  <2>3. QED
      BY <2>2, RememberType DEF Begin, TypeOK
<1>3. starts' \in [Runs -> Nat]
    BY DEF Begin, TypeOK
<1>4. QED
    BY <1>1, <1>2, <1>3 DEF Begin, TypeOK

\* So does ingestion_node,
LEMMA IngestType ==
    ASSUME TypeOK, NEW t \in Runs, Ingest(t)
    PROVE  TypeOK'
<1>1. state' \in [Runs -> States]
  <2>1. ASSUME NEW f \in Feeds
        PROVE  [state[t] EXCEPT
                    !.feed        = f,
                    !.issues      = @ \cup (IF f.outage THEN {"critical"} ELSE {}),
                    !.retry_count = @ + 1] \in States
    <3>1. f \in Deliveries
        BY FeedAssumption
    <3>2. state[t].issues \cup (IF f.outage THEN {"critical"} ELSE {})
             \in SUBSET {"critical", "review"}
        BY RowTypes DEF States
    <3>3. ASSUME NEW found \in SUBSET {"critical", "review"}, NEW n \in Nat
          PROVE  [state[t] EXCEPT !.feed = f, !.issues = found, !.retry_count = n] \in States
      <4>1. state[t] \in States
          BY RowTypes
      <4>2. QED
          BY <3>1, <4>1 DEF States
    <3>4. state[t].retry_count + 1 \in Nat
        BY RowTypes DEF States
    <3>5. QED
        BY <3>2, <3>3, <3>4
  <2>2. [state[t] EXCEPT !.retry_count = @ + 1] \in States
      BY RowTypes DEF States
  <2>3. QED
      BY <2>1, <2>2, SaveType DEF Ingest, TypeOK
<1>2. hist' \in [Runs -> History]
  <2>1. [hist[t] EXCEPT !.ingested = IF @ < IngestCap THEN @ + 1 ELSE @] \in History
      BY RowTypes DEF History, IngestCap, MAX_VALIDATION_RETRIES
  <2>2. QED
      BY <2>1, RememberType DEF Ingest, CountIngestion, TypeOK
<1>3. QED
    BY <1>1, <1>2 DEF Ingest, RunNode, TypeOK, Nodes

\* validation_node,
LEMMA ValidateType ==
    ASSUME TypeOK, NEW t \in Runs, Validate(t)
    PROVE  TypeOK'
<1>1. [state[t] EXCEPT !.issues = @ \cup {"review"}] \in States
    BY RowTypes DEF States
<1>2. state' \in [Runs -> States]
    BY <1>1, SaveType DEF Validate, TypeOK
<1>3. QED
    BY <1>2 DEF Validate, RunNode, TypeOK, Nodes

\* matching_node,
LEMMA MatchType ==
    ASSUME TypeOK, NEW t \in Runs, Match(t)
    PROVE  TypeOK'
<1>1. ASSUME NEW left \in SUBSET Items, NEW high \in SUBSET left
      PROVE  [state[t] EXCEPT !.exceptions = left, !.risky = high,
                              !.unmatched = (left # {})] \in States
    BY RowTypes DEF States
<1>2. state' \in [Runs -> States]
    BY <1>1, SaveType DEF Match, TypeOK
<1>3. QED
    BY <1>2 DEF Match, RunNode, TypeOK, Nodes

\* consolidation_node,
LEMMA ConsolidateType ==
    ASSUME TypeOK, NEW t \in Runs, Consolidate(t)
    PROVE  TypeOK'
<1>1. ASSUME NEW ready \in BOOLEAN
      PROVE  [state[t] EXCEPT !.close_ready = ready,
                              !.report = IF ready THEN "ready" ELSE "open"] \in States
    BY RowTypes DEF States, Reports
<1>2. state' \in [Runs -> States]
    BY <1>1, SaveType DEF Consolidate, TypeOK
<1>3. QED
    BY <1>2 DEF Consolidate, RunNode, TypeOK, Nodes

\* resume_with_decision,
LEMMA ResumeType ==
    ASSUME TypeOK, NEW t \in Runs, ResumeHitl(t)
    PROVE  TypeOK'
<1>1. ASSUME NEW d \in Decisions
      PROVE  [state[t] EXCEPT
                 !.unmatched = IF d = "zero_unmatched" THEN FALSE ELSE @,
                 !.issues    = IF d = "clear_issues" THEN {} ELSE @] \in States
    BY RowTypes DEF States
<1>2. [hist[t] EXCEPT !.shown = state[t].exceptions, !.decided = TRUE] \in History
    BY RowTypes DEF States, History
<1>3. QED
    BY <1>1, <1>2, SaveType, RememberType DEF ResumeHitl, TypeOK

\* the end of an invocation,
LEMMA ReturnType ==
    ASSUME TypeOK, NEW t \in Runs, Return(t)
    PROVE  TypeOK'
<1>1. queue' \in Queues
    BY QueueTypes DEF Return, TypeOK, Keys
<1>2. QED
    BY <1>1 DEF Return, TypeOK

\* resolution_node,
LEMMA ResolveType ==
    ASSUME TypeOK, NEW t \in Runs, Resolve(t)
    PROVE  TypeOK'
<1>1. queue' \in Queues
    BY QueueTypes DEF Resolve, TypeOK
<1>2. hist' \in [Runs -> History]
  <2>1. [hist[t] EXCEPT !.escalated = TRUE] \in History
      BY RowTypes DEF History
  <2>2. QED
      BY <2>1, RememberType DEF Resolve, TypeOK
<1>3. QED
    BY <1>1, <1>2 DEF Resolve, RunNode, TypeOK, Nodes

\* resolve_exception,
LEMMA AnalystType ==
    ASSUME TypeOK, NEW t \in Runs, NEW i \in Items, ResolveException(t, i)
    PROVE  TypeOK'
<1>1. queue' \in Queues
    BY QueueTypes DEF ResolveException, TypeOK, Keys
<1>2. hist' \in [Runs -> History]
  <2>1. [hist[t] EXCEPT !.reviewed = @ \cup {i}] \in History
      BY RowTypes DEF History
  <2>2. QED
      BY <2>1, RememberType DEF ResolveException, TypeOK
<1>3. QED
    BY <1>1, <1>2 DEF ResolveException, TypeOK

\* a crash,
LEMMA CrashType == TypeOK /\ Crash => TypeOK'
<1> SUFFICES ASSUME TypeOK, Crash
             PROVE  TypeOK'
    OBVIOUS
<1>1. queue' \in Queues
    BY QueueTypes DEF Crash, TypeOK, EmptyQueue, Queues, Keys, Status
<1>2. hist' \in [Runs -> History]
    BY DEF Crash, TypeOK, History
<1>3. QED
    BY <1>1, <1>2 DEF Crash, TypeOK

\* and so every step.
LEMMA StepTypeOK == TypeOK /\ [Next]_vars => TypeOK'
<1> SUFFICES ASSUME TypeOK, [Next]_vars
             PROVE  TypeOK'
    OBVIOUS
<1>1. ASSUME NEW t \in Runs, Process(t)
      PROVE  TypeOK'
  <2>1. CASE Supervise(t) \/ Normalize(t) \/ Report(t) \/ Learn(t)
      BY <2>1 DEF Supervise, Normalize, Report, Learn, RunNode, TypeOK, Nodes
  <2>2. CASE Ingest(t)
      BY <2>2, IngestType
  <2>3. CASE Validate(t)
      BY <2>3, ValidateType
  <2>4. CASE Match(t)
      BY <2>4, MatchType
  <2>5. CASE NodeFails(t)
      BY <2>5 DEF NodeFails, TypeOK
  <2>6. CASE Resolve(t)
      BY <2>6, ResolveType
  <2>7. CASE Consolidate(t)
      BY <2>7, ConsolidateType
  <2>8. CASE Return(t)
      BY <2>8, ReturnType
  <2>9. QED
      BY <1>1, <2>1, <2>2, <2>3, <2>4, <2>5, <2>6, <2>7, <2>8 DEF Process
<1>2. ASSUME NEW t \in Runs, Caller(t)
      PROVE  TypeOK'
  <2>1. CASE BeginPipeline(t) \/ StartHitl(t)
      BY <2>1, BeginType DEF BeginPipeline, StartHitl
  <2>2. CASE ContinuePipeline(t)
      BY <2>2 DEF ContinuePipeline, TypeOK
  <2>3. CASE ResumeHitl(t)
      BY <2>3, ResumeType
  <2>4. QED
      BY <1>2, <2>1, <2>2, <2>3 DEF Caller
<1>3. ASSUME NEW t \in Runs, Analyst(t)
      PROVE  TypeOK'
    BY <1>3, AnalystType DEF Analyst
<1>4. CASE Crash
    BY <1>4, CrashType
<1>5. CASE UNCHANGED vars
    BY <1>5 DEF vars, TypeOK
<1>6. QED
    BY <1>1, <1>2, <1>3, <1>4, <1>5 DEF Next

\* TypeOK holds of every instance: whatever the feeds, the decisions and the
\* crashes, the checkpoints and the queue only hold values of their type.
THEOREM TypeCorrect == Spec => []TypeOK
  BY InitTypeOK, StepTypeOK, PTL DEF Spec

-----------------------------------------------------------------------------
(* Where a run stands when a node is about to run.                         *)

\* Which node can have run last when a given node is due: the edges of
\* build_graph read backwards.
LEMMA NodeOrder ==
    ASSUME TypeOK, NEW t \in Runs
    PROVE  /\ Upcoming(t) = "supervisor"    => at[t] = "start"
           /\ Upcoming(t) = "ingestion"     =>
                 \/ at[t] = "supervisor"
                 \/ at[t] = "validation" /\ state[t].retry_count < MAX_VALIDATION_RETRIES
           /\ Upcoming(t) = "validation"    => at[t] = "ingestion"
           /\ Upcoming(t) = "normalization" => at[t] = "validation"
           /\ Upcoming(t) = "matching"      => at[t] = "normalization"
           /\ Upcoming(t) = "resolution"    => at[t] \in {"validation", "matching"}
           /\ Upcoming(t) = "consolidation" => at[t] \in {"resolution", "matching"}
           /\ Upcoming(t) = "reporting"     => at[t] = "consolidation"
           /\ Upcoming(t) = "learning"      => at[t] = "reporting"
<1>1. at[t] \in Nodes \cup {"none", "start"}
    BY DEF TypeOK
<1>2. QED
    BY <1>1 DEF Upcoming, Successor, Nodes, ValidationGate, MatchedGate, CloseReadyGate,
       MAX_VALIDATION_RETRIES

\* A step of one run touches nothing of another.
LEMMA Frame ==
    ASSUME TypeOK, NEW t \in Runs, NEW u \in Runs, t # u,
           Process(t) \/ Caller(t) \/ Analyst(t)
    PROVE  /\ at'[u] = at[u] /\ state'[u] = state[u] /\ call'[u] = call[u]
           /\ armed'[u] = armed[u] /\ queue'[u] = queue[u] /\ hist'[u] = hist[u]
<1>1. CASE Process(t)
  <2>1. CASE Supervise(t) \/ Normalize(t) \/ Report(t) \/ Learn(t)
      BY <2>1 DEF Supervise, Normalize, Report, Learn, RunNode, TypeOK
  <2>2. CASE Ingest(t)
      BY <2>2 DEF Ingest, RunNode, Save, CountIngestion, Remember, TypeOK
  <2>3. CASE Validate(t) \/ Match(t) \/ Consolidate(t)
      BY <2>3 DEF Validate, Match, Consolidate, RunNode, Save, TypeOK
  <2>4. CASE NodeFails(t)
      BY <2>4 DEF NodeFails, TypeOK
  <2>5. CASE Resolve(t)
      BY <2>5 DEF Resolve, RunNode, Remember, Escalate, TypeOK, Queues
  <2>6. CASE Return(t)
      BY <2>6 DEF Return, Add, MarkResolved, TypeOK, Queues
  <2>7. QED
      BY <1>1, <2>1, <2>2, <2>3, <2>4, <2>5, <2>6 DEF Process
<1>2. CASE Caller(t)
    BY <1>2 DEF Caller, BeginPipeline, StartHitl, Begin, ContinuePipeline, ResumeHitl,
       Save, Remember, TypeOK
<1>3. CASE Analyst(t)
    BY <1>3 DEF Analyst, ResolveException, MarkResolved, Remember, TypeOK, Queues
<1>4. QED
    BY <1>1, <1>2, <1>3

-----------------------------------------------------------------------------
(* The review queue and the reports.                                       *)

\* Of one run: an entry is resolved only by an analyst; what resolution
\* escalated stays on the queue until the pass is over or the process dies;
\* a run that consolidation found ready has nothing pending; and the report
\* carries the close_ready that consolidation computed.
QueueInv(t) ==
    /\ \A i \in Items : queue[t][i] = "resolved" => i \in hist[t].reviewed
    /\ hist[t].escalated => /\ at[t] \in Ended \cup {"resolution"}
                            /\ \A i \in state[t].risky : queue[t][i] # "absent"
    /\ at[t] \in Ended => /\ state[t].report = "ready" <=> state[t].close_ready
                          /\ state[t].close_ready => \A i \in Items : queue[t][i] # "pending"

QueuesInv == \A t \in Runs : QueueInv(t)

\* No pass has reached consolidation at first.
LEMMA InitQueuesInv == Init => QueuesInv
  BY DEF Init, Fresh, QueuesInv, QueueInv, EmptyQueue, Keys, Ended

\* The run's own nodes keep QueueInv: resolution escalates before it is
\* recorded, consolidation reads the queue it records.
LEMMA NodeQueueInv ==
    ASSUME TypeOK, NEW t \in Runs, QueueInv(t), Process(t)
    PROVE  QueueInv(t)'
<1>0. state[t] \in States /\ hist[t] \in History /\ queue[t] \in [Keys -> Status]
    BY RowTypes DEF TypeOK, Queues
<1>1. CASE Supervise(t) \/ Normalize(t)
    BY <1>1, NodeOrder DEF Supervise, Normalize, RunNode, TypeOK, QueueInv, Ended
<1>2. CASE Ingest(t)
  <2>1. ~hist[t].escalated /\ at'[t] \notin Ended
      BY <1>2, NodeOrder DEF Ingest, RunNode, TypeOK, QueueInv, Ended
  <2>2. hist'[t].escalated = hist[t].escalated /\ hist'[t].reviewed = hist[t].reviewed
      BY <1>0, <1>2 DEF Ingest, CountIngestion, Remember, History, TypeOK
  <2>3. QED
      BY <1>2, <2>1, <2>2 DEF Ingest, QueueInv
<1>3. CASE Validate(t) \/ Match(t)
  <2>1. ~hist[t].escalated /\ at'[t] \notin Ended
      BY <1>3, NodeOrder DEF Validate, Match, RunNode, TypeOK, QueueInv, Ended
  <2>2. QED
      BY <1>3, <2>1 DEF Validate, Match, QueueInv
<1>4. CASE NodeFails(t)
    BY <1>4 DEF NodeFails, QueueInv
<1>5. CASE Resolve(t)
  <2>1. at'[t] = "resolution" /\ state'[t] = state[t]
      BY <1>5 DEF Resolve, RunNode, TypeOK
  <2>2. hist'[t].reviewed = hist[t].reviewed
      BY <1>0, <1>5 DEF Resolve, Remember, History, TypeOK
  <2>3. \A k \in Keys : queue'[t][k] = IF k \in state[t].risky /\ queue[t][k] = "absent"
                                       THEN "pending" ELSE queue[t][k]
      BY <1>5 DEF Resolve, Escalate, TypeOK, Queues
  <2>4. state[t].risky \subseteq Items
      BY <1>0 DEF States
  <2>5. QED
      BY <2>1, <2>2, <2>3, <2>4 DEF QueueInv, Ended, Keys
<1>6. CASE Consolidate(t)
  <2>1. at'[t] = "consolidation" /\ queue' = queue /\ hist' = hist
      BY <1>6 DEF Consolidate, RunNode, TypeOK
  <2>2. /\ state'[t].close_ready = (PendingForRun(queue, t) = {})
        /\ state'[t].report = IF PendingForRun(queue, t) = {} THEN "ready" ELSE "open"
        /\ state'[t].risky = state[t].risky
      BY <1>0, <1>6 DEF Consolidate, Save, TypeOK, States
  <2>3. QED
      BY <2>1, <2>2 DEF QueueInv, Ended, PendingForRun
<1>7. CASE Report(t) \/ Learn(t)
  <2>1. at[t] \in Ended /\ at'[t] \in Ended
      BY <1>7, NodeOrder DEF Report, Learn, RunNode, TypeOK, Ended
  <2>2. QED
      BY <1>7, <2>1 DEF Report, Learn, QueueInv
<1>8. CASE Return(t)
  <2>1. \A i \in Items : queue'[t][i] = queue[t][i]
      BY <1>8, PlainAssumption DEF Return, Add, MarkResolved, TypeOK, Queues, Keys
  <2>2. state[t].risky \subseteq Items
      BY <1>0 DEF States
  <2>3. QED
      BY <1>8, <2>1, <2>2 DEF Return, QueueInv
<1>9. QED
    BY <1>1, <1>2, <1>3, <1>4, <1>5, <1>6, <1>7, <1>8 DEF Process

\* Entry points keep QueueInv: they leave Ended, or change nothing it reads.
LEMMA CallerQueueInv ==
    ASSUME TypeOK, NEW t \in Runs, QueueInv(t), Caller(t)
    PROVE  QueueInv(t)'
<1>0. state[t] \in States /\ hist[t] \in History
    BY RowTypes
<1>1. CASE BeginPipeline(t) \/ StartHitl(t)
  <2>1. /\ at'[t] = "start" /\ queue' = queue
        /\ Remember(t, [hist[t] EXCEPT !.ingested = 0, !.escalated = FALSE,
                                       !.decided = FALSE])
      BY <1>1 DEF BeginPipeline, StartHitl, Begin, TypeOK
  <2>2. ~hist'[t].escalated /\ hist'[t].reviewed = hist[t].reviewed
      BY <1>0, <2>1 DEF Remember, History, TypeOK
  <2>3. QED
      BY <2>1, <2>2 DEF QueueInv, Ended
<1>2. CASE ContinuePipeline(t)
    BY <1>2 DEF ContinuePipeline, QueueInv
<1>3. CASE ResumeHitl(t)
  <2>1. at' = at /\ queue' = queue
      BY <1>3 DEF ResumeHitl
  <2>2. /\ state'[t].risky = state[t].risky /\ state'[t].report = state[t].report
        /\ state'[t].close_ready = state[t].close_ready
      BY <1>0, <1>3 DEF ResumeHitl, Save, States, TypeOK
  <2>3. hist'[t].escalated = hist[t].escalated /\ hist'[t].reviewed = hist[t].reviewed
      BY <1>0, <1>3 DEF ResumeHitl, Remember, History, TypeOK
  <2>4. QED
      BY <2>1, <2>2, <2>3 DEF QueueInv
<1>4. QED
    BY <1>1, <1>2, <1>3 DEF Caller

\* Resolving an exception keeps QueueInv: nothing becomes pending.
LEMMA AnalystQueueInv ==
    ASSUME TypeOK, NEW t \in Runs, QueueInv(t), Analyst(t)
    PROVE  QueueInv(t)'
<1>1. PICK i \in Items : ResolveException(t, i)
    BY DEF Analyst
<1>2. /\ hist'[t].reviewed = hist[t].reviewed \cup {i}
      /\ hist'[t].escalated = hist[t].escalated
    BY <1>1, RowTypes DEF ResolveException, Remember, History, TypeOK
<1>3. /\ queue'[t][i] = "resolved"
      /\ \A k \in Keys : k # i => queue'[t][k] = queue[t][k]
    BY <1>1 DEF ResolveException, MarkResolved, TypeOK, Queues, Keys
<1>4. state[t].risky \subseteq Items
    BY RowTypes DEF States
<1>5. QED
    BY <1>1, <1>2, <1>3, <1>4 DEF ResolveException, QueueInv, Keys

\* An empty queue has nothing pending, and escalation is forgotten with it.
LEMMA CrashQueueInv ==
    ASSUME TypeOK, NEW t \in Runs, QueueInv(t), Crash
    PROVE  QueueInv(t)'
<1>1. ~hist'[t].escalated /\ \A k \in Keys : queue'[t][k] = "absent"
    BY RowTypes DEF Crash, EmptyQueue, History
<1>2. at'[t] = at[t] /\ state'[t] = state[t]
    BY DEF Crash
<1>3. QED
    BY <1>1, <1>2 DEF QueueInv, Keys

\* QueuesInv is inductive given the types.
LEMMA StepQueuesInv == TypeOK /\ QueuesInv /\ [Next]_vars => QueuesInv'
<1> SUFFICES ASSUME TypeOK, QueuesInv, [Next]_vars, NEW u \in Runs
             PROVE  QueueInv(u)'
    BY DEF QueuesInv
<1>1. QueueInv(u)
    BY DEF QueuesInv
<1>2. ASSUME NEW t \in Runs, Process(t) \/ Caller(t) \/ Analyst(t)
      PROVE  QueueInv(u)'
  <2>1. CASE t = u
      BY <1>1, <1>2, <2>1, NodeQueueInv, CallerQueueInv, AnalystQueueInv
  <2>2. CASE t # u
      BY <1>1, <1>2, <2>2, Frame DEF QueueInv
  <2>3. QED
      BY <2>1, <2>2
<1>3. CASE Crash
    BY <1>1, <1>3, CrashQueueInv
<1>4. CASE UNCHANGED vars
    BY <1>1, <1>4 DEF vars, QueueInv
<1>5. QED
    BY <1>2, <1>3, <1>4 DEF Next

\* QueuesInv holds of every instance: escalated exceptions stay on the queue and
\* only an analyst takes them off pending.
THEOREM QueuesInvariant == Spec => []QueuesInv
<1>1. Init => QueuesInv
    BY InitQueuesInv
<1>2. QED
    BY <1>1, StepQueuesInv, TypeCorrect, PTL DEF Spec

\* ReadyHasNothingPending holds of every instance.
THEOREM ReadyHasNothingPendingHolds == Spec => []ReadyHasNothingPending
<1>1. QueuesInv => ReadyHasNothingPending
    BY DEF QueuesInv, QueueInv, ReadyHasNothingPending, PendingForRun
<1>2. QED
    BY <1>1, QueuesInvariant, PTL

\* SignedOff holds of every instance: an escalated exception of a ready run
\* is on the queue, is not pending, and so was resolved, which only an analyst
\* does.
THEOREM SignedOffHolds == Spec => []SignedOff
<1>1. TypeOK /\ QueuesInv => SignedOff
  <2> SUFFICES ASSUME TypeOK, QueuesInv, NEW t \in Runs, hist[t].escalated,
                      at[t] \in Ended, CanClose(t),
                      NEW i \in state[t].risky
               PROVE  i \in hist[t].reviewed
      BY DEF SignedOff
  <2>1. i \in Items
      BY RowTypes DEF States
  <2>2. queue[t][i] \in Status
      BY <2>1 DEF TypeOK, Queues, Keys
  <2>3. queue[t][i] # "absent" /\ queue[t][i] # "pending"
      BY <2>1 DEF QueuesInv, QueueInv, CanClose
  <2>4. QED
      BY <2>1, <2>2, <2>3 DEF QueuesInv, QueueInv, Status
<1>2. QED
    BY <1>1, QueuesInvariant, TypeCorrect, PTL

-----------------------------------------------------------------------------
(* The retry loop.                                                         *)

\* Of one run: the retry counter is ahead of the ingestions of the pass, and
\* a pass that has not reached ingestion has counted none.
RetryInv(t) ==
    /\ hist[t].ingested <= state[t].retry_count
    /\ hist[t].ingested <= MAX_VALIDATION_RETRIES
    /\ at[t] \in {"start", "supervisor"} => hist[t].ingested = 0

RetriesInv == \A t \in Runs : RetryInv(t)

\* Nothing has been ingested at first.
LEMMA InitRetriesInv == Init => RetriesInv
  BY DEF Init, Fresh, RetriesInv, RetryInv, MAX_VALIDATION_RETRIES

\* Ingestion counts both up, and is only due while the budget lasts.
LEMMA IngestRetryInv ==
    ASSUME TypeOK, NEW t \in Runs, RetryInv(t), Ingest(t)
    PROVE  RetryInv(t)'
<1>1. state[t] \in States /\ hist[t] \in History
    BY RowTypes
<1>2. at'[t] = "ingestion"
    BY DEF Ingest, RunNode, TypeOK
<1>3. state'[t].retry_count = state[t].retry_count + 1
  <2>1. CASE ~state[t].configured
    <3>1. state'[t] = [state[t] EXCEPT !.retry_count = @ + 1]
        BY <2>1 DEF Ingest, Save, TypeOK
    <3>2. QED
        BY <1>1, <3>1 DEF States
  <2>2. CASE state[t].configured
    <3>1. PICK f \in Feeds : Save(t, [state[t] EXCEPT
              !.feed        = f,
              !.issues      = @ \cup (IF f.outage THEN {"critical"} ELSE {}),
              !.retry_count = @ + 1])
        BY <2>2 DEF Ingest
    <3>2. state'[t] = [state[t] EXCEPT
              !.feed        = f,
              !.issues      = @ \cup (IF f.outage THEN {"critical"} ELSE {}),
              !.retry_count = @ + 1]
        BY <3>1 DEF Save, TypeOK
    <3>3. QED
        BY <1>1, <3>2 DEF States
  <2>3. QED
      BY <2>1, <2>2
<1>4. hist[t].ingested < MAX_VALIDATION_RETRIES
  <2>1. Upcoming(t) = "ingestion"
      BY DEF Ingest, RunNode
  <2>2. CASE at[t] = "supervisor"
      BY <2>2 DEF RetryInv, MAX_VALIDATION_RETRIES
  <2>3. CASE state[t].retry_count < MAX_VALIDATION_RETRIES
    <3>1. state[t].retry_count \in Nat /\ hist[t].ingested \in Nat
        BY <1>1 DEF States, History
    <3>2. QED
        BY <2>3, <3>1 DEF RetryInv, MAX_VALIDATION_RETRIES
  <2>4. QED
      BY <2>1, <2>2, <2>3, NodeOrder
<1>5. hist'[t].ingested = hist[t].ingested + 1
  <2>1. hist[t].ingested < IngestCap
      BY <1>1, <1>4 DEF History, IngestCap, MAX_VALIDATION_RETRIES
  <2>2. hist'[t] = [hist[t] EXCEPT !.ingested = hist[t].ingested + 1]
      BY <2>1 DEF Ingest, CountIngestion, Remember, TypeOK
  <2>3. QED
      BY <1>1, <2>2 DEF History
<1>6. state[t].retry_count \in Nat /\ hist[t].ingested \in Nat
    BY <1>1 DEF States, History
<1>7. QED
    BY <1>2, <1>3, <1>4, <1>5, <1>6 DEF RetryInv, MAX_VALIDATION_RETRIES

\* Every node of the run keeps RetryInv.
LEMMA NodeRetryInv ==
    ASSUME TypeOK, NEW t \in Runs, RetryInv(t), Process(t)
    PROVE  RetryInv(t)'
<1>0. state[t] \in States /\ hist[t] \in History
    BY RowTypes
<1>1. CASE Supervise(t)
    BY <1>1, NodeOrder DEF Supervise, RunNode, RetryInv
<1>2. CASE Ingest(t)
    BY <1>2, IngestRetryInv
<1>3. CASE Validate(t) \/ Match(t) \/ Consolidate(t)
  <2>1. state'[t].retry_count = state[t].retry_count
    <3>1. CASE Validate(t)
        BY <1>0, <3>1 DEF Validate, Save, States, TypeOK
    <3>2. CASE Match(t)
      <4>1. ASSUME NEW left, NEW high,
                   Save(t, [state[t] EXCEPT !.exceptions = left, !.risky = high,
                                            !.unmatched = (left # {})])
            PROVE  state'[t].retry_count = state[t].retry_count
        <5>1. state'[t] = [state[t] EXCEPT !.exceptions = left, !.risky = high,
                                           !.unmatched = (left # {})]
            BY <4>1 DEF Save, TypeOK
        <5>2. QED
            BY <1>0, <5>1 DEF States
      <4>2. QED
          BY <3>2, <4>1 DEF Match
    <3>3. CASE Consolidate(t)
        BY <1>0, <3>3 DEF Consolidate, Save, States, TypeOK
    <3>4. QED
        BY <1>3, <3>1, <3>2, <3>3
  <2>2. hist' = hist /\ at'[t] \in {"validation", "matching", "consolidation"}
      BY <1>3 DEF Validate, Match, Consolidate, RunNode, TypeOK
  <2>3. QED
      BY <2>1, <2>2 DEF RetryInv
<1>4. CASE Normalize(t) \/ Report(t) \/ Learn(t)
    BY <1>4 DEF Normalize, Report, Learn, RunNode, RetryInv, TypeOK
<1>5. CASE Resolve(t)
  <2>1. hist'[t].ingested = hist[t].ingested
      BY <1>0, <1>5 DEF Resolve, Remember, History, TypeOK
  <2>2. QED
      BY <1>5, <2>1 DEF Resolve, RunNode, RetryInv, TypeOK
<1>6. CASE NodeFails(t) \/ Return(t)
    BY <1>6 DEF NodeFails, Return, RetryInv
<1>7. QED
    BY <1>1, <1>2, <1>3, <1>4, <1>5, <1>6 DEF Process

\* A new pass counts from zero; resuming changes neither count.
LEMMA CallerRetryInv ==
    ASSUME TypeOK, NEW t \in Runs, RetryInv(t), Caller(t)
    PROVE  RetryInv(t)'
<1>0. state[t] \in States /\ hist[t] \in History
    BY RowTypes
<1>1. CASE BeginPipeline(t) \/ StartHitl(t)
  <2>1. Remember(t, [hist[t] EXCEPT !.ingested = 0, !.escalated = FALSE,
                                    !.decided = FALSE])
      BY <1>1 DEF BeginPipeline, StartHitl, Begin
  <2>2. hist'[t].ingested = 0
      BY <1>0, <2>1 DEF Remember, History, TypeOK
  <2>3. PICK s \in FreshStates(t) : Save(t, s)
      BY <1>1 DEF BeginPipeline, StartHitl, Begin
  <2>4. state'[t] \in States
      BY <2>3, FreshType DEF Save, TypeOK
  <2>5. QED
      BY <2>2, <2>4 DEF RetryInv, States, MAX_VALIDATION_RETRIES
<1>2. CASE ContinuePipeline(t)
    BY <1>2 DEF ContinuePipeline, RetryInv
<1>3. CASE ResumeHitl(t)
  <2>1. at' = at /\ state'[t].retry_count = state[t].retry_count
      BY <1>0, <1>3 DEF ResumeHitl, Save, States, TypeOK
  <2>2. hist'[t].ingested = hist[t].ingested
      BY <1>0, <1>3 DEF ResumeHitl, Remember, History, TypeOK
  <2>3. QED
      BY <2>1, <2>2 DEF RetryInv
<1>4. QED
    BY <1>1, <1>2, <1>3 DEF Caller

\* RetriesInv is inductive given the types.
LEMMA StepRetriesInv == TypeOK /\ RetriesInv /\ [Next]_vars => RetriesInv'
<1> SUFFICES ASSUME TypeOK, RetriesInv, [Next]_vars, NEW u \in Runs
             PROVE  RetryInv(u)'
    BY DEF RetriesInv
<1>1. RetryInv(u)
    BY DEF RetriesInv
<1>2. ASSUME NEW t \in Runs, Process(t) \/ Caller(t) \/ Analyst(t)
      PROVE  RetryInv(u)'
  <2>1. CASE t # u
      BY <1>1, <1>2, <2>1, Frame DEF RetryInv
  <2>2. CASE t = u /\ (Process(t) \/ Caller(t))
      BY <1>1, <2>2, NodeRetryInv, CallerRetryInv
  <2>3. CASE t = u /\ Analyst(t)
    <3>1. PICK i \in Items : ResolveException(t, i)
        BY <2>3 DEF Analyst
    <3>2. hist'[t].ingested = hist[t].ingested
        BY <3>1, RowTypes DEF ResolveException, Remember, History, TypeOK
    <3>3. QED
        BY <1>1, <2>3, <3>1, <3>2 DEF ResolveException, RetryInv
  <2>4. QED
      BY <1>2, <2>1, <2>2, <2>3
<1>3. CASE Crash
  <2>1. hist'[u].ingested = hist[u].ingested
      BY <1>3, RowTypes DEF Crash, History
  <2>2. QED
      BY <1>1, <1>3, <2>1 DEF Crash, RetryInv
<1>4. CASE UNCHANGED vars
    BY <1>1, <1>4 DEF vars, RetryInv
<1>5. QED
    BY <1>2, <1>3, <1>4 DEF Next

\* RetriesBounded holds of every instance: validation_gate loops back only
\* while retry_count, which every ingestion raises and nothing lowers, is
\* below the limit.
THEOREM RetriesBoundedHolds == Spec => []RetriesBounded
<1>1. Init => RetriesInv
    BY InitRetriesInv
<1>2. RetriesInv => RetriesBounded
    BY DEF RetriesInv, RetryInv, RetriesBounded
<1>3. QED
    BY <1>1, <1>2, StepRetriesInv, TypeCorrect, PTL DEF Spec

-----------------------------------------------------------------------------
(* What a step may never do.                                               *)

\* One step, short of a crash, puts no resolved exception back to pending.
LEMMA StepResolved ==
    ASSUME TypeOK, [Next]_vars, NEW u \in Runs, NEW i \in Items,
           queue[u][i] = "resolved", crashes' = crashes
    PROVE  queue'[u][i] = "resolved"
<1>1. ASSUME NEW t \in Runs, Process(t) \/ Caller(t) \/ Analyst(t)
      PROVE  queue'[u][i] = "resolved"
  <2>1. CASE t # u
      BY <1>1, <2>1, Frame
  <2>2. CASE t = u /\ Return(t)
      BY <2>2, PlainAssumption DEF Return, Add, MarkResolved, TypeOK, Queues, Keys
  <2>3. CASE t = u /\ Resolve(t)
      BY <2>3 DEF Resolve, Escalate, TypeOK, Queues, Keys
  <2>4. CASE t = u /\ Analyst(t)
      BY <2>4 DEF Analyst, ResolveException, MarkResolved, TypeOK, Queues, Keys
  <2>5. CASE t = u /\ Caller(t)
      BY <2>5 DEF Caller, BeginPipeline, StartHitl, Begin, ContinuePipeline, ResumeHitl
  <2>6. CASE t = u /\ Process(t) /\ ~Return(t) /\ ~Resolve(t)
      BY <2>6 DEF Process, Supervise, Ingest, Validate, Normalize, Match, NodeFails,
         Consolidate, Report, Learn
  <2>7. QED
      BY <1>1, <2>1, <2>2, <2>3, <2>4, <2>5, <2>6
<1>2. ~Crash
    BY DEF Crash, TypeOK
<1>3. CASE UNCHANGED vars
    BY <1>3 DEF vars
<1>4. QED
    BY <1>1, <1>2, <1>3 DEF Next

\* ResolvedStaysResolved holds of every instance.
THEOREM ResolvedStaysResolvedHolds == Spec => ResolvedStaysResolved
<1>1. TypeOK /\ [Next]_vars
         => [\A t \in Runs, i \in Items :
                queue[t][i] = "resolved" /\ crashes' = crashes
                   => queue'[t][i] = "resolved"]_vars
    BY StepResolved
<1>2. QED
    BY <1>1, TypeCorrect, PTL DEF Spec, ResolvedStaysResolved

\* No step of a run's own leaves the checkpoint of a run that is skipped.
LEMMA StepCompleted ==
    ASSUME TypeOK, [Next]_vars, NEW u \in Runs \ HitlRuns, Skipped(u)
    PROVE  at'[u] = at[u] /\ state'[u] = state[u]
<1>1. Upcoming(u) = "end"
    BY DEF Skipped, Done
<1>2. ASSUME NEW t \in Runs, Process(t) \/ Caller(t) \/ Analyst(t)
      PROVE  at'[u] = at[u] /\ state'[u] = state[u]
  <2>1. CASE t # u
      BY <1>2, <2>1, Frame
  <2>2. CASE t = u /\ Process(t)
      BY <1>1, <2>2 DEF Process, Supervise, Ingest, Validate, Normalize, Match, NodeFails,
         Resolve, Consolidate, Report, Learn, Return, RunNode, Halted
  <2>3. CASE t = u /\ Caller(t)
      BY <1>1, <2>3 DEF Caller, BeginPipeline, ContinuePipeline, StartHitl, ResumeHitl
  <2>4. CASE t = u /\ Analyst(t)
      BY <2>4 DEF Analyst, ResolveException
  <2>5. QED
      BY <1>2, <2>1, <2>2, <2>3, <2>4
<1>3. CASE Crash
    BY <1>3 DEF Crash
<1>4. CASE UNCHANGED vars
    BY <1>4 DEF vars
<1>5. QED
    BY <1>2, <1>3, <1>4 DEF Next

\* CompletedIsFinal holds of every instance.
THEOREM CompletedIsFinalHolds == Spec => CompletedIsFinal
<1>1. TypeOK /\ [Next]_vars
         => [\A t \in Runs \ HitlRuns :
                Skipped(t) => at'[t] = at[t] /\ state'[t] = state[t]]_vars
    BY StepCompleted
<1>2. QED
    BY <1>1, TypeCorrect, PTL DEF Spec, CompletedIsFinal

-----------------------------------------------------------------------------
(* The interrupt before resolution.                                        *)

\* Of one human-in-the-loop run: while the interrupt is disarmed the run still
\* stands where the analyst decided.
SanctionInv(t) ==
    /\ call[t] \in {"idle", "start", "resume"}
    /\ call[t] # "idle" /\ ~armed[t]
          => hist[t].decided /\ state[t].exceptions = hist[t].shown

SanctionsInv == \A t \in HitlRuns : SanctionInv(t)

\* No invocation is in progress at first.
LEMMA InitSanctionsInv == Init => SanctionsInv
  BY HitlAssumption DEF Init, Fresh, SanctionsInv, SanctionInv

\* SanctionsInv is inductive given the types.
LEMMA StepSanctionsInv == TypeOK /\ SanctionsInv /\ [Next]_vars => SanctionsInv'
<1> SUFFICES ASSUME TypeOK, SanctionsInv, [Next]_vars, NEW u \in HitlRuns
             PROVE  SanctionInv(u)'
    BY DEF SanctionsInv
<1>1. SanctionInv(u) /\ u \in Runs
    BY HitlAssumption DEF SanctionsInv
<1>2. ASSUME NEW t \in Runs, Process(t) \/ Caller(t) \/ Analyst(t)
      PROVE  SanctionInv(u)'
  <2>1. CASE t # u
      BY <1>1, <1>2, <2>1, Frame DEF SanctionInv
  <2>2. CASE t = u /\ Process(t)
    <3>1. CASE NodeFails(t) \/ Return(t)
        BY <1>1, <2>2, <3>1 DEF NodeFails, Return, SanctionInv, TypeOK
    <3>2. CASE ~NodeFails(t) /\ ~Return(t)
      <4>1. \E n : RunNode(t, n)
          BY <2>2, <3>2 DEF Process, Supervise, Ingest, Validate, Normalize, Match,
             Resolve, Consolidate, Report, Learn
      <4>2. call' = call /\ armed'[t] = TRUE
          BY <4>1 DEF RunNode, TypeOK
      <4>3. QED
          BY <1>1, <2>2, <4>2 DEF SanctionInv
    <3>3. QED
        BY <3>1, <3>2
  <2>3. CASE t = u /\ Caller(t)
    <3>1. CASE StartHitl(t)
        BY <2>3, <3>1 DEF StartHitl, Begin, SanctionInv, TypeOK
    <3>2. CASE ResumeHitl(t)
      <4>1. call'[t] = "resume"
          BY <3>2 DEF ResumeHitl, TypeOK
      <4>2. hist'[t].decided /\ hist'[t].shown = state[t].exceptions
          BY <3>2, RowTypes DEF ResumeHitl, Remember, History, TypeOK
      <4>3. state'[t].exceptions = state[t].exceptions
          BY <3>2, RowTypes DEF ResumeHitl, Save, States, TypeOK
      <4>4. QED
          BY <2>3, <4>1, <4>2, <4>3 DEF SanctionInv
    <3>3. QED
        BY <2>3, <3>1, <3>2 DEF Caller, BeginPipeline, ContinuePipeline
  <2>4. CASE t = u /\ Analyst(t)
    <3>1. PICK i \in Items : ResolveException(t, i)
        BY <2>4 DEF Analyst
    <3>2. hist'[t].decided = hist[t].decided /\ hist'[t].shown = hist[t].shown
        BY <3>1, RowTypes DEF ResolveException, Remember, History, TypeOK
    <3>3. QED
        BY <1>1, <2>4, <3>1, <3>2 DEF ResolveException, SanctionInv
  <2>5. QED
      BY <1>2, <2>1, <2>2, <2>3, <2>4
<1>3. CASE Crash
    BY <1>1, <1>3 DEF Crash, SanctionInv
<1>4. CASE UNCHANGED vars
    BY <1>1, <1>4 DEF vars, SanctionInv
<1>5. QED
    BY <1>2, <1>3, <1>4 DEF Next

\* Only resolution_node itself moves a run to "resolution".
LEMMA StepToResolution ==
    ASSUME TypeOK, SanctionsInv, [Next]_vars, NEW u \in HitlRuns,
           at[u] # "resolution", at'[u] = "resolution"
    PROVE  hist[u].decided /\ state[u].exceptions = hist[u].shown
<1>1. u \in Runs /\ SanctionInv(u)
    BY HitlAssumption DEF SanctionsInv
<1>2. Resolve(u)
  <2>1. ASSUME NEW t \in Runs, Process(t) \/ Caller(t) \/ Analyst(t)
        PROVE  t = u /\ Process(u)
      BY <1>1, <2>1, Frame DEF Caller, BeginPipeline, StartHitl, Begin, ContinuePipeline,
         ResumeHitl, Analyst, ResolveException, TypeOK
  <2>2. Process(u)
      BY <2>1 DEF Next, Crash, vars
  <2>3. QED
      BY <1>1, <2>2 DEF Process, Supervise, Ingest, Validate, Normalize, Match, NodeFails,
         Resolve, Consolidate, Report, Learn, Return, RunNode, TypeOK
<1>3. call[u] \in {"start", "resume"} /\ ~armed[u]
    BY <1>1, <1>2 DEF Resolve, RunNode, Halted, Paused, SanctionInv
<1>4. QED
    BY <1>1, <1>3 DEF SanctionInv

\* ResolutionIsSanctioned holds of every instance: the interrupt is disarmed by
\* a decision alone and armed again by the first node that runs.
THEOREM ResolutionIsSanctionedHolds == Spec => ResolutionIsSanctioned
<1>1. Init => SanctionsInv
    BY InitSanctionsInv
<1>2. TypeOK /\ SanctionsInv /\ [Next]_vars
         => [\A t \in HitlRuns :
                at[t] # "resolution" /\ at'[t] = "resolution"
                   => hist[t].decided /\ state[t].exceptions = hist[t].shown]_vars
    BY StepToResolution
<1>3. QED
    BY <1>1, <1>2, StepSanctionsInv, TypeCorrect, PTL DEF Spec, ResolutionIsSanctioned

-----------------------------------------------------------------------------
(* Completed nodes.                                                        *)

\* The node that runs next lies further along the graph, but for a retry.
LEMMA Forward ==
    ASSUME TypeOK, NEW t \in Runs, Upcoming(t) \in Nodes
    PROVE  \/ Rank[Upcoming(t)] > Rank[at[t]]
           \/ at[t] = "validation" /\ Upcoming(t) = "ingestion"
<1>1. at[t] \in Nodes \cup {"none", "start"}
    BY DEF TypeOK
<1>2. QED
    BY <1>1, NodeOrder DEF Rank, Nodes

\* A step of a run of run_pipeline goes forward, or begins a new pass when
\* nothing was pending.
LEMMA StepForward ==
    ASSUME TypeOK, [Next]_vars, NEW u \in Runs \ HitlRuns, at'[u] # at[u]
    PROVE  \/ Rank[at'[u]] > Rank[at[u]]
           \/ at[u] = "validation" /\ at'[u] = "ingestion"
           \/ at[u] = "none" \/ Done(u)
<1>1. ASSUME NEW t \in Runs, Process(t) \/ Caller(t) \/ Analyst(t)
      PROVE  \/ Rank[at'[u]] > Rank[at[u]]
             \/ at[u] = "validation" /\ at'[u] = "ingestion"
             \/ at[u] = "none" \/ Done(u)
  <2>1. t = u
      BY <1>1, Frame
  <2>2. CASE Process(t)
    <3>1. PICK n \in Nodes : RunNode(t, n)
      <4>1. ~NodeFails(t) /\ ~Return(t)
          BY <2>1 DEF NodeFails, Return
      <4>2. QED
          BY <2>2, <4>1 DEF Process, Supervise, Ingest, Validate, Normalize, Match,
             Resolve, Consolidate, Report, Learn, Nodes
    <3>2. Upcoming(u) = n /\ at'[u] = n
        BY <2>1, <3>1 DEF RunNode, TypeOK
    <3>3. QED
        BY <3>2, Forward
  <2>3. CASE Caller(t)
      BY <2>1, <2>3 DEF Caller, BeginPipeline, ContinuePipeline, StartHitl, ResumeHitl, Done
  <2>4. CASE Analyst(t)
      BY <2>1, <2>4 DEF Analyst, ResolveException
  <2>5. QED
      BY <1>1, <2>2, <2>3, <2>4
<1>2. ~Crash /\ ~UNCHANGED vars
    BY DEF Crash, vars
<1>3. QED
    BY <1>1, <1>2 DEF Next

\* NoRework holds of every instance: run_pipeline (checkpointer.py:66-90) goes on
\* where the checkpoint stands.
THEOREM NoReworkHolds == Spec => NoRework
<1>1. TypeOK /\ [Next]_vars
         => [\A t \in Runs \ HitlRuns :
                at'[t] # at[t] => \/ Rank[at'[t]] > Rank[at[t]]
                                  \/ at[t] = "validation" /\ at'[t] = "ingestion"
                                  \/ at[t] = "none" \/ Done(t)]_vars
    BY StepForward
<1>2. QED
    BY <1>1, TypeCorrect, PTL DEF Spec, NoRework

-----------------------------------------------------------------------------
(* What an analyst gets to see.                                            *)

\* Past validation a run holds a row for review only if an analyst decided in
\* this pass, and only a decision resumes it; a run that waits is listed.
Past == {"normalization", "matching", "resolution", "consolidation", "reporting", "learning"}
HumanInv(t) ==
    /\ call[t] = "resume" => hist[t].decided
    /\ at[t] \in Past /\ "review" \in state[t].issues => hist[t].decided
    /\ call[t] = "idle" /\ armed[t] /\ Upcoming(t) = "resolution" /\ crashes = 0
       /\ ~hist[t].decided
          => queue[t][Plain] = "pending"

HumansInv == \A t \in HitlRuns : HumanInv(t)

\* No invocation is in progress at first, and no interrupt armed.
LEMMA InitHumansInv == Init => HumansInv
  BY HitlAssumption DEF Init, Fresh, HumansInv, HumanInv, Past

\* A node run keeps it: resolution is entered on a decision, everything else past
\* validation without a row for review.
LEMMA NodeHumanInv ==
    ASSUME TypeOK, NEW t \in HitlRuns, SanctionInv(t), HumanInv(t), Process(t)
    PROVE  HumanInv(t)'
<1>1. t \in Runs
    BY HitlAssumption
<1>2. CASE NodeFails(t)
  <2>1. Upcoming(t) # "resolution" /\ Upcoming(t)' = Upcoming(t)
      BY <1>2 DEF NodeFails, Upcoming
  <2>2. call'[t] = "idle" /\ UNCHANGED <<at, state, hist>>
      BY <1>1, <1>2 DEF NodeFails, TypeOK
  <2>3. QED
      BY <2>1, <2>2 DEF HumanInv
<1>3. CASE Return(t)
  <2>1. call'[t] = "idle" /\ UNCHANGED <<at, state, armed, hist, crashes>>
      BY <1>1, <1>3 DEF Return, TypeOK
  <2>2. Upcoming(t)' = Upcoming(t)
      BY <2>1 DEF Upcoming
  <2>3. CASE call[t] = "resume"
      BY <2>1, <2>3 DEF HumanInv
  <2>4. CASE call[t] = "start" /\ Upcoming(t) = "resolution"
    <3>1. queue' = Add(queue, t, Plain)
        BY <1>3, <2>4 DEF Return
    <3>2. queue'[t][Plain] = "pending"
        BY <1>1, <3>1, QueueTypes DEF Add, TypeOK, Queues, Keys
    <3>3. QED
        BY <2>1, <3>2 DEF HumanInv
  <2>5. CASE call[t] = "start" /\ Upcoming(t) # "resolution"
      BY <2>1, <2>2, <2>5 DEF HumanInv
  <2>6. QED
      BY <1>3, <2>3, <2>4, <2>5 DEF SanctionInv, Return
<1>4. ASSUME NEW n \in Nodes, RunNode(t, n), hist'[t].decided = hist[t].decided,
             n \in Past => state'[t].issues = state[t].issues
      PROVE  HumanInv(t)'
  <2>1. call' = call /\ call[t] # "idle" /\ at'[t] = n /\ Upcoming(t) = n
      BY <1>1, <1>4 DEF RunNode, TypeOK
  <2>2. ASSUME n \in Past, "review" \in state[t].issues PROVE hist[t].decided
    <3>1. CASE n = "resolution"
      <4>1. ~armed[t]
          BY <1>4, <2>1, <3>1 DEF RunNode, Halted, Paused, SanctionInv
      <4>2. QED
          BY <2>1, <4>1 DEF SanctionInv
    <3>2. CASE n = "normalization"
      <4>1. at[t] = "validation"
          BY <1>1, <2>1, <3>2, NodeOrder
      <4>2. "critical" \notin state[t].issues /\ "review" \notin state[t].issues
          BY <2>1, <3>2, <4>1, RowTypes, <1>1
             DEF Upcoming, Successor, ValidationGate, TypeOK, States, MAX_VALIDATION_RETRIES
      <4>3. QED
          BY <2>2, <4>2
    <3>3. CASE n \notin {"resolution", "normalization"}
      <4>1. at[t] \in Past
          BY <1>1, <2>1, <2>2, <3>3, NodeOrder DEF Past
      <4>2. QED
          BY <2>2, <4>1 DEF HumanInv
    <3>4. QED
        BY <3>1, <3>2, <3>3
  <2>3. QED
      BY <1>4, <2>1, <2>2 DEF HumanInv
<1>5. CASE ~NodeFails(t) /\ ~Return(t)
  <2>1. CASE Supervise(t) \/ Normalize(t) \/ Report(t) \/ Learn(t)
      BY <1>4, <2>1 DEF Supervise, Normalize, Report, Learn, Nodes
  <2>2. CASE Ingest(t)
    <3>1. hist'[t].decided = hist[t].decided
        BY <1>1, <2>2, RowTypes DEF Ingest, CountIngestion, Remember, History, TypeOK
    <3>2. QED
        BY <1>4, <2>2, <3>1 DEF Ingest, Nodes, Past
  <2>3. CASE Validate(t)
      BY <1>4, <2>3 DEF Validate, Nodes, Past
  <2>4. CASE Match(t)
    <3>1. state'[t].issues = state[t].issues
      <4>1. CASE UNCHANGED state
          BY <4>1
      <4>2. CASE ~UNCHANGED state
        <5>1. PICK left \in SUBSET Items, high \in SUBSET Items :
                 Save(t, [state[t] EXCEPT !.exceptions = left, !.risky = high,
                                          !.unmatched = (left # {})])
            BY <2>4, <4>2 DEF Match
        <5>2. QED
            BY <1>1, <5>1, RowTypes DEF Save, States, TypeOK
      <4>3. QED
          BY <4>1, <4>2
    <3>2. QED
        BY <1>4, <2>4, <3>1 DEF Match, Nodes
  <2>5. CASE Resolve(t)
    <3>1. hist'[t].decided = hist[t].decided
        BY <1>1, <2>5, RowTypes DEF Resolve, Remember, History, TypeOK
    <3>2. QED
        BY <1>4, <2>5, <3>1 DEF Resolve, Nodes
  <2>6. CASE Consolidate(t)
    <3>1. state'[t].issues = state[t].issues
        BY <1>1, <2>6, RowTypes DEF Consolidate, Save, States, TypeOK
    <3>2. QED
        BY <1>4, <2>6, <3>1 DEF Consolidate, Nodes
  <2>7. QED
      BY <1>5, <2>1, <2>2, <2>3, <2>4, <2>5, <2>6 DEF Process
<1>6. QED
    BY <1>2, <1>3, <1>5

\* HumansInv is inductive given the types and what sanctions a resume.
LEMMA StepHumansInv == TypeOK /\ SanctionsInv /\ HumansInv /\ [Next]_vars => HumansInv'
<1> SUFFICES ASSUME TypeOK, SanctionsInv, HumansInv, [Next]_vars, NEW u \in HitlRuns
             PROVE  HumanInv(u)'
    BY DEF HumansInv
<1>1. u \in Runs /\ SanctionInv(u) /\ HumanInv(u)
    BY HitlAssumption DEF SanctionsInv, HumansInv
<1>2. ASSUME NEW t \in Runs, Process(t) \/ Caller(t) \/ Analyst(t)
      PROVE  HumanInv(u)'
  <2>1. crashes' = crashes
      BY <1>2 DEF Process, Supervise, Ingest, Validate, Normalize, Match, NodeFails, Resolve,
         Consolidate, Report, Learn, Return, RunNode, Caller, BeginPipeline, StartHitl, Begin,
         ContinuePipeline, ResumeHitl, Analyst, ResolveException
  <2>2. CASE t # u
    <3>1. /\ at'[u] = at[u] /\ state'[u] = state[u] /\ call'[u] = call[u]
          /\ armed'[u] = armed[u] /\ queue'[u] = queue[u] /\ hist'[u] = hist[u]
        BY <1>1, <1>2, <2>2, Frame
    <3>2. QED
        BY <1>1, <2>1, <3>1 DEF HumanInv, Upcoming
  <2>3. CASE t = u /\ Process(t)
      BY <1>1, <2>3, NodeHumanInv
  <2>4. CASE t = u /\ Caller(t)
    <3>1. CASE StartHitl(t)
      <4>1. call'[t] = "start" /\ at'[t] = "start"
          BY <3>1 DEF StartHitl, Begin, TypeOK
      <4>2. QED
          BY <2>4, <4>1 DEF HumanInv, Past
    <3>2. CASE ResumeHitl(t)
      <4>1. call'[t] = "resume"
          BY <3>2 DEF ResumeHitl, TypeOK
      <4>2. hist'[t].decided
          BY <3>2, RowTypes DEF ResumeHitl, Remember, History, TypeOK
      <4>3. QED
          BY <2>4, <4>1, <4>2 DEF HumanInv
    <3>3. QED
        BY <2>4, <3>1, <3>2 DEF Caller, BeginPipeline, ContinuePipeline
  <2>5. CASE t = u /\ Analyst(t)
    <3>1. PICK i \in Items : ResolveException(t, i)
        BY <2>5 DEF Analyst
    <3>2. hist'[t].decided = hist[t].decided
        BY <3>1, RowTypes DEF ResolveException, Remember, History, TypeOK
    <3>3. queue'[t][Plain] = queue[t][Plain]
        BY <3>1, PlainAssumption DEF ResolveException, MarkResolved, TypeOK, Queues, Keys
    <3>4. UNCHANGED <<at, state, call, armed>>
        BY <3>1 DEF ResolveException
    <3>5. QED
        BY <1>1, <2>1, <2>5, <3>2, <3>3, <3>4 DEF HumanInv, Upcoming
  <2>6. QED
      BY <1>2, <2>2, <2>3, <2>4, <2>5
<1>3. CASE Crash
  <2>1. crashes' # 0
      BY <1>3 DEF Crash, TypeOK
  <2>2. call'[u] = "idle" /\ hist'[u].decided = hist[u].decided
      BY <1>1, <1>3, RowTypes DEF Crash, History, TypeOK
  <2>3. UNCHANGED <<at, state>>
      BY <1>3 DEF Crash
  <2>4. QED
      BY <1>1, <2>1, <2>2, <2>3 DEF HumanInv
<1>4. CASE UNCHANGED vars
    BY <1>1, <1>4 DEF vars, HumanInv, Upcoming
<1>5. QED
    BY <1>2, <1>3, <1>4 DEF Next

\* ReviewRowsSeeAHuman holds of every instance: the interrupt before resolution
\* is the only way on for a row that validation hands to a human.
THEOREM ReviewRowsSeeAHumanHolds == Spec => []ReviewRowsSeeAHuman
<1>1. HumansInv => ReviewRowsSeeAHuman
    BY DEF HumansInv, HumanInv, ReviewRowsSeeAHuman, Ended, Past
<1>2. Init => SanctionsInv /\ HumansInv
    BY InitSanctionsInv, InitHumansInv
<1>3. QED
    BY <1>1, <1>2, StepSanctionsInv, StepHumansInv, TypeCorrect, PTL DEF Spec

\* PausedRunIsListed holds of every instance: a run that start_run_with_hitl
\* leaves at the interrupt stays on the review queue until an analyst decides.
THEOREM PausedRunIsListedHolds == Spec => []PausedRunIsListed
<1>1. HumansInv => PausedRunIsListed
    BY DEF HumansInv, HumanInv, PausedRunIsListed
<1>2. Init => SanctionsInv /\ HumansInv
    BY InitSanctionsInv, InitHumansInv
<1>3. QED
    BY <1>1, <1>2, StepSanctionsInv, StepHumansInv, TypeCorrect, PTL DEF Spec
=============================================================================
