# Verification of the reconciliation platform

TLA+ specifications of the reconciliation pipeline (`recon_platform/`,
`reasoning/`, `datagents/`), the TLC configurations that model-check them on
small instances, and TLAPS proofs of their main properties for every value of
the constants. Paths below are relative to the repository, which PROJECT.json
calls `src/`.

    tlc -workers 2 -config MCOneRun.cfg MCReconGraph   # a run
    tlapm ReconGraphProofs.tla                        # a proof module

PROJECT.json lists the components, the runs, the lines each definition models,
the hazards, the disagreements found and the theorems. Definitions named
`X_Something` are faulty variants of `X`: they belong to no specification, and
each shows that some property would notice the slip it describes.

## 1. The system

A *run* reconciles a company's book against its bank for a period. It is a
thread of a LangGraph graph of nine nodes,

    supervisor -> ingestion -> validation -> normalization -> matching
               -> resolution -> consolidation -> reporting -> learning

with three conditional edges: after validation (retry ingestion, escalate to
resolution, or proceed), after matching (resolution only when something is
unmatched) and after reporting (learning only when close-ready). After each node
the SQLite checkpointer saves the channel values and which node ran. A run is
driven by `run_pipeline` (idempotent: skip a complete run, go on with an
interrupted one, else start) or by `start_run_with_hitl` and
`resume_with_decision`, whose graph stops before resolution until an analyst
decides.

Three stores are module-level singletons, shared by every run and every
Streamlit session (a thread) of the process, without locks: the **review queue**
(memory only), the **rule store** (memory only) and the **alias store** (memory
over a file); the match memory is shared by the runs of a process in the same
way. Checkpoints, the alias file and the accounts outlive the process,
the rest does not; staging files and the accounts database are shared by
processes too. Most of what is hard here comes from that.

### Inventory

| Component | State | Operations | Correct when | Module |
|---|---|---|---|---|
| Graph (`graph/build.py`, `graph/routing.py`, `state.py`) | channel values per run | the node functions, the three gates | the retry loop ends; ready means reviewed | `ReconGraph`, `Routing` |
| Checkpointer (`graph/checkpointer.py`, `run_id.py`) | last node and channels on disk | `run_pipeline` | no completed node redone, completed runs final, every run finishes | `ReconGraph` |
| HITL entry points (`hitl/resume.py`) | interrupt | `start_run_with_hitl`, `resume_with_decision` | nothing is escalated that no analyst saw | `ReconGraph` |
| Review queue, escalation, close gate (`hitl/review_queue.py`, `exception_escalation.py`, `hitl/close_gate.py`) | items by key | `add`, `mark_resolved`, `pending_for_run`, `escalate_exceptions`, `resolve_exception`, `close_period` | escalation is idempotent, runs do not mix | `ReviewQueue`, `ReconGraph` |
| Matching (`matching_tools.py`, `match_subgraph.py`, `semantic_match_agent.py`) | pools left by each pass | three tools, the model, hand-over | strongest and best first, nothing lost | `MatchRules`, `Matching`, `StableMatching` |
| Exception agent (`exception_agent.py`) | none | `classify_exception` | evidence is real | `MatchRules`, `Matching` |
| Learning loop (`learning_agent.py`, `rule_store.py`) | suggestions | mine, `add`, `approve`, `apply_approved_rules` | only approval changes matching; it never loosens beyond the defaults | `RuleLearning` |
| Alias store (`alias_store.py`, `normalization_tools.py`) | dictionary and NDJSON file | load, migrate, `get`, `set` | a durable map | `AliasStore`, `AliasCache` |
| Ingestion and resilience (`ingestion_agent.py`, `resilience.py`) | call history of the limiter | retry, rate limit, degrade, merge | a source is whole or lost, called as often and as fast as it may be | `Ingestion`, `DataAgents` |
| Source tools (`csv_read_tool.py`, `api_fetch_tool.py`, `sftp_fetch_tool.py`) | staging files | read, fetch, transfer, parse | a row is a transaction or an issue | `Ingestion` |
| Validation and guardrails (`validation_agent.py`, `validation_tools.py`, `guardrails/validators.py`) | none | checks, bounded retry of an untrusted answer | no ambiguous row passes unjudged, the gate sees what happened | `DataAgents` |
| Match memory, calibration (`memory/match_memory.py`, `calibrated_matcher.py`) | vectors by pair id | retrieve, calibrate, upsert | a run is lifted by itself only by what an ended attempt left behind | `MatchMemory` |
| Accounts (`auth/service.py`, login pages of `demo_app.py`) | users, tokens, sessions | register, login, lockout, reset | attempts counted, lock-outs earned and temporary, a link is reused only by overlap | `Accounts` |
| Everything else | | | | not modelled, section 8 |

## 2. The modules and the code

**`Routing`** is `routing.py` and the edges of `build_graph` as functions of the
channel values. **`ReviewQueue`** is the queue and the escalation rules as
operators on a value of it. The queue's string keys become a run with either an
item (`run:side:txn`) or `Plain` (the run's own entry).

**`ReconGraph`** composes the two with the node functions and the entry points.

| TLA+ | Code |
|---|---|
| `at[t]`, `state[t]` | the checkpoint: last node that ran, channel values |
| `call[t]`, `armed[t]` | an `invoke()` in progress, by which entry point; whether the interrupt stops it |
| `queue` | `review_queue` |
| `hist[t]` | history, for properties only |
| `BeginPipeline`, `ContinuePipeline`, (`Skipped`) | the three branches of `run_pipeline` |
| `StartHitl`, `ResumeHitl`, `Return` | the entry points up to and after their `invoke()` |
| `Supervise` ... `Learn` | one node and its checkpoint, LangGraph's super-step |
| `NodeFails` | an exception leaves `invoke()` from ingestion, validation, normalization or matching |
| `ResolveException`, `CanClose`, `Crash` | `resolve_exception`, `close_period`, the process dies |

A step is a whole node because LangGraph commits a node's writes with its
checkpoint. The one effect that is not checkpointed is on the queue: in
`resolution_node` a crash between escalation and checkpoint loses the whole
queue as well, so it is the same as a crash before the node. Transactions,
matches and messages are abstracted to what a gate can see, or what makes a node
raise: the *kind* of batch (`empty`, `clean`, `ambiguous`, `duplicate`, `both`,
`malformed`) and whether a source was out; whether an exception is risky is a
free choice. A pass either configures sources or is seeded by its caller.

**`Ingestion`** is one run, or several, working through their sources: the
limiter (`wait`, `pace`), the attempt (`call`, for SFTP then `transfer` and
`parse`), the retry (`backoff`), the merging of what a source gave. **`DataAgents`**
goes on with validation: the deterministic checks, then one gateway call at a
time under `validate_with_retry`, then the issues `validation_gate` reads.

| TLA+ | Code |
|---|---|
| `Proceed`, `Pace`, `WakeUp` | `RateLimiter.wait()` with and without a sleep |
| `Read`, `Open`, `Transfer`, `Parse` | the tools; `sftp.get` truncates the staging file, fills it, then it is read |
| `Fail`, `Error`, `Retry` | a failure the tool turns into an issue; `FetchError`, which `with_retry` retries |
| `Finish`, `Absorb` | `merged.extend` and the span; rows that cannot be parsed |
| `Check`, `Refuse`, `Answer`, `Garbage`, `GiveUp` | the checks; the injection guard; a usable answer, an unusable one, an exception |
| `Conclude` | findings and issues as the node, or the stand-alone sub-graph, records them |

Clocks are kept relative to now (since the recorded call, since the real call,
left to sleep), so that they need no bound. A row is one of six forms, by what
the tools and checks do with it. `raced` and `down` are histories: the sources
whose staging file another run wrote meanwhile, and those that were given up.
**`Selection`** is the part of a list that a loop with an `if` keeps: the rows a
tool accepts or rejects, the rows that go on to be judged. It is a recursive
function of its own and not `SelectSeq`, which cannot be reasoned about.
`ReconGraph` takes over from here: that a lost source, and nothing else, is a
critical issue there, and an escalated row, and nothing else, a review issue, is
`GateSeesTheTruth`.

**`AliasStore`** splits the store where threads and crashes can cut it: look-up,
answer (or an exception of the gateway, `NoReply`) and assignment to the dictionary,
append; in a migration, truncation and rewriting. A migration that is interrupted,
by a crash or by an error of `write_text` (`MigrationFails`), leaves some of its
lines, the last of them perhaps torn (`PiecesOf`), and an error also makes the start
fail. A line of the file is whole, complete but without its newline, cut, or two
records glued together. **`AliasCache`** is the promise of a durable map;
`AliasStore` implements it under `canonical <- Stored` (what a process that starts
now would know).

**`MatchRules`** holds the rules (`Eligible`), the greedy sort key (`Beats`) and
the classification (`ClassOf`) as functions over integers: cents, days and
ratios in 1/100000. `Score` orders candidates as the confidence does: the product of
what is left of both budgets for tolerance, `0.5 + 0.45 * ratio` rounded to four
decimals for fuzzy, where close ratios tie. `Suspicious` are the transactions
with a field the injection guard flags; `Clean` pairs have none. **`Matching`**
is `run_match_subgraph` step by step: the id check, one greedy assignment at a
time, the semantic pass, classification. A match retires every transaction of its
side that has its id, as the code does.

| TLA+ | Code (`semantic_match`) |
|---|---|
| `cursor` | the two loop variables: book position, and source position (0 at the head of the outer loop) |
| `NextBook`, `NextSource` | the loop heads, a used book, and the inner `continue`s on a used source, another currency, another amount |
| `Skip` | the injection guard's `continue`; the pair is `skipped` |
| `Judge`, `Refuse`, `Raise` | a match and its `break`; a refusal, which goes on; an answer that never validates, or a gateway that raises |
| `EndSemantic` | the outer loop is exhausted |

**`StableMatching`** is what it promises and nothing of how: every candidate of
a deterministic rule is *settled*, meaning that one of its transactions is
matched by a stronger rule, or by this rule with a candidate that comes before it. Over
unique ids the candidates of a rule are totally ordered, so the deterministic
part of a result is unique: it cannot depend on the order of the input.
`Matching` implements it under `status <- Status, result <- Result`.

**`RuleLearning`** is the loop across runs: match under the rules approved so
far, mine, add, approve. A batch is a set of pairs that compete with nobody;
what competition does is `Matching`'s subject.

**`MatchMemory`** is what follows matching: one match after another is calibrated
against the memory, then one after another is stored in it, by runs that share
it. A run may come to matching again: in a later pass (`Match`), or because an
attempt raised (`Raise`) and the run is resumed at that node (`Resume`), over the
same transactions and the same memory, with what the attempt had stored in it.
Confidences and distances are in hundredths. A history says which run and which
of its attempts stored what a key holds, and which runs `left` matches in an
attempt that ended.

**`Accounts`** is `auth/service.py` over one table, used by browser sessions.
Nothing locks a row, so reading it (`BeginLogin`, `BeginReset`) and writing it
(`RightPassword`, `WrongPassword`, `EndReset`) are two actions, and an open
transaction notes what it `missed` in between. A history counts how often each
token was redeemed. The times kept are those left.

**`MC*`** modules only define constants (`Accounts` needs none and is run itself);
**`*Proofs`** hold the theorems.

## 3. What each run shows

All bounds are constants of the specification (`MaxStarts`, `MaxCrashes`,
`MaxCuts`, `MaxItems`, `MaxTxns`, `MaxBatch`, `MaxAttempts`, `Tokens`,
`OverSleep`; the history of redeemed links stops counting at `MaxRedemptions`;
`IngestCap` and `Failures` cap counters where the code stops telling their values
apart).

| Run | Instance | Shows |
|---|---|---|
| `one_run` | one run of either kind alone in its process, 2 exceptions, all feeds, all decisions, gateway; 2 starts human-in-the-loop, 3 of `run_pipeline`, 2 crashes | `SignedOff`, `ReviewRowsSeeAHuman`, `PausedRunIsListed`, `ReadyHasNothingPending`, `RetriesBounded`, `ResolvedStaysResolved`, `ResolutionIsSanctioned`, `CompletedIsFinal`, `NoRework` |
| `two_runs` | one run of each kind in one process, 1 shared exception name, outages, 1 crash | `SignedOff` (the queue keeps runs apart), `PipelineFinishes`, `CallsReturn` |
| `alias_store` | 2 sessions, 2 names, 2 answers, no file, an old one or an empty log, 1 cut write, 2 crashes | `TypeOK`, `CacheSpec`, `MissIsAMiss`, `LossIsBounded`, `LoadsUnlessCut`, `RestartChangesNothing` |
| `rule_learning` | 2 runs, 2 pairs, 3 deltas, 3 ratios, 3 suggestions, 1 crash | `LearnedWithinDefaults`, `OnlyApprovalChanges`, `ApprovalsAddUp` |
| `matching` | every batch of at most 2 transactions a side out of 9, any numbering, gateway, 1 flagged transaction | `PromiseSpec`, `NothingLost`, `LeftoversWereAsked`, `EvidenceIsBeyondTolerance`, `EvidenceIsMutual` |
| `data_agents` | a graph run over a file and an SFTP source, a sub-graph run over a second SFTP source with the same file name; retries 2, 1, 0; 3 shipments with rows of every form; sleeps up to 1 late | `TypeOK`, `WholeOrLost`, `NothingSlipsThrough`, `GateSeesTheTruth`, `AttemptsCounted`, `Paced`, `RunsEnd` |
| `accounts` | 2 sessions, 2 user names, 1 address, 2 passwords, 2 tokens, lock-outs of 2 ticks, links of 1 | `CountIsHonest`, `LockIsEarned`, `LockRunsItsTime`, `LockIsTemporary`, `ReusedOnlyByOverlap` |
| `match_memory` | 2 runs, 2 ids, 2 texts, at most 2 matches an attempt, 2 attempts a run | `SupportIsEarlier`, `SupportLasts` |

The other four expect a violation (section 4). The type invariants of
`ReconGraph`, `RuleLearning`, `Matching`, `Accounts` and `MatchMemory` are not
run, they are proved.

Why the bounds are enough. *Graph:* the gates see an exception set only as empty or
not and a risky set item by item, so two items give every case (none, one, both; one
resolved while the other is pending). A second start is what makes stale channels
and repeated escalation possible, a third one follows a completed or a failed second
one; a second crash can hit the recovery from the first. Several runs meet in the
queue only, which two runs exercise. What remains is proved without bounds.
`OneRunSpec` chooses the run by taking the passes of the other for used up. *Alias
store:* two sessions are what a race needs, a cut line matters to the line after it
and to the next start, the second crash lets a damaged file be loaded, and written
to, twice. *Learning:* a suggestion may be in force while a run matches whose own
suggestion is then approved; three suggestions let a chain of those overtake each
other; the values lie below, at and above each default, and one ratio rounds up, one
down. *Matching:* two transactions a side already give a pair that loses to a
stronger rule, to a better candidate of its own rule, and a tie broken by id; two
rows of two columns let a break or a `continue` cost the next pair its turn. The
nine transactions differ by 0 to 4 cents and 0 to 4 days, where the limits of
tolerance, semantic pass and classification are 1, 2 and 3, so that each limit is
met and exceeded; the ratios are 1 and 79999, 80000 and 80001 around a floor of
80000, the last two of which round to one confidence; one transaction is flagged,
and ids may repeat. Chains of more than two transactions a side are covered by
proof. *Ingestion:* two transfers are what a staging file takes to be mixed up, a
third source makes one run lose a source and keep another; the retries are none, one
and two, where `max(1, retries)` and the back-off differ; an interval longer than
the delay makes pacing and backing off follow each other; the third unusable answer
is the one that counts. *Accounts:* two sessions are what an overlap takes, one
address makes registrations collide, the second token replaces the first, and five
failures reach the threshold; two ticks tell a lock-out that ends early from one
that ran its time. *Match memory:* two runs interleave, an id may be stored by
either and come back with another text, and a second attempt of a run may find what
its first one stored, the whole of it or the part before it raised. *Migration:* the
old file knows one of the two names, whose line an interruption leaves whole, torn
or not at all; of longer files it is proved.

Deadlock is checked in `data_agents`, `accounts` and `match_memory`, where time
or a restart is always possible. It is not in the others (`CHECK_DEADLOCK
FALSE`): those systems really stop when nobody calls them and their bounds are
used up.

## 4. Where documentation and code disagree

Each is a run that TLC must find violated; the run checks the sentence quoted.

| Run | The documentation | The code |
|---|---|---|
| `outage_heals` | a batch-level failure is what the retry loop exists for (`routing.py:18-20`) | issues only accumulate (`build.py:123`): a retry that succeeds is escalated all the same |
| `crash_loses_review` | an escalated exception blocks close until resolved (`build.py:327-331`) | after a crash before consolidation the queue is empty and the run ready |
| `link_reused` | a reset token is single use (`tests/test_auth_service.py:181`, which tries it twice in a row) | the row is read by token and written by id (`auth/service.py:184-193`): two resets that overlap both succeed |
| `own_support` | memory "never influences the same run's own matches, only future ones" (`reasoning/README.md:117-119`) | a run that is resumed at a node that raised, or run again, in the same process finds its own stored matches at distance 0 (`match_subgraph.py:74-75`) |

What remains of the last two is checked where they cannot break it: a used link
is found on file by nobody (`ReusedOnlyByOverlap`), and a run finds its own support
only from an attempt that ended (`SupportIsEarlier`).

Seen while modelling and not given a run of their own:

* Malformed rows are recorded as issues rather than raising (`csv_read_tool.py:26`),
  but a line that is too short makes parsing raise `TypeError`, which line 47 does
  not catch: all sources of the run are lost (the step `choked` of `Ingestion`).
* The rate limiter "enforces a minimum interval between consecutive `wait()` calls"
  (`resilience.py:76`), but records the moment it meant to wake (`resilience.py:108-111`):
  after a late sleep the next call comes too soon. `Paced` allows for that.
* Rows for review go to resolution (`routing.py:35-38`), but in `run_pipeline`
  nothing stops there: matching is skipped and the run ends close-ready.
  `ReviewRowsSeeAHuman` is therefore about human-in-the-loop runs.
* A decision that makes its run pause a second time marks it resolved although it
  waits again (`resume.py:52`); `PausedRunIsListed` exempts such runs.
* Two sessions that miss one alias at once may leave one answer in memory and
  the other last in the file; `RestartChangesNothing` exempts such names.
* Approved rules are said to loosen and never to tighten
  (`learning_agent.py:126-127`); a suggestion carries the largest delta that
  *already* matched, so it can only tighten. `LearnedWithinDefaults` is one side
  of this.
* Two transfers staged under one base name may mix up their rows
  (`sftp_fetch_tool.py`); `WholeOrLost` exempts those sources.
* No tool of the repository raises `FetchError`, the only error `with_retry`
  retries (they turn their failures into issues), and the ingestion agent is
  called without a `RateLimiter`: retries and pacing concern the tools a
  deployment adds. `Flaky` and `Interval` stand for these.
* A failing source gets one retry, not the two `docs/ARCHITECTURE.md` describes,
  because `retry_count` counts the first ingestion; it survives into the next
  pass, which is then escalated at its first failure.
* A report is not refreshed when its last exception is resolved after the run
  ended, so `close_period` fails until a further pass. A batch with a repeated id
  raises on every call. The docstring at `build.py:397-401` says exception
  patterns are never mined in the graph, yet a close-ready run with auto-resolved
  exceptions mines them. `RuleStore.approve` is called by tests only.
* An asked-for reset link that is replaced while an older one is being redeemed is
  erased with it.

## 5. Fairness

`two_runs`, `data_agents` and `accounts` check liveness, under `FairSpec`:

* `WF(Process(t))`: an `invoke()` in progress keeps executing nodes. It is
  ordinary code in a thread; while the process lives nothing but its own steps
  can disable it, and a crash makes the call idle. Which outcome a node has is
  free, so no fairness favours a healthy feed or a model that answers.
* `WF(BeginPipeline(t) \/ ContinuePipeline(t))`: whoever schedules
  `run_pipeline` calls it again. `docs/RUNBOOK.md` makes this the operator's way
  to recover a killed run; without it no interrupted run would ever finish.

* `WF(Tick)` in `DataAgents` and `Accounts`: time goes on.
* `WF(Step(r))` in `DataAgents`: a call returns or raises and a sleep that is over
  ends. Requests and connections have timeouts in the code; an SFTP transfer that
  stalls for ever, or a gateway that never answers, is outside the model.

Accounts assumes nothing of its sessions: `LockIsTemporary` rests on the clock.
Nobody is obliged to start a HITL run, to decide, to resolve an exception or to
crash. `PipelineFinishes` is checked over feeds without repeated ids and without
a gateway: with either, matching may raise on every call, and the
property is false.

## 6. What is proved

By TLAPS, for every value of the constants that satisfies their assumptions (any
number of runs, exceptions, transactions, passes, crashes, sessions).

**`ReconGraphProofs`**
* `TypeCorrect`: `[]TypeOK`, node by node.
* `QueuesInvariant`, then `SignedOffHolds` and `ReadyHasNothingPendingHolds`.
  `SignedOff` alone is not inductive: it says nothing before consolidation. Per run,
  `QueueInv` adds that a resolved entry was resolved by an analyst; that what
  this pass escalated is still listed and the pass has not left the end of the
  graph; and that once consolidation ran, report and `close_ready` agree and a
  ready run has nothing pending. `NodeOrder` reads the edges backwards and
  `Frame` says that a step of one run touches nothing of another.
* `RetriesBoundedHolds` from `RetryInv`: the ingestions of a pass never exceed
  `retry_count`, which only grows; this is what makes the bound hold although
  the counter is never reset.
* `ResolvedStaysResolvedHolds`, `CompletedIsFinalHolds`: action properties, one
  lemma each over the actions.
* `ResolutionIsSanctionedHolds` from `SanctionInv`: while the interrupt is
  disarmed the exceptions are those the analyst saw; any node arms it again.
* `NoReworkHolds`: from `NodeOrder` and `Rank`, a step of a run of `run_pipeline` goes
  forward along the nodes or is one of the exceptions the property names.
* `ReviewRowsSeeAHumanHolds` and `PausedRunIsListedHolds` from `HumanInv`: past
  validation a row for review means an analyst decided in this pass; only a
  decision resumes a run; an undecided run that waits is on the queue until a crash.

**`MatchingProofs`**
* `MatchingTypeCorrect`.
* `MatchingKeepsItsPromise`: the refinement `Spec => PromiseSpec`. `IInv` says
  that a match made so far is a candidate of a pass that has begun (`Sound`), that
  matches are one-to-one, and (`Progress`) that passes that are over leave every
  candidate settled while the pass under way leaves each one settled or still open. A
  candidate is closed only by an assignment at one of its ends, and the
  assignment was the best open one, which settles it; no property of the
  order itself is used, so the theorem holds for any similarity function.
* `NoPairLosesItsTurn`: `[]LeftoversWereAsked`. `LoopInv` says of the two loops
  that every comparable pair the cursor has passed is refused, or skipped if it is
  flagged, or an end of it is used (`Treated`); a match retires its row and breaks,
  a refusal or a flagged pair moves one column on, and being treated lasts
  (`TreatedLasts`).
* `RetiredByPosition`: once the ids of both sides are unique, retiring by id, which
  is what the code does, is retiring by position, which the other proofs use.
* `EvidenceIsReal`: `[]EvidenceIsBeyondTolerance`, from `Progress`: two
  leftovers within the tolerance tool's limits would be an unsettled candidate.
* `EvidencePointsBack`: `[]EvidenceIsMutual`, from `ExceptionsInv` and
  `CompleteInv` (exceptions and leftovers correspond, each with its class) and
  `PointsBack`, the symmetry of every limit that classification compares with.
* `NothingIsLost`: `[]NothingLost`, the numbers of a finished run. The
  transactions of a side are in bijection with their positions, the matches with
  the positions they take (`MatchesAreCounted`: they are one-to-one), the
  exceptions with the leftovers of both sides (`ExceptionsAreCounted`); so they add
  up without an induction over the batch.

**`RuleLearningProofs`**
* `LearningTypeCorrect` and `LearningNeverLoosens`: `[]LearnedWithinDefaults`.
  The inductive invariant bounds the parameters of *all* suggestions, approved
  or not, and the outcomes of runs in flight, since a run may learn from what it
  matched under rules approved before. `RoundingKeepsTheFloor` is the
  arithmetic: rounding to hundredths cannot fall below a threshold that is one.
* `ApprovalAloneChanges` and `ApprovalsOnlyAdd`: what a run mines is appended
  unapproved, so the approved rules, all that the tools read, are those of
  before; short of a crash no step takes an approved rule back.

**`AliasStoreProofs`**
* `InvInductive`, for `IInv`: the lines of a log no write to which was cut, neither
  an append nor its migration, are whole; what the log knows, the dictionary knows
  (`LogIsKnown`), and so does it every name being written; a name that is not raced
  for has one session at it (`OneEach`), and while writes are whole, dictionary and
  log agree on every name neither raced for nor under way (`Agree`). `TypeCorrect`,
  `MissIsAMissHolds`, `LoadsUnlessCutHolds` and `RestartChangesNothingHolds` follow.
* `CacheSpecHolds`: the refinement `Spec => CacheSpec` under
  `canonical <- Stored`. Only an append changes what a restart would know, by the
  one name it records; truncating and rewriting do not, because the dictionary
  stands for the file while it is rewritten. `LastOf` and `ReplayIs` are the
  facts about the last line of a name that all of this needs.
* `LossIsBoundedHolds`: `[]LossIsBounded`. `LossInv` counts the recorded names of
  which no whole line tells (`Unsure`), and adds one while the file ends in a cut
  line, since the next append will be glued to it: together never more than the
  appends that were cut. The property alone is not inductive: it sees a loss
  only once the line is spoilt, not the cut that is going to spoil it.

**`AccountsProofs`**
* `InvInductive`, for `Inv`: types and unique addresses; an open transaction is
  about a registered user (`OpenInv`); counter, lock and history of a row agree up
  to what was missed (`RowInv`); and (`ReadInv`) what an open transaction read
  was true of the row when nothing was missed, and still relates to it when only
  failures were. `CounterIsHonest`, `LockOutIsEarned` and `LockOutRunsItsTime`
  follow; without `ReadInv` none of them is inductive, since the write stores
  what was read.
* `LinksReusedOnlyByOverlap`: `[]ReusedOnlyByOverlap`, from `LinkInv`: a token is on
  file for one account at most, one being redeemed for no other, and one that was
  redeemed for none.

**`DataAgentsProofs`**
* `InvInductive`, for `IInv`: calls made are failures counted, plus the one under
  way (`Counted`), and the recorded call is older than the real one by `OverSleep`
  at most (`Recorded`). `AttemptsCountedHolds` and `PacedHolds` are action
  properties that follow. `StepIs` reduces all of ingestion and validation to the
  four things a step can do to counters and clocks.
* `DataInductive`, for `IInv /\ DataInv`: what the runs have. Of a source that is done
  with a run has all or one issue, of one to come nothing (`TakenAt`); a file that
  was filled holds its source until another run writes to it (`StagedAt`), which is
  what makes the first part inductive while runs interleave; sources that were given
  up are known by the issues that name no row (`LostAt`). In validation
  (`JudgedAt`, `Settled`) the errors are those the checks found, the rows still to be
  judged are unclear and listed once each, and every other unclear row has exactly one
  verdict, an escalation if the gateway never saw the row; a run that is done has
  nothing left to judge and its issues are those of ingestion and findings
  (`DoneAt`). `TypeCorrect`, `WholeOrLostHolds`, `NothingSlipsThroughHolds` and
  `GateSeesTheTruthHolds` follow. Ingestion steps are reduced to three kinds
  (`IngestStepIs`): nothing new, a source that is done with, a staging file written.

**`SelectionProofs`**
* What `Among` keeps: `AmongType`, `AmongAll`, `AmongNone`, `AmongAdded` (what is
  added to a list is selected as a whole or not at all, which is how a source
  neither loses nor gains when another is merged), `AmongKeeps` (nothing is left
  out or made up), `AmongDistinct`. They are proved by induction on a list's
  length, which `AllSequences` and `AllNumbers` state with sets instead of
  predicates, from the least element of a well-founded order.

**`MatchMemoryProofs`**
* `InvInductive`, for `IInv`: where support comes from (`Origins`) and that what was
  found near is still stored (`SeenIsStored`). `Origins` says that a run that is not
  at matching holds nothing (`Resting`), every stored text has a writer
  (`StoredAreWritten`), and the writer is an attempt that has begun; one of a run
  that calibrates now is an earlier attempt of it which left matches behind
  (`WritersAreEarlier`). `SupportIsEarlier` alone is not inductive: it says nothing
  of a store loop half done. `SupportIsEarlierHolds` and `SupportLastsHolds` follow.

Assumptions on constants, each named where it is declared and evaluated by TLC.
The ones that restrict the code: `RatioAssumption` of `RuleLearning` (no
similarity is exactly between two hundredths, where floating point may round
either way), `DefaultAssumption` (the default threshold is a whole hundredth: it
is 0.8), `RoundingAssumption` of `MatchRules` (`Tol * Window <= 3500`: then two
tolerance scores that differ still do after rounding to four decimals; the
defaults give 4), `NameAssumption` of `AliasStore` (finitely many names),
`TimeAssumption` of `Accounts` (lock-outs and links last at least a tick). One
names things: `ConfigAssumption` of `Ingestion` gives each entry of a run's
configuration a source name of its own; two entries for one file are two sources
that hold the same rows and, over SFTP, share a staging file. The others say of
what kind a constant is, or that a marker is not a value.

Only model-checked: liveness (`CallsReturn`, `PipelineFinishes`, `RunsEnd`,
`LockIsTemporary`), which the prover does not cover. Every other property that a
passing run checks is a theorem.

## 7. Abstractions to know about

* `make_run_id`'s hash is injective; queue keys are pairs, so the text
  prefix of `pending_for_run` cannot match another run whose id contains a colon.
* Reading the checkpoint and the `invoke()` that follows (`checkpointer.py:65-82`)
  are one step, and a run has one call at a time (`call[t] = "idle"`). Nothing in the
  code keeps two `run_pipeline` or HITL calls for one run id apart; that callers do
  is an assumption, and two that overlap could both execute its pending nodes.
* The thread and the `run_id` in the state are one in `ReconGraph`. The code lets them
  differ (the initial state of `docs/RUNBOOK.md`'s example, the default
  `"unknown-run"`): the queue's entries then belong to the state's `run_id`, and runs
  that share one share their entries.
* Node functions and queue operations do not overlap within a process finer than
  a step; CPython runs each queue operation as dictionary calls.
* A decision may zero `unmatched_count` or clear the issues, the channels whose
  value moves a gate; a run that then skips resolution is outside `SignedOff`.
* Calibration changes confidences after matching and no match, so `Matching` is
  without it and `MatchMemory` takes the matches as given. Distances are an
  arbitrary function; the nearest three are represented by the nearest.
* A row is one of six forms; a finding names its row by position, where the code
  uses the txn_id. Issues of one source are kept apart by a source name that
  only properties read.
* Credentials of a source are looked up and logged; all they can do is make a
  transfer fail.
* Bcrypt is equality; a session cannot guess a token, it redeems one that was
  delivered or shown.
* SequenceMatcher is a given function; nothing assumes it symmetric. Its ratios are
  integers in 1/100000 and a confidence is rounded half up; how floating point
  breaks an exact half is abstracted.

## 8. Not modelled

* Pure display or formatting: the pages of `demo_app.py` (but for what the login
  pages can do, in `Accounts`), reports and their builder, exception notes, the
  tracer and its viewer, log records, the mailer.
* Straight-line code without state: currency conversion and reference spelling,
  the risk score of an exception, embeddings, the tool registry, offline
  evaluation, fixtures and scripts, the injection guard's regular expressions.
  Where their outcome matters it is a free choice (risk) or a given function
  (similarity, distance) of the models.
* Review deadlines (`sla_hours`, `breached()`): a display filter over wall-clock
  time that nothing in the pipeline acts upon.
* The schema migration of `auth/db.py`: one `ALTER TABLE` at start-up; two
  processes that start on an old table at once may both attempt it.
* Queue keys as text: a run id that contains a colon, which only a caller of
  `start_run_with_hitl` can choose, could own another run's entries.
* `data_subgraph.py` strings agents together that are modelled: its ingestion and
  validation are a run outside `Graphed`.
