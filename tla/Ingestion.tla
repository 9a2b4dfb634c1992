----------------------------- MODULE Ingestion -----------------------------
(***************************************************************************)
(* The ingestion agent (datagents/agents/ingestion_agent.py), its retries   *)
(* and pacing (datagents/resilience.py) and the source tools it calls       *)
(* (csv_read_tool, api_fetch_tool, sftp_fetch_tool).                        *)
(*                                                                         *)
(* A run works through its sources in order.  Several runs are under way in *)
(* one deployment and share the directory SFTP files are staged in, where a *)
(* file is known by its base name alone.  The steps of DataAgents follow on *)
(* those of this module.                                                   *)
(***************************************************************************)
EXTENDS Integers, Selection

CONSTANTS
    Runs, Sources, Ids, Files,
    Configs,     \* the sources of each run, book before bank: each entry of the
                 \* configuration is a source of its own
    StagedAs,    \* the staging file of each source reached over SFTP
    Flaky,       \* sources whose tool raises FetchError; none of the tools in
                 \* the repository does, the tests install one that does
    Retries,     \* options["retries"] of each source
    Delay,       \* retry_base_delay
    Interval,    \* min_interval_seconds of a run's RateLimiter, 0 for none
    OverSleep,   \* bound: how much longer than asked a sleep may last
    Shipments,   \* what the sources may hold
    Nothing      \* an empty staging file

\* A row as the tools and the checks tell rows apart: sound and anchored by a
\* reference, sound without one, without one and flagged by the injection
\* guard, failing a deterministic check, rejected while parsed, or one on which
\* parsing raises something the tools do not catch (a short line).
Forms == {"plain", "unsure", "hostile", "flawed", "bad", "broken"}
Rows  == [id : Ids, form : Forms]

ASSUME ConfigAssumption   == /\ Configs \in [Runs -> Seq(Sources) \ {<<>>}]
                             /\ \A r \in Runs : \A j, k \in 1 .. Len(Configs[r]) :
                                   Configs[r][j] = Configs[r][k] => j = k
ASSUME StagingAssumption  == StagedAs \in [DOMAIN StagedAs -> Files]
                             /\ DOMAIN StagedAs \subseteq Sources
ASSUME FlakyAssumption    == Flaky \subseteq Sources
ASSUME OptionAssumption   == /\ Retries \in [Sources -> Nat] /\ Delay \in Nat
                             /\ Interval \in Nat /\ OverSleep \in Nat
ASSUME ShipmentAssumption == Shipments \subseteq [Sources -> Seq(Rows)]
ASSUME NothingAssumption  == Nothing \notin Sources

VARIABLES
    shipment,  \* what each source holds
    work,      \* where each run is: its source, its step, attempts failed
    timer,     \* each run's clocks: see Clocks
    staged,    \* whose rows each staging file holds
    merged,    \* each run's merged IngestResult, and its ToolSpans
    calls,     \* history: tool calls made for the run's current source
    raced,     \* history: sources whose staging file another run wrote in the
               \* middle of their transfer
    down       \* history: sources that were given up

ivars == <<shipment, work, timer, staged, merged, calls, raced, down>>

Steps == {"wait", "pace", "call", "transfer", "parse", "backoff",  \* ingestion
          "choked",                                   \* a tool raised: no result
          "check", "judge", "done", "gave up"}        \* validation

\* Times are kept relative to now: since the last_call the limiter recorded,
\* since the last call was really made, and left to sleep (overslept if < 0).
Cap    == Interval + OverSleep
Clocks == [recorded : 0 .. Cap, real : 0 .. Cap, left : Int]

IngestInit ==
    /\ shipment \in Shipments
    /\ work   = [r \in Runs |-> [source |-> 1, step |-> "wait", failed |-> 0]]
    /\ timer  = [r \in Runs |-> [recorded |-> Cap, real |-> Cap, left |-> 0]]
    /\ staged = [f \in Files |-> Nothing]
    /\ merged = [r \in Runs |-> [txns |-> <<>>, issues |-> <<>>, spans |-> <<>>]]
    /\ calls  = [r \in Runs |-> 0]
    /\ raced  = [r \in Runs |-> {}]
    /\ down   = [r \in Runs |-> {}]

At(r, step)   == work[r].step = step
Goto(r, step) == work' = [work EXCEPT ![r].step = step]
Source(r)     == Configs[r][work[r].source]
Larger(m, n)  == IF m >= n THEN m ELSE n
Smaller(m, n) == IF m <= n THEN m ELSE n

-----------------------------------------------------------------------------
(* Definitions named X_... are faulty variants of X, no part of the          *)
(* specification.                                                          *)

\* The tool is called: the limiter has recorded the call at this time.
CallTool(r, recorded) ==
    /\ Goto(r, "call")
    /\ timer' = [timer EXCEPT ![r].recorded = recorded, ![r].real = 0]
    /\ calls' = [calls EXCEPT ![r] = @ + 1]

\* RateLimiter.wait(), before every attempt: no need to sleep.
Proceed(r) ==
    /\ At(r, "wait") /\ timer[r].recorded >= Interval
    /\ CallTool(r, 0)
    /\ UNCHANGED <<shipment, staged, merged, raced, down>>

\* RateLimiter.wait() sleeps for what remains.
Pace(r) ==
    /\ At(r, "wait") /\ timer[r].recorded < Interval
    /\ Goto(r, "pace")
    /\ UNCHANGED <<shipment, timer, staged, merged, calls, raced, down>>

\* last_call is left as it was before the sleep.
WakeUp_KeepsLastCall(r) ==
    /\ At(r, "pace") /\ timer[r].recorded >= Interval
    /\ CallTool(r, timer[r].recorded)
    /\ UNCHANGED <<shipment, staged, merged, raced, down>>

\* It records the time it asked to wake at, not the one it woke at.
WakeUp(r) ==
    /\ At(r, "pace") /\ timer[r].recorded >= Interval
    /\ CallTool(r, timer[r].recorded - Interval)
    /\ UNCHANGED <<shipment, staged, merged, raced, down>>

\* The merged result takes over what a source gave, and its span.
Finish(r, txns, issues) ==
    /\ merged' = [merged EXCEPT ![r] =
          [txns |-> @.txns \o txns, issues |-> @.issues \o issues,
           spans |-> Append(@.spans, [source |-> Source(r), attempts |-> work[r].failed + 1])]]
    /\ work'   = [work EXCEPT ![r] =
          [source |-> @.source + 1, failed |-> 0,
           step   |-> IF @.source = Len(Configs[r]) THEN "check" ELSE "wait"]]
    /\ calls'  = [calls EXCEPT ![r] = 0]

\* Issues name a row by its position, or no row when the source as a whole
\* failed.
NoRow == 0
Issue(s, row_ref)  == [source |-> s, row_ref |-> row_ref]
Positions(rows)    == [i \in 1 .. Len(rows) |-> i]
Sound(rows)        == Among(rows, {row \in Rows : row.form # "bad"})
Rejected(rows)     == Among(Positions(rows), {i \in 1 .. Len(rows) : rows[i].form = "bad"})
Raises(rows)       == \E i \in 1 .. Len(rows) : rows[i].form = "broken"

\* The transactions made of some rows; the name of their source is kept for the
\* properties, a Transaction has none.
Made(s, rows)      == [i \in 1 .. Len(rows) |-> [source |-> s, row |-> rows[i]]]
Issues(s, at)      == [i \in 1 .. Len(at) |-> Issue(s, at[i])]

\* The tool parses rows one by one; what it does not catch leaves the whole
\* ingestion, and what other sources gave is lost with it.
Absorb(r, rows) ==
    /\ IF Raises(rows)
       THEN Goto(r, "choked") /\ UNCHANGED <<merged, calls>>
       ELSE Finish(r, Made(Source(r), Sound(rows)), Issues(Source(r), Rejected(rows)))
    /\ UNCHANGED <<shipment, timer, staged, raced, down>>

\* The source is given up, with one issue that names no row.
Abandon(r) ==
    /\ Finish(r, <<>>, <<Issue(Source(r), NoRow)>>)
    /\ down' = [down EXCEPT ![r] = @ \cup {Source(r)}]

OverSftp(r) == Source(r) \in DOMAIN StagedAs

\* csv_read_tool and api_fetch_tool: one call.
Read(r) == At(r, "call") /\ ~OverSftp(r) /\ Absorb(r, shipment[Source(r)])

\* No such file, no usable answer, no transfer: one issue for the source.
Fail(r) ==
    /\ At(r, "call") \/ At(r, "transfer")
    /\ Abandon(r)
    /\ UNCHANGED <<shipment, timer, staged, raced>>

\* A run writes to the staging file of its source, to the surprise of those
\* that are between opening that file and parsing it.
Write(r, content) ==
    LET f == StagedAs[Source(r)]
    IN  /\ staged' = [staged EXCEPT ![f] = content]
        /\ raced'  = [q \in Runs |->
              IF q # r /\ (At(q, "transfer") \/ At(q, "parse")) /\ StagedAs[Source(q)] = f
              THEN raced[q] \cup {Source(q)} ELSE raced[q]]

\* sftp.get opens, that is empties, the staging file,
Open(r) ==
    /\ At(r, "call") /\ OverSftp(r)
    /\ Goto(r, "transfer")
    /\ Write(r, Nothing)
    /\ UNCHANGED <<shipment, timer, merged, calls, down>>

\* A transfer that fails is parsed all the same.
Transfer_IgnoresFailure(r) ==
    /\ At(r, "transfer")
    /\ Goto(r, "parse")
    /\ \/ Write(r, Source(r))
       \/ UNCHANGED <<staged, raced>>
    /\ UNCHANGED <<shipment, timer, merged, calls, down>>

\* and fills it;
Transfer(r) ==
    /\ At(r, "transfer")
    /\ Goto(r, "parse")
    /\ Write(r, Source(r))
    /\ UNCHANGED <<shipment, timer, merged, calls, down>>

\* then csv_read_tool reads whatever the file holds by then.
Parse(r) ==
    /\ At(r, "parse")
    /\ LET content == staged[StagedAs[Source(r)]]
       IN  Absorb(r, IF content = Nothing THEN <<>> ELSE shipment[content])

\* The last error goes up once more than `retries` attempts failed.
Error_OneMore(r) ==
    /\ At(r, "call") /\ Source(r) \in Flaky
    /\ IF work[r].failed + 1 > Retries[Source(r)]
       THEN Abandon(r) /\ UNCHANGED timer
       ELSE /\ work'  = [work EXCEPT ![r].step = "backoff", ![r].failed = @ + 1]
            /\ timer' = [timer EXCEPT ![r].left = Delay * 2 ^ work[r].failed]
            /\ UNCHANGED <<merged, calls, down>>
    /\ UNCHANGED <<shipment, staged, raced>>

\* with_retry: the tool raised FetchError.  After the last attempt the source is
\* given up with one issue, before it the next attempt is put off.
Error(r) ==
    /\ At(r, "call") /\ Source(r) \in Flaky
    /\ IF work[r].failed + 1 >= Retries[Source(r)]
       THEN Abandon(r) /\ UNCHANGED timer
       ELSE /\ work'  = [work EXCEPT ![r].step = "backoff", ![r].failed = @ + 1]
            /\ timer' = [timer EXCEPT ![r].left = Delay * 2 ^ work[r].failed]
            /\ UNCHANGED <<merged, calls, down>>
    /\ UNCHANGED <<shipment, staged, raced>>

Retry(r) ==
    /\ At(r, "backoff") /\ timer[r].left <= 0
    /\ Goto(r, "wait")
    /\ UNCHANGED <<shipment, timer, staged, merged, calls, raced, down>>

\* Time passes; no sleep lasts longer than OverSleep too long.
Tick ==
    /\ \A r \in Runs :
          /\ At(r, "pace")    => timer[r].recorded < Cap
          /\ At(r, "backoff") => timer[r].left > -OverSleep
    /\ timer' = [r \in Runs |->
          [recorded |-> Smaller(timer[r].recorded + 1, Cap),
           real     |-> Smaller(timer[r].real + 1, Cap),
           left     |-> IF At(r, "backoff") THEN timer[r].left - 1 ELSE 0]]
    /\ UNCHANGED <<shipment, work, staged, merged, calls, raced, down>>

IngestStep(r) ==
    \/ Proceed(r) \/ Pace(r) \/ WakeUp(r)
    \/ Read(r) \/ Fail(r) \/ Open(r) \/ Transfer(r) \/ Parse(r)
    \/ Error(r) \/ Retry(r)

-----------------------------------------------------------------------------
(* Properties.                                                             *)

\* What a run has of one source.
TxnsOf(r, s)   == Among(merged[r].txns,   [source : {s}, row : Rows])
IssuesOf(r, s) == Among(merged[r].issues, [source : {s}, row_ref : Nat])
Finished(r)    == {merged[r].spans[i].source : i \in 1 .. Len(merged[r].spans)}

\* A source is ingested as a whole or not at all, once, whatever retries were
\* needed and whoever else was staging files: each of its own rows is either a
\* transaction or an issue that names it, or there is one issue for the source.
\* The exception is a staging file that another run wrote to meanwhile.
WholeOrLost ==
    \A r \in Runs : \A s \in Finished(r) \ raced[r] :
        \/ /\ TxnsOf(r, s)   = Made(s, Sound(shipment[s]))
           /\ IssuesOf(r, s) = Issues(s, Rejected(shipment[s]))
        \/ /\ TxnsOf(r, s)   = <<>>
           /\ IssuesOf(r, s) = <<Issue(s, NoRow)>>

\* A source sees no more calls than it may, and the span in ingestion_metrics
\* tells how many there were.
AttemptsCounted ==
    [][\A r \in Runs :
          LET s == Source(r)
          IN  work'[r].source > work[r].source
                => /\ merged'[r].spans = Append(merged[r].spans,
                                                [source |-> s, attempts |-> calls[r]])
                   /\ calls[r] <= Larger(1, Retries[s])]_ivars

\* The limiter keeps two calls of a run Interval apart, but for what the sleep
\* before the first of them took too long: the limiter records the time it meant
\* to wake at.  (So the "minimum interval" of resilience.py:76 is not one.)
Paced ==
    [][\A r \in Runs : calls'[r] > calls[r] => timer[r].real >= Interval - OverSleep]_ivars
=============================================================================
