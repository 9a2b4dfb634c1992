-------------------------- MODULE DataAgentsProofs --------------------------
(***************************************************************************)
(* Proofs about DataAgents, for any runs, sources, retries, delays, sleeps  *)
(* and shipments.                                                          *)
(*                                                                         *)
(* The first part is how often and how fast a source is called: IInv        *)
(* relates the attempts that failed to the calls made, and the call the     *)
(* limiter has recorded to the one that was made.  The second part is what  *)
(* the runs have of their sources and make of it: DataInv follows the lists *)
(* of a run source by source, its staging file, and the verdicts on its     *)
(* rows one by one.                                                        *)
(***************************************************************************)
EXTENDS DataAgents, SelectionProofs, FiniteSetTheorems

Waiting   == {"wait", "pace", "backoff"}
Calling   == {"call", "transfer", "parse"}
Places    == [source : Nat \ {0}, step : Steps, failed : Nat]

TypeCore ==
    /\ work   \in [Runs -> Places]
    /\ timer  \in [Runs -> Clocks]
    /\ calls  \in [Runs -> Nat]
    /\ DOMAIN merged = Runs

\* Every attempt but the one under way failed, and there are no more than may be.
Counted ==
    \A r \in Runs :
        /\ work[r].step \in Waiting => calls[r] = work[r].failed
        /\ work[r].step \in Calling => calls[r] = work[r].failed + 1
        /\ work[r].step \in Waiting \cup Calling =>
              /\ work[r].source \in 1 .. Len(Configs[r])
              /\ work[r].failed < Larger(1, Retries[Source(r)])

\* The recorded call is the last one, or earlier by no more than a sleep may be
\* too long.
Recorded == \A r \in Runs : timer[r].recorded <= timer[r].real + OverSleep

IInv == TypeCore /\ Counted /\ Recorded

-----------------------------------------------------------------------------
(* What a step does to the run it is of.                                   *)

\* The tool is called, as the limiter sees fit.
Called(r) ==
    /\ work[r].step \in {"wait", "pace"} /\ timer[r].recorded >= Interval
    /\ \E c \in 0 .. OverSleep : CallTool(r, c)
    /\ merged' = merged

\* The current source is done with.
Ends(r) ==
    /\ work[r].step \in Calling
    /\ \E txns, found : Finish(r, txns, found)
    /\ timer' = timer

\* The run goes from one step of a phase to another.
Moves(r) ==
    /\ \/ At(r, "wait") /\ Goto(r, "pace")
       \/ At(r, "backoff") /\ Goto(r, "wait")
       \/ \E a \in Calling \cup {"choked"} : work[r].step \in Calling /\ Goto(r, a)
       \/ \E a \in {"judge", "done", "gave up"} :
             work[r].step \in {"check", "judge"} /\ (Goto(r, a) \/ UNCHANGED work)
    /\ UNCHANGED <<timer, merged, calls>>

\* One attempt failed and another is to follow.
PutsOff(r) ==
    /\ At(r, "call") /\ work[r].failed + 1 < Retries[Source(r)]
    /\ work' = [work EXCEPT ![r].step = "backoff", ![r].failed = @ + 1]
    /\ timer' = [timer EXCEPT ![r].left = Delay * 2 ^ work[r].failed]
    /\ UNCHANGED <<merged, calls>>

\* The clocks of a run are numbers within the cap.
LEMMA RecordedType ==
    ASSUME TypeCore, NEW r \in Runs
    PROVE  /\ timer[r].recorded \in 0 .. Cap /\ timer[r].real \in 0 .. Cap
           /\ timer[r].left \in Int
           /\ Interval \in Nat /\ OverSleep \in Nat /\ Cap = Interval + OverSleep
  BY OptionAssumption DEF TypeCore, Clocks, Cap

\* A step of a run is one of four kinds, as far as its clocks and counters go: it
\* calls a tool, ends a source, moves on, or puts a retry off.
LEMMA StepIs ==
    ASSUME TypeCore, Counted, NEW r \in Runs, Step(r)
    PROVE  Called(r) \/ Ends(r) \/ Moves(r) \/ PutsOff(r)
<1>1. CASE Proceed(r)
  <2>1. 0 \in 0 .. OverSleep
    BY RecordedType
  <2> QED BY <1>1, <2>1 DEF Proceed, At, Called
<1>2. CASE WakeUp(r)
  <2>1. timer[r].recorded - Interval \in 0 .. OverSleep
    BY <1>2, RecordedType DEF WakeUp
  <2> QED BY <1>2, <2>1 DEF WakeUp, At, Called
<1>3. CASE Pace(r) \/ Retry(r)
  BY <1>3 DEF Pace, Retry, Moves
<1>4. ASSUME NEW rows, Absorb(r, rows), work[r].step \in Calling
      PROVE  Ends(r) \/ Moves(r)
  BY <1>4 DEF Absorb, Ends, Moves
<1>5. CASE Read(r)
  BY <1>4, <1>5 DEF Read, At, Calling
<1>6. CASE Parse(r)
  BY <1>4, <1>6 DEF Parse, At, Calling
<1>7. CASE Fail(r)
  BY <1>7 DEF Fail, Abandon, Ends, At, Calling
<1>8. CASE Open(r) \/ Transfer(r)
  BY <1>8 DEF Open, Transfer, Moves, At, Calling
<1>9. CASE Error(r)
  <2>1. Source(r) \in Sources
    BY <1>9, FlakyAssumption DEF Error
  <2>2. Retries[Source(r)] \in Nat
    BY <2>1, OptionAssumption
  <2>3. work[r].failed \in Nat
    BY DEF TypeCore, Places
  <2>4. CASE work[r].failed + 1 >= Retries[Source(r)]
    BY <1>9, <2>4 DEF Error, Abandon, Ends, At, Calling
  <2>5. CASE ~(work[r].failed + 1 >= Retries[Source(r)])
    BY <1>9, <2>2, <2>3, <2>5 DEF Error, PutsOff
  <2> QED BY <2>4, <2>5
<1>10. CASE ValidateStep(r)
  BY <1>10 DEF ValidateStep, Check, Refuse, Answer, Garbage, GiveUp, Conclude, Ask, Judging,
     ivars, At, Moves
<1> QED BY <1>1, <1>2, <1>3, <1>5, <1>6, <1>7, <1>8, <1>9, <1>10 DEF Step, IngestStep

-----------------------------------------------------------------------------
(* The invariant is inductive.                                             *)

\* Where a run is has its type.
LEMMA PlaceType ==
    ASSUME TypeCore, NEW r \in Runs
    PROVE  /\ work[r] \in Places
           /\ work[r].source \in Nat \ {0} /\ work[r].failed \in Nat /\ work[r].step \in Steps
           /\ calls[r] \in Nat
<1>1. work[r] \in Places
  BY DEF TypeCore
<1> QED BY <1>1 DEF TypeCore, Places

\* Every run has at least one source.
LEMMA ConfigType ==
    ASSUME NEW r \in Runs
    PROVE  Configs[r] \in Seq(Sources) /\ Len(Configs[r]) \in Nat \ {0}
  BY ConfigAssumption

\* The source a run is at is one of its sources, with a number of retries.
LEMMA SourceType ==
    ASSUME NEW r \in Runs, work[r].source \in 1 .. Len(Configs[r])
    PROVE  Source(r) \in Sources /\ Retries[Source(r)] \in Nat
  BY ConfigType, OptionAssumption DEF Source

\* Where a run stands, apart from all others.
CountedAt(r) ==
    /\ work[r].step \in Waiting => calls[r] = work[r].failed
    /\ work[r].step \in Calling => calls[r] = work[r].failed + 1
    /\ work[r].step \in Waiting \cup Calling =>
          /\ work[r].source \in 1 .. Len(Configs[r])
          /\ work[r].failed < Larger(1, Retries[Source(r)])
RecordedAt(r) == timer[r].recorded <= timer[r].real + OverSleep

\* What the invariant says of a run survives a step that leaves the run alone.
LEMMA KeptAt ==
    ASSUME NEW r \in Runs, CountedAt(r), RecordedAt(r),
           work'[r] = work[r], calls'[r] = calls[r], timer'[r] = timer[r]
    PROVE  CountedAt(r)' /\ RecordedAt(r)'
  BY DEF CountedAt, RecordedAt, Source

\* Calling a tool preserves the invariant: the call is counted, and the limiter's
\* record of it is earlier by no more than a sleep may be too long.
LEMMA InvCalled ==
    ASSUME IInv, NEW r \in Runs, Called(r)
    PROVE  IInv'
<1>1. PICK c \in 0 .. OverSleep : CallTool(r, c)
  BY DEF Called
<1>2. /\ work'  = [work EXCEPT ![r].step = "call"]
      /\ timer' = [timer EXCEPT ![r].recorded = c, ![r].real = 0]
      /\ calls' = [calls EXCEPT ![r] = @ + 1]
      /\ merged' = merged
  BY <1>1 DEF CallTool, Goto, Called
<1>3. \A q \in Runs \ {r} : work'[q] = work[q] /\ calls'[q] = calls[q] /\ timer'[q] = timer[q]
  BY <1>2 DEF IInv, TypeCore
<1>4. /\ work'[r] = [work[r] EXCEPT !.step = "call"]
      /\ timer'[r] = [timer[r] EXCEPT !.recorded = c, !.real = 0]
      /\ calls'[r] = calls[r] + 1
  BY <1>2 DEF IInv, TypeCore
<1>5. work'[r] \in Places /\ work'[r].step = "call" /\ work'[r].source = work[r].source
      /\ work'[r].failed = work[r].failed
  BY <1>4, PlaceType DEF IInv, Places, Steps
<1>6. timer'[r] \in Clocks /\ timer'[r].recorded = c /\ timer'[r].real = 0
  <2>1. timer[r] \in Clocks /\ c \in 0 .. Cap /\ 0 \in 0 .. Cap
    BY RecordedType DEF IInv, TypeCore
  <2> QED BY <1>4, <2>1 DEF Clocks
<1>7. TypeCore'
  BY <1>2, <1>3, <1>4, <1>5, <1>6, PlaceType DEF IInv, TypeCore
<1>8. CountedAt(r)'
  <2>1. work[r].step \in Waiting /\ Source(r)' = Source(r)
    BY <1>5 DEF Called, Waiting, Source
  <2> QED BY <1>4, <1>5, <2>1 DEF CountedAt, IInv, Counted, Waiting, Calling
<1>9. RecordedAt(r)'
  BY <1>6, RecordedType DEF RecordedAt, IInv
<1>10. \A q \in Runs : CountedAt(q)' /\ RecordedAt(q)'
  <2>1. \A q \in Runs : CountedAt(q) /\ RecordedAt(q)
    BY DEF IInv, Counted, Recorded, CountedAt, RecordedAt
  <2> QED BY <1>3, <1>8, <1>9, <2>1, KeptAt
<1> QED BY <1>7, <1>10 DEF IInv, Counted, Recorded, CountedAt, RecordedAt

\* Ending a source does: its failures and its last call make up its calls.
LEMMA InvEnds ==
    ASSUME IInv, NEW r \in Runs, Ends(r)
    PROVE  IInv'
<1> DEFINE next == [source |-> work[r].source + 1, failed |-> 0,
                    step   |-> IF work[r].source = Len(Configs[r]) THEN "check" ELSE "wait"]
<1>1. PICK txns, found : Finish(r, txns, found)
  BY DEF Ends
<1>2. /\ work' = [work EXCEPT ![r] = next] /\ timer' = timer
      /\ calls' = [calls EXCEPT ![r] = 0] /\ DOMAIN merged' = Runs
  BY <1>1 DEF Finish, Ends, IInv, TypeCore
<1>3. \A q \in Runs \ {r} : work'[q] = work[q] /\ calls'[q] = calls[q] /\ timer'[q] = timer[q]
  BY <1>2 DEF IInv, TypeCore
<1>4. work'[r] = next /\ calls'[r] = 0 /\ timer'[r] = timer[r]
  BY <1>2 DEF IInv, TypeCore
<1>5. work[r].source \in 1 .. Len(Configs[r]) /\ Len(Configs[r]) \in Nat
  BY ConfigType DEF IInv, Counted, Ends
<1>6. next \in Places
  BY <1>5 DEF Places, Steps
<1>7. TypeCore'
  BY <1>2, <1>6 DEF IInv, TypeCore
<1>8. CountedAt(r)'
  <2>1. CASE work[r].source = Len(Configs[r])
    BY <1>4, <2>1 DEF CountedAt, Waiting, Calling
  <2>2. CASE work[r].source # Len(Configs[r])
    <3>1. work'[r].source \in 1 .. Len(Configs[r]) /\ work'[r].failed = 0 /\ work'[r].step = "wait"
      BY <1>4, <1>5, <2>2
    <3>2. \A n \in Nat : 0 < Larger(1, n)
      BY SMT DEF Larger
    <3>3. (Source(r) \in Sources /\ Retries[Source(r)] \in Nat)'
      BY <3>1, ConfigType, OptionAssumption DEF Source
    <3> QED BY <1>4, <3>1, <3>2, <3>3 DEF CountedAt, Waiting, Calling
  <2> QED BY <2>1, <2>2
<1>9. RecordedAt(r)'
  BY <1>4 DEF RecordedAt, IInv, Recorded
<1>10. \A q \in Runs : CountedAt(q)' /\ RecordedAt(q)'
  <2>1. \A q \in Runs : CountedAt(q) /\ RecordedAt(q)
    BY DEF IInv, Counted, Recorded, CountedAt, RecordedAt
  <2> QED BY <1>3, <1>8, <1>9, <2>1, KeptAt
<1> QED BY <1>7, <1>10 DEF IInv, Counted, Recorded, CountedAt, RecordedAt

\* Moving on within a source or a validation does.
LEMMA InvMoves ==
    ASSUME IInv, NEW r \in Runs, Moves(r)
    PROVE  IInv'
<1>1. UNCHANGED <<timer, merged, calls>>
  BY DEF Moves
<1>2. PICK a \in Steps : /\ work' = [work EXCEPT ![r].step = a]
                         /\ a \in Waiting => work[r].step \in Waiting
                         /\ a \in Calling => work[r].step \in Calling
  <2>1. CASE UNCHANGED work
    <3>1. work = [work EXCEPT ![r].step = work[r].step]
      BY PlaceType DEF IInv, TypeCore, Places
    <3> QED BY <2>1, <3>1, PlaceType DEF IInv
  <2>2. CASE ~UNCHANGED work
    BY <2>2 DEF Moves, At, Goto, Waiting, Calling, Steps
  <2> QED BY <2>1, <2>2
<1>3. \A q \in Runs \ {r} : work'[q] = work[q]
  BY <1>2 DEF IInv, TypeCore
<1>4. work'[r] = [work[r] EXCEPT !.step = a]
  BY <1>2 DEF IInv, TypeCore
<1>5. work'[r] \in Places /\ work'[r].step = a /\ work'[r].source = work[r].source
      /\ work'[r].failed = work[r].failed
  BY <1>4, PlaceType DEF IInv, Places
<1>6. TypeCore'
  BY <1>1, <1>2, <1>5 DEF IInv, TypeCore
<1>7. CountedAt(r)'
  <2>1. Source(r)' = Source(r)
    BY <1>5 DEF Source
  <2> QED BY <1>1, <1>2, <1>5, <2>1 DEF CountedAt, IInv, Counted, Waiting, Calling
<1>8. \A q \in Runs : CountedAt(q)' /\ RecordedAt(q)'
  <2>1. \A q \in Runs : CountedAt(q) /\ RecordedAt(q)
    BY DEF IInv, Counted, Recorded, CountedAt, RecordedAt
  <2>2. RecordedAt(r)'
    BY <1>1, <2>1 DEF RecordedAt
  <2> QED BY <1>1, <1>3, <1>7, <2>1, <2>2, KeptAt
<1> QED BY <1>6, <1>8 DEF IInv, Counted, Recorded, CountedAt, RecordedAt

\* Putting a retry off does: one more failure for the call that was counted.
LEMMA InvPutsOff ==
    ASSUME IInv, NEW r \in Runs, PutsOff(r)
    PROVE  IInv'
<1> DEFINE l == Delay * 2 ^ work[r].failed
<1>1. /\ work'  = [work EXCEPT ![r].step = "backoff", ![r].failed = @ + 1]
      /\ timer' = [timer EXCEPT ![r].left = l]
      /\ UNCHANGED <<merged, calls>>
  BY DEF PutsOff
<1>2. l \in Int
  BY PlaceType, OptionAssumption DEF IInv
<1> HIDE DEF l
<1>3. \A q \in Runs \ {r} : work'[q] = work[q] /\ timer'[q] = timer[q]
  BY <1>1 DEF IInv, TypeCore
<1>4. /\ work'[r]  = [work[r] EXCEPT !.step = "backoff", !.failed = @ + 1]
      /\ timer'[r] = [timer[r] EXCEPT !.left = l]
  BY <1>1 DEF IInv, TypeCore
<1>5. work'[r] \in Places /\ work'[r].step = "backoff" /\ work'[r].source = work[r].source
      /\ work'[r].failed = work[r].failed + 1
  <2>1. work[r] \in Places /\ work[r].failed + 1 \in Nat /\ "backoff" \in Steps
    <3>1. work[r] \in Places /\ work[r].failed \in Nat
      BY PlaceType DEF IInv
    <3>2. \A n \in Nat : n + 1 \in Nat
      BY SMT
    <3> QED BY <3>1, <3>2 DEF Steps
  <2>2. work'[r] = [work[r] EXCEPT !.step = "backoff", !.failed = work[r].failed + 1]
    BY <1>4
  <2> QED BY <2>1, <2>2 DEF Places
<1>6. timer'[r] \in Clocks /\ timer'[r].recorded = timer[r].recorded
      /\ timer'[r].real = timer[r].real
  <2>1. timer[r] \in Clocks
    BY DEF IInv, TypeCore
  <2> QED BY <1>2, <1>4, <2>1 DEF Clocks
<1>7. TypeCore'
  BY <1>1, <1>5, <1>6 DEF IInv, TypeCore
<1>8. CountedAt(r)'
  <2>1. work[r].step = "call" /\ work[r].failed + 1 < Retries[Source(r)] /\ Source(r)' = Source(r)
    BY <1>5 DEF PutsOff, At, Source
  <2>2. work[r].source \in 1 .. Len(Configs[r]) /\ calls[r] = work[r].failed + 1
    BY <2>1 DEF IInv, Counted, Calling
  <2>3. \A m, n \in Nat : m + 1 < n => m + 1 < Larger(1, n)
    BY SMT DEF Larger
  <2>4. work[r].failed + 1 < Larger(1, Retries[Source(r)])
    BY <2>1, <2>2, <2>3, SourceType, PlaceType DEF IInv
  <2> QED BY <1>1, <1>5, <2>1, <2>2, <2>4 DEF CountedAt, Waiting, Calling
<1>9. \A q \in Runs : CountedAt(q)' /\ RecordedAt(q)'
  <2>1. \A q \in Runs : CountedAt(q) /\ RecordedAt(q)
    BY DEF IInv, Counted, Recorded, CountedAt, RecordedAt
  <2>2. RecordedAt(r)'
    BY <1>6, <2>1 DEF RecordedAt
  <2> QED BY <1>1, <1>3, <1>8, <2>1, <2>2, KeptAt
<1> QED BY <1>7, <1>9 DEF IInv, Counted, Recorded, CountedAt, RecordedAt

\* The clock does: both clocks of a call advance together.
LEMMA InvTick ==
    ASSUME IInv, Tick
    PROVE  IInv'
<1>1. UNCHANGED <<work, merged, calls>>
  BY DEF Tick
<1>2. \A r \in Runs :
          /\ timer'[r].recorded = Smaller(timer[r].recorded + 1, Cap)
          /\ timer'[r].real = Smaller(timer[r].real + 1, Cap)
          /\ timer'[r] \in Clocks
  <2> SUFFICES ASSUME NEW r \in Runs
               PROVE  /\ timer'[r].recorded = Smaller(timer[r].recorded + 1, Cap)
                      /\ timer'[r].real = Smaller(timer[r].real + 1, Cap)
                      /\ timer'[r] \in Clocks
    OBVIOUS
  <2> DEFINE l == IF At(r, "backoff") THEN timer[r].left - 1 ELSE 0
  <2>1. timer'[r] = [recorded |-> Smaller(timer[r].recorded + 1, Cap),
                     real |-> Smaller(timer[r].real + 1, Cap), left |-> l]
    BY DEF Tick
  <2>2. l \in Int
    BY RecordedType DEF IInv
  <2>3. \A n \in 0 .. Cap : Smaller(n + 1, Cap) \in 0 .. Cap
    <3>1. Cap \in Nat
      BY RecordedType DEF IInv
    <3> QED BY <3>1, SMT DEF Smaller
  <2> HIDE DEF l
  <2> QED BY <2>1, <2>2, <2>3, RecordedType DEF IInv, Clocks
<1>3. timer' \in [Runs -> Clocks]
  <2>1. timer' = [r \in Runs |-> timer'[r]]
    BY DEF Tick
  <2> QED BY <1>2, <2>1
<1>4. TypeCore'
  BY <1>1, <1>3 DEF IInv, TypeCore
<1>5. \A r \in Runs : CountedAt(r)'
  BY <1>1 DEF IInv, Counted, CountedAt, Source
<1>6. \A r \in Runs : RecordedAt(r)'
  <2>1. \A m, n \in 0 .. Cap : m <= n + OverSleep => Smaller(m + 1, Cap) <= Smaller(n + 1, Cap) + OverSleep
    <3>1. Cap \in Nat /\ OverSleep \in Nat
      BY OptionAssumption DEF Cap
    <3> HIDE DEF Cap
    <3> QED BY <3>1, SMT DEF Smaller
  <2> QED BY <1>2, <2>1, RecordedType DEF RecordedAt, IInv, Recorded
<1> QED BY <1>4, <1>5, <1>6 DEF IInv, Counted, Recorded, CountedAt, RecordedAt

\* The invariant holds before the first call.
LEMMA InvInit == Init => IInv
<1> SUFFICES ASSUME Init PROVE IInv
  OBVIOUS
<1>1. TypeCore
  <2>1. Cap \in 0 .. Cap
    BY OptionAssumption DEF Cap
  <2> QED BY <2>1 DEF Init, IngestInit, TypeCore, Places, Steps, Clocks
<1>2. Counted
  <2> SUFFICES ASSUME NEW r \in Runs PROVE CountedAt(r)
    BY DEF Counted, CountedAt
  <2>1. work[r].source = 1 /\ work[r].step = "wait" /\ work[r].failed = 0 /\ calls[r] = 0
    BY DEF Init, IngestInit
  <2>2. work[r].source \in 1 .. Len(Configs[r])
    BY <2>1, ConfigType
  <2>3. \A n \in Nat : 0 < Larger(1, n)
    BY SMT DEF Larger
  <2> QED BY <2>1, <2>2, <2>3, SourceType DEF CountedAt, Waiting, Calling
<1>3. Recorded
  <2>1. Cap \in Nat /\ OverSleep \in Nat /\ Cap <= Cap + OverSleep
    BY OptionAssumption DEF Cap
  <2>2. \A r \in Runs : timer[r].recorded = Cap /\ timer[r].real = Cap
    BY DEF Init, IngestInit
  <2> QED BY <2>1, <2>2 DEF Recorded
<1> QED BY <1>1, <1>2, <1>3 DEF IInv

\* Every step preserves the invariant.
LEMMA InvStep == IInv /\ [Next]_vars => IInv'
<1> SUFFICES ASSUME IInv, [Next]_vars PROVE IInv'
  OBVIOUS
<1>1. ASSUME NEW r \in Runs, Step(r) PROVE IInv'
  <2>1. Called(r) \/ Ends(r) \/ Moves(r) \/ PutsOff(r)
    BY <1>1, StepIs DEF IInv
  <2> QED BY <2>1, InvCalled, InvEnds, InvMoves, InvPutsOff
<1>2. CASE Tick
  BY <1>2, InvTick
<1>3. CASE UNCHANGED vars
  BY <1>3 DEF vars, ivars, IInv, TypeCore, Counted, Recorded, Source
<1> QED BY <1>1, <1>2, <1>3 DEF Next

\* Only the end of a source takes a run to the next.
LEMMA SourceStays ==
    ASSUME TypeCore, NEW r \in Runs, Called(r) \/ Moves(r) \/ PutsOff(r), NEW q \in Runs
    PROVE  work'[q].source = work[q].source
<1>1. \A a : work' = [work EXCEPT ![r].step = a] => work'[q].source = work[q].source
  BY DEF TypeCore, Places
<1>2. CASE Called(r)
  BY <1>1, <1>2 DEF Called, CallTool, Goto
<1>3. CASE Moves(r)
  BY <1>1, <1>3 DEF Moves, Goto
<1>4. CASE PutsOff(r)
  BY <1>4 DEF PutsOff, TypeCore, Places
<1> QED BY <1>2, <1>3, <1>4

-----------------------------------------------------------------------------
(* The theorems.                                                           *)

\* The inductive invariant: calls against failed attempts, and the limiter's
\* record against the clock.
THEOREM InvInductive == Spec => []IInv
  BY InvInit, InvStep, PTL DEF Spec

\* with_retry calls a source no more than `retries` times, or once, and the
\* attempts in its ToolSpan are the calls that were made (_run_source).
THEOREM AttemptsCountedHolds == Spec => AttemptsCounted
<1> DEFINE Honest(r) ==
        work'[r].source > work[r].source
          => /\ merged'[r].spans = Append(merged[r].spans,
                                          [source |-> Source(r), attempts |-> calls[r]])
             /\ calls[r] <= Larger(1, Retries[Source(r)])
<1>1. ASSUME IInv, [Next]_vars PROVE [\A r \in Runs : Honest(r)]_ivars
  <2> SUFFICES ASSUME NEW q \in Runs, work'[q].source > work[q].source
               PROVE  /\ merged'[q].spans = Append(merged[q].spans,
                                                   [source |-> Source(q), attempts |-> calls[q]])
                      /\ calls[q] <= Larger(1, Retries[Source(q)])
    OBVIOUS
  <2>1. work'[q].source # work[q].source
    BY <1>1, PlaceType DEF IInv
  <2>2. PICK r \in Runs : Step(r)
    BY <1>1, <2>1 DEF Next, Tick, vars, ivars
  <2>3. CASE Called(r) \/ Moves(r) \/ PutsOff(r)
    BY <1>1, <2>1, <2>3, SourceStays DEF IInv
  <2>4. CASE Ends(r)
    <3>1. PICK txns, found : Finish(r, txns, found)
      BY <2>4 DEF Ends
    <3>2. q = r
      BY <1>1, <2>1, <3>1 DEF Finish, IInv, TypeCore
    <3>3. work[q].step \in Calling
      BY <2>4, <3>2 DEF Ends
    <3>4. /\ calls[q] = work[q].failed + 1 /\ work[q].source \in 1 .. Len(Configs[q])
          /\ work[q].failed < Larger(1, Retries[Source(q)])
      BY <1>1, <3>3 DEF IInv, Counted
    <3>5. merged'[q].spans = Append(merged[q].spans,
                                    [source |-> Source(q), attempts |-> work[q].failed + 1])
      BY <1>1, <3>1, <3>2 DEF Finish, IInv, TypeCore
    <3>6. \A m, n \in Nat : m < Larger(1, n) => m + 1 <= Larger(1, n)
      BY SMT DEF Larger
    <3>7. calls[q] <= Larger(1, Retries[Source(q)])
      BY <1>1, <3>4, <3>6, SourceType, PlaceType DEF IInv
    <3> QED BY <3>4, <3>5, <3>7
  <2> QED BY <1>1, <2>2, <2>3, <2>4, StepIs DEF IInv
<1>2. ASSUME IInv, [Next]_vars, [\A r \in Runs : Honest(r)]_ivars
      PROVE  [\A r \in Runs : LET s == Source(r)
                              IN  work'[r].source > work[r].source
                                    => /\ merged'[r].spans = Append(merged[r].spans,
                                                [source |-> s, attempts |-> calls[r]])
                                       /\ calls[r] <= Larger(1, Retries[s])]_ivars
  BY <1>2
<1> QED BY <1>1, <1>2, InvInductive, PTL DEF Spec, AttemptsCounted

\* RateLimiter.wait keeps two calls of a run min_interval_seconds apart, less
\* what the sleep before the first took too long.
THEOREM PacedHolds == Spec => Paced
<1>1. ASSUME IInv, [Next]_vars
      PROVE  [\A r \in Runs : calls'[r] > calls[r] => timer[r].real >= Interval - OverSleep]_ivars
  <2> SUFFICES ASSUME NEW q \in Runs, calls'[q] > calls[q]
               PROVE  timer[q].real >= Interval - OverSleep
    OBVIOUS
  <2>1. calls'[q] # calls[q]
    BY <1>1, PlaceType DEF IInv
  <2>2. PICK r \in Runs : Step(r)
    BY <1>1, <2>1 DEF Next, Tick, vars, ivars
  <2>3. CASE Moves(r) \/ PutsOff(r)
    BY <2>1, <2>3 DEF Moves, PutsOff
  <2>4. CASE Ends(r)
    <3>1. PICK txns, found : Finish(r, txns, found)
      BY <2>4 DEF Ends
    <3>2. calls'[q] \in {0, calls[q]}
      BY <1>1, <3>1 DEF Finish, IInv, TypeCore
    <3> QED BY <1>1, <2>1, <3>2, PlaceType DEF IInv
  <2>5. CASE Called(r)
    <3>1. q = r
      BY <1>1, <2>1, <2>5 DEF Called, CallTool, IInv, TypeCore
    <3>2. timer[q].recorded >= Interval /\ timer[q].recorded <= timer[q].real + OverSleep
      BY <1>1, <2>5, <3>1 DEF Called, IInv, Recorded
    <3> QED BY <1>1, <3>2, RecordedType DEF IInv
  <2> QED BY <1>1, <2>2, <2>3, <2>4, <2>5, StepIs DEF IInv
<1> QED BY <1>1, InvInductive, PTL DEF Spec, Paced
-----------------------------------------------------------------------------
(* What the runs have of their sources.                                    *)

Taken     == [source : Sources, row : Rows]
Reported  == [source : Sources, row_ref : Nat]
TakenFrom(s)    == [source : {s}, row : Rows]
ReportedFrom(s) == [source : {s}, row_ref : Nat]
Spans     == [source : Sources, attempts : Nat]
Merges    == [txns : Seq(Taken), issues : Seq(Reported), spans : Seq(Spans)]
Verdicts  == [txn : Nat, reason : {"ambiguous"}, escalate : BOOLEAN]

\* Every variable of ingestion but those of TypeCore has its type,
TakenCore ==
    /\ shipment \in Shipments
    /\ staged \in [Files -> Sources \cup {Nothing}]
    /\ merged \in [Runs -> Merges]
    /\ raced  \in [Runs -> SUBSET Sources]
    /\ down   \in [Runs -> SUBSET Sources]

\* and so has every variable of validation.
JudgeCore ==
    /\ todo     \in [Runs -> Seq(Nat)]
    /\ invalid  \in [Runs -> 0 .. MaxTries]
    /\ findings \in [Runs -> SUBSET Findings]
    /\ issues   \in [Runs -> SUBSET Records]
    /\ asked    \in [Runs -> SUBSET Nat]

\* A file that was filled and that no other run touched holds its source.
StagedAt(r) ==
    At(r, "transfer") \/ At(r, "parse") =>
        /\ OverSftp(r)
        /\ At(r, "parse") /\ Source(r) \notin raced[r] => staged[StagedAs[Source(r)]] = Source(r)

Whole(r, s) ==
    \/ /\ TxnsOf(r, s)   = Made(s, Sound(shipment[s]))
       /\ IssuesOf(r, s) = Issues(s, Rejected(shipment[s]))
    \/ /\ TxnsOf(r, s)   = <<>>
       /\ IssuesOf(r, s) = <<Issue(s, NoRow)>>

\* Sources are done with in their order; of those to come there is nothing yet.
TakenAt(r) ==
    /\ \A s \in Finished(r) : \E k \in 1 .. Len(Configs[r]) :
          k < work[r].source /\ s = Configs[r][k]
    /\ \A k \in 1 .. Len(Configs[r]) :
          LET s == Configs[r][k]
          IN  IF k < work[r].source THEN s \notin raced[r] => Whole(r, s)
              ELSE TxnsOf(r, s) = <<>> /\ IssuesOf(r, s) = <<>>

\* The sources that were given up are known by the issues that name no row.
LostAt(r) == down[r] # {} <=> \E i \in In(merged[r].issues) : i.row_ref = NoRow

\* Errors are what the deterministic checks found.
Errors(failing) == {[txn |-> i, reason |-> "error", escalate |-> FALSE] : i \in failing}

\* What is unclear and no longer to be judged has one verdict, which escalates
\* what was never asked about.
Settled(verdicts, rest, seen, unclear) ==
    /\ rest \subseteq unclear
    /\ \A f \in verdicts : f.txn \in unclear \ rest /\ (f.txn \notin seen => f.escalate)
    /\ \A f, g \in verdicts : g.txn = f.txn => g = f
    /\ \A i \in unclear \ rest : \E f \in verdicts : f.txn = i

JudgedAt(r) ==
    At(r, "judge") \/ At(r, "done") =>
        /\ findings[r] \ Verdicts = Errors(Failing(r))
        /\ Distinct(todo[r])
        /\ Settled(findings[r] \cap Verdicts, In(todo[r]), asked[r], Unclear(r))

\* Nothing is left to be judged when a run is done, and its issues are the ones
\* ingestion reported and those made of its findings.
DoneAt(r) ==
    At(r, "done") =>
        /\ todo[r] = <<>>
        /\ issues[r] =
              {[severity |-> "error", row_ref |-> i.row_ref] : i \in In(merged[r].issues)}
              \cup {[severity |-> Severity(r, f), row_ref |-> f.txn] : f \in findings[r]}

DataInv ==
    /\ TakenCore /\ JudgeCore
    /\ \A r \in Runs : StagedAt(r) /\ TakenAt(r) /\ LostAt(r) /\ JudgedAt(r) /\ DoneAt(r)

-----------------------------------------------------------------------------
(* Lists of what a source gave.                                            *)

\* Each element of a list is of its type.
LEMMA Element ==
    ASSUME NEW T, NEW s \in Seq(T), NEW i \in 1 .. Len(s)
    PROVE  s[i] \in T
  BY ElementOfSeq

\* Positions are numbers, one of each.
LEMMA PositionsType ==
    ASSUME NEW T, NEW rows \in Seq(T)
    PROVE  /\ Positions(rows) \in Seq(1 .. Len(rows)) /\ Positions(rows) \in Seq(Nat)
           /\ Distinct(Positions(rows)) /\ In(Positions(rows)) = 1 .. Len(rows)
<1>1. Len(rows) \in Nat
  OBVIOUS
<1>2. /\ Positions(rows) \in Seq(1 .. Len(rows)) /\ Positions(rows) \in Seq(Nat)
      /\ Len(Positions(rows)) = Len(rows) /\ \A i \in 1 .. Len(rows) : Positions(rows)[i] = i
  BY <1>1 DEF Positions
<1> QED
  BY <1>2 DEF Distinct, In

\* What is made of the rows of a source has its type and names the source.
LEMMA MadeType ==
    ASSUME NEW s, NEW rows \in Seq(Rows)
    PROVE  Made(s, Sound(rows)) \in Seq(TakenFrom(s))
<1>1. Sound(rows) \in Seq(Rows)
  <2>1. Sound(rows) \in Seq(Rows \cap {row \in Rows : row.form # "bad"})
    BY AmongType DEF Sound
  <2> QED
    BY <2>1, SeqMonotonic
<1> DEFINE q == Sound(rows)
<1>2. Len(q) \in Nat /\ \A i \in 1 .. Len(q) : q[i] \in Rows
  BY <1>1, Element
<1> HIDE DEF q
<1>3. Made(s, q) \in Seq(TakenFrom(s))
  BY <1>2 DEF Made, TakenFrom
<1> QED
  BY <1>3 DEF q

\* An issue about a row names it.
LEMMA IssuesType ==
    ASSUME NEW s, NEW rows \in Seq(Rows)
    PROVE  /\ Issues(s, Rejected(rows)) \in Seq(ReportedFrom(s))
           /\ \A i \in 1 .. Len(Issues(s, Rejected(rows))) :
                 Issues(s, Rejected(rows))[i].row_ref # NoRow
<1> DEFINE q == Rejected(rows)
           S == {i \in 1 .. Len(rows) : rows[i].form = "bad"}
<1>1. q \in Seq(Nat \cap S)
  BY PositionsType, AmongType DEF Rejected
<1>2. Len(q) \in Nat /\ \A i \in 1 .. Len(q) : q[i] \in Nat /\ q[i] # 0
  <2>1. \A i \in 1 .. Len(q) : q[i] \in Nat \cap S
    BY <1>1, Element
  <2> QED
    BY <1>1, <2>1
<1> HIDE DEF q
<1>3. /\ Issues(s, q) \in Seq(ReportedFrom(s))
      /\ Len(Issues(s, q)) = Len(q)
      /\ \A i \in 1 .. Len(q) : Issues(s, q)[i].row_ref = q[i]
  BY <1>2 DEF Issues, Issue, ReportedFrom
<1> QED
  BY <1>2, <1>3 DEF q, NoRow

\* What a source adds is all that is new of it, and nothing is new of any other.
LEMMA OnlyItsTxns ==
    ASSUME NEW s0 \in Sources, NEW s \in Sources,
           NEW h \in Seq(Taken), NEW txns \in Seq(TakenFrom(s0))
    PROVE  Among(Joined(h, txns), TakenFrom(s)) =
              IF s = s0 THEN Joined(Among(h, TakenFrom(s)), txns) ELSE Among(h, TakenFrom(s))
<1>1. TakenFrom(s0) \subseteq Taken
  BY DEF Taken, TakenFrom
<1>2. s # s0 => TakenFrom(s0) \cap TakenFrom(s) = {}
  BY DEF TakenFrom
<1> QED
  BY <1>1, <1>2, AmongAdded

\* The same of its issues.
LEMMA OnlyItsIssues ==
    ASSUME NEW s0 \in Sources, NEW s \in Sources,
           NEW g \in Seq(Reported), NEW found \in Seq(ReportedFrom(s0))
    PROVE  Among(Joined(g, found), ReportedFrom(s)) =
              IF s = s0 THEN Joined(Among(g, ReportedFrom(s)), found) ELSE Among(g, ReportedFrom(s))
<1>1. ReportedFrom(s0) \subseteq Reported
  BY DEF Reported, ReportedFrom
<1>2. s # s0 => ReportedFrom(s0) \cap ReportedFrom(s) = {}
  BY DEF ReportedFrom
<1> QED
  BY <1>1, <1>2, AmongAdded

-----------------------------------------------------------------------------
(* What a step does to what the runs have.                                 *)

\* The current source gives nothing new, yet.
Quiet(r) ==
    /\ UNCHANGED <<shipment, staged, merged, raced, down, vvars>>
    /\ \A q \in Runs \ {r} : work'[q] = work[q]
    /\ work'[r].source = work[r].source
    /\ work'[r].step \notin {"transfer", "parse", "judge", "done"}

\* What it gives is whole, unless its file was touched, or lost.
Yields(r, txns, found) ==
    /\ txns  \in Seq(TakenFrom(Source(r)))
    /\ found \in Seq(ReportedFrom(Source(r)))
    /\ Source(r) \notin raced[r] =>
          \/ /\ txns  = Made(Source(r), Sound(shipment[Source(r)]))
             /\ found = Issues(Source(r), Rejected(shipment[Source(r)]))
          \/ txns = <<>> /\ found = <<Issue(Source(r), NoRow)>>
    /\ \/ down' = down /\ \A i \in 1 .. Len(found) : found[i].row_ref # NoRow
       \/ /\ down' = [down EXCEPT ![r] = @ \cup {Source(r)}]
          /\ found = <<Issue(Source(r), NoRow)>>

Takes(r) ==
    /\ work[r].step \in Calling
    /\ \E txns, found : Finish(r, txns, found) /\ Yields(r, txns, found)
    /\ UNCHANGED <<shipment, staged, raced, vvars>>

\* The staging file of the current source is emptied or filled.
Stages(r) ==
    /\ OverSftp(r)
    /\ \/ At(r, "call") /\ Goto(r, "transfer") /\ Write(r, Nothing)
       \/ At(r, "transfer") /\ Goto(r, "parse") /\ Write(r, Source(r))
    /\ UNCHANGED <<shipment, merged, down, vvars>>

\* What a run has is known of the source it is at.
LEMMA CurrentSource ==
    ASSUME IInv, DataInv, NEW r \in Runs, work[r].step \in Calling
    PROVE  /\ work[r].source \in 1 .. Len(Configs[r])
           /\ Source(r) \in Sources /\ shipment[Source(r)] \in Seq(Rows)
           /\ work[r].failed \in Nat
<1>1. work[r].source \in 1 .. Len(Configs[r])
  BY DEF IInv, Counted
<1> QED
  BY <1>1, SourceType, PlaceType, ShipmentAssumption DEF DataInv, TakenCore, IInv

\* Parsing a file that is the source's own takes the source as a whole.
LEMMA AbsorbIs ==
    ASSUME IInv, DataInv, NEW r \in Runs, work[r].step \in Calling,
           NEW rows \in Seq(Rows), Source(r) \notin raced[r] => rows = shipment[Source(r)],
           Absorb(r, rows), UNCHANGED <<down, vvars>>
    PROVE  Quiet(r) \/ Takes(r)
<1>1. UNCHANGED <<shipment, staged, raced>>
  BY DEF Absorb
<1>2. CASE Raises(rows)
  <2>1. work' = [work EXCEPT ![r].step = "choked"] /\ merged' = merged
    BY <1>2 DEF Absorb, Goto
  <2> QED
    BY <1>1, <2>1 DEF Quiet, IInv, TypeCore, Places
<1>3. CASE ~Raises(rows)
  <2> DEFINE txns  == Made(Source(r), Sound(rows))
             found == Issues(Source(r), Rejected(rows))
  <2>1. Finish(r, txns, found)
    BY <1>3 DEF Absorb
  <2>2. Yields(r, txns, found)
    BY MadeType, IssuesType DEF Yields
  <2> HIDE DEF txns, found
  <2> QED
    BY <1>1, <2>1, <2>2 DEF Takes
<1> QED
  BY <1>2, <1>3

\* A source that is given up is lost.
LEMMA AbandonIs ==
    ASSUME IInv, DataInv, NEW r \in Runs, work[r].step \in Calling, Abandon(r),
           UNCHANGED <<shipment, staged, raced, vvars>>
    PROVE  Takes(r)
<1> DEFINE txns  == <<>>
           found == <<Issue(Source(r), NoRow)>>
<1>1. Finish(r, txns, found)
  BY DEF Abandon
<1>2. Yields(r, txns, found)
  <2>1. Issue(Source(r), NoRow) \in ReportedFrom(Source(r))
    BY DEF Issue, NoRow, ReportedFrom
  <2>2. found \in Seq(ReportedFrom(Source(r)))
    BY <2>1
  <2>3. txns \in Seq(TakenFrom(Source(r)))
    BY EmptySeq
  <2> QED
    BY <2>2, <2>3 DEF Yields, Abandon
<1> HIDE DEF txns, found
<1> QED
  BY <1>1, <1>2 DEF Takes

\* Every step of ingestion is of one of the three kinds.
LEMMA IngestStepIs ==
    ASSUME IInv, DataInv, NEW r \in Runs, IngestStep(r), UNCHANGED vvars
    PROVE  Quiet(r) \/ Takes(r) \/ Stages(r)
<1>1. \A a : Goto(r, a) => /\ \A q \in Runs \ {r} : work'[q] = work[q]
                           /\ work'[r].source = work[r].source /\ work'[r].step = a
  BY DEF Goto, IInv, TypeCore, Places
<1>2. CASE Proceed(r) \/ Pace(r) \/ WakeUp(r) \/ Retry(r)
  BY <1>1, <1>2 DEF Proceed, Pace, WakeUp, Retry, CallTool, Quiet
<1>3. CASE Read(r)
  <2>1. work[r].step \in Calling
    BY <1>3 DEF Read, At, Calling
  <2>2. Absorb(r, shipment[Source(r)])
    BY <1>3 DEF Read
  <2>3. down' = down
    BY <2>2 DEF Absorb
  <2>4. shipment[Source(r)] \in Seq(Rows)
    BY <2>1, CurrentSource
  <2> QED
    BY <2>1, <2>2, <2>3, <2>4, AbsorbIs
<1>4. CASE Parse(r)
  <2>1. work[r].step \in Calling /\ At(r, "parse")
    BY <1>4 DEF Parse, At, Calling
  <2> DEFINE content == staged[StagedAs[Source(r)]]
             rows    == IF content = Nothing THEN <<>> ELSE shipment[content]
  <2>2. StagedAt(r)
    BY DEF DataInv
  <2>3. content \in Sources \cup {Nothing}
    BY <2>1, <2>2, StagingAssumption DEF DataInv, TakenCore, StagedAt, OverSftp
  <2>4. rows \in Seq(Rows)
    BY <2>3, ShipmentAssumption, EmptySeq DEF DataInv, TakenCore
  <2>5. Source(r) \notin raced[r] => rows = shipment[Source(r)]
    BY <2>1, <2>2, CurrentSource, NothingAssumption DEF StagedAt
  <2>6. Absorb(r, rows)
    BY <1>4 DEF Parse
  <2> HIDE DEF rows
  <2>7. down' = down
    BY <2>6 DEF Absorb
  <2> QED
    BY <2>1, <2>4, <2>5, <2>6, <2>7, AbsorbIs
<1>5. CASE Fail(r)
  <2>1. work[r].step \in Calling
    BY <1>5 DEF Fail, At, Calling
  <2> QED
    BY <1>5, <2>1, AbandonIs DEF Fail
<1>6. CASE Open(r)
  BY <1>6 DEF Open, Stages
<1>7. CASE Transfer(r)
  <2>1. OverSftp(r)
    BY <1>7 DEF Transfer, DataInv, StagedAt
  <2> QED
    BY <1>7, <2>1 DEF Transfer, Stages
<1>8. CASE Error(r)
  <2>1. work[r].step \in Calling
    BY <1>8 DEF Error, At, Calling
  <2>2. CASE work[r].failed + 1 >= Retries[Source(r)]
    BY <1>8, <2>1, <2>2, AbandonIs DEF Error
  <2>3. CASE ~(work[r].failed + 1 >= Retries[Source(r)])
    <3>1. work' = [work EXCEPT ![r].step = "backoff", ![r].failed = @ + 1]
      BY <1>8, <2>3 DEF Error
    <3>2. /\ \A q \in Runs \ {r} : work'[q] = work[q]
          /\ work'[r].source = work[r].source /\ work'[r].step = "backoff"
      BY <3>1 DEF IInv, TypeCore, Places
    <3> QED
      BY <1>8, <2>3, <3>2 DEF Error, Quiet
  <2> QED
    BY <2>2, <2>3
<1> QED
  BY <1>2, <1>3, <1>4, <1>5, <1>6, <1>7, <1>8 DEF IngestStep

-----------------------------------------------------------------------------
(* What the runs have is kept.                                             *)

\* What a run has of its sources stays while it gets nothing new.
LEMMA TakenStays ==
    ASSUME NEW r \in Runs, TakenAt(r), LostAt(r), merged'[r] = merged[r], shipment' = shipment,
           work'[r].source = work[r].source, raced[r] \subseteq raced'[r], down'[r] = down[r]
    PROVE  TakenAt(r)' /\ LostAt(r)'
<1>1. \A s : Whole(r, s) => Whole(r, s)'
  BY DEF Whole, TxnsOf, IssuesOf
<1>2. \A s : /\ TxnsOf(r, s) = <<>> => TxnsOf(r, s)' = <<>>
             /\ IssuesOf(r, s) = <<>> => IssuesOf(r, s)' = <<>>
  BY DEF TxnsOf, IssuesOf
<1>3. Finished(r)' = Finished(r)
  BY DEF Finished
<1>4. TakenAt(r)'
  BY <1>1, <1>2, <1>3 DEF TakenAt
<1> QED
  BY <1>4 DEF LostAt

\* What is unclear or fails in a batch depends on nothing but the batch.
LEMMA BatchStays ==
    ASSUME NEW r \in Runs, merged'[r] = merged[r]
    PROVE  Unclear(r)' = Unclear(r) /\ Failing(r)' = Failing(r)
<1>1. Txns(r)' = Txns(r) /\ Batch(r)' = Batch(r) /\ \A i : Row(r, i)' = Row(r, i)
  BY DEF Txns, Batch, Row
<1>2. Failing(r)' = Failing(r)
  BY <1>1 DEF Failing
<1>3. FlaggedIds(r)' = FlaggedIds(r) /\ \A i : IsAmbiguous(r, i)' = IsAmbiguous(r, i)
  BY <1>1, <1>2 DEF FlaggedIds, IsAmbiguous
<1> QED
  BY <1>1, <1>2, <1>3 DEF Unclear

\* What a run was found to be stays when the step leaves it there.
LEMMA JudgedStays ==
    ASSUME NEW r \in Runs, JudgedAt(r), DoneAt(r), merged'[r] = merged[r], todo'[r] = todo[r],
           findings'[r] = findings[r], issues'[r] = issues[r], asked'[r] = asked[r],
           work'[r].step = work[r].step
    PROVE  JudgedAt(r)' /\ DoneAt(r)'
<1>1. Unclear(r)' = Unclear(r) /\ Failing(r)' = Failing(r)
  BY BatchStays
<1>2. JudgedAt(r)'
  BY <1>1 DEF JudgedAt, At
<1>3. DoneAt(r)'
  BY DEF DoneAt, At, Severity
<1> QED
  BY <1>2, <1>3

\* A run that is not yet being judged has nothing to show.
LEMMA NotYetJudged ==
    ASSUME NEW r \in Runs, work'[r].step \notin {"judge", "done"}
    PROVE  JudgedAt(r)' /\ DoneAt(r)'
  BY DEF JudgedAt, DoneAt, At

\* A staging file stays as it is.
LEMMA StagedStays ==
    ASSUME NEW r \in Runs, StagedAt(r), work'[r] = work[r], staged' = staged, raced' = raced
    PROVE  StagedAt(r)'
  BY DEF StagedAt, At, OverSftp, Source

\* A run that is at no transfer needs no staging file.
LEMMA NotStaging ==
    ASSUME NEW r \in Runs, work'[r].step \notin {"transfer", "parse"}
    PROVE  StagedAt(r)'
  BY DEF StagedAt, At

\* A quiet step changes nothing the runs have.
LEMMA DataQuiet ==
    ASSUME IInv, DataInv, NEW r \in Runs, Quiet(r)
    PROVE  DataInv'
<1>1. TakenCore' /\ JudgeCore'
  BY DEF DataInv, TakenCore, JudgeCore, Quiet, vvars
<1>2. ASSUME NEW q \in Runs
      PROVE  (StagedAt(q) /\ TakenAt(q) /\ LostAt(q) /\ JudgedAt(q) /\ DoneAt(q))'
  <2>1. StagedAt(q) /\ TakenAt(q) /\ LostAt(q) /\ JudgedAt(q) /\ DoneAt(q)
    BY DEF DataInv
  <2>2. TakenAt(q)' /\ LostAt(q)'
    BY <2>1, TakenStays DEF Quiet
  <2>3. CASE q = r
    BY <2>2, <2>3, NotStaging, NotYetJudged DEF Quiet
  <2>4. CASE q # r
    BY <2>1, <2>2, <2>4, StagedStays, JudgedStays DEF Quiet, vvars
  <2> QED
    BY <2>3, <2>4
<1> QED
  BY <1>1, <1>2 DEF DataInv

\* A file that is emptied or filled is its writer's, and those who had it know.
LEMMA DataStages ==
    ASSUME IInv, DataInv, NEW r \in Runs, Stages(r)
    PROVE  DataInv'
<1> DEFINE f == StagedAs[Source(r)]
<1>1. PICK a \in {"transfer", "parse"}, content \in Sources \cup {Nothing} :
          /\ Goto(r, a) /\ Write(r, content) /\ work[r].step \in Calling
          /\ a = "parse" => content = Source(r)
  <2>1. CASE At(r, "call")
    BY <2>1 DEF Stages, At, Calling
  <2>2. CASE At(r, "transfer")
    BY <2>2, CurrentSource DEF Stages, At, Calling
  <2> QED
    BY <2>1, <2>2 DEF Stages
<1>2. /\ \A q \in Runs \ {r} : work'[q] = work[q]
      /\ work'[r].source = work[r].source /\ work'[r].step = a
  BY <1>1 DEF Goto, IInv, TypeCore, Places
<1>3. f \in Files
  BY StagingAssumption DEF Stages, OverSftp
<1>4. staged' = [staged EXCEPT ![f] = content]
  BY <1>1 DEF Write
<1>5. \A q \in Runs :
          raced'[q] = IF q # r /\ (At(q, "transfer") \/ At(q, "parse")) /\ StagedAs[Source(q)] = f
                      THEN raced[q] \cup {Source(q)} ELSE raced[q]
  BY <1>1 DEF Write
<1>6. \A q \in Runs : At(q, "transfer") \/ At(q, "parse") => Source(q) \in Sources
  BY CurrentSource DEF At, Calling
<1>7. raced' \in [Runs -> SUBSET Sources]
  <2>1. raced' = [q \in Runs |-> raced'[q]]
    BY <1>1 DEF Write
  <2>2. \A q \in Runs : raced[q] \in SUBSET Sources
    BY DEF DataInv, TakenCore
  <2> QED
    BY <1>5, <1>6, <2>1, <2>2
<1>8. TakenCore' /\ JudgeCore'
  BY <1>3, <1>4, <1>7 DEF DataInv, TakenCore, JudgeCore, Stages, vvars
<1>9. ASSUME NEW q \in Runs
      PROVE  (StagedAt(q) /\ TakenAt(q) /\ LostAt(q) /\ JudgedAt(q) /\ DoneAt(q))'
  <2>1. StagedAt(q) /\ TakenAt(q) /\ LostAt(q) /\ JudgedAt(q) /\ DoneAt(q)
    BY DEF DataInv
  <2>2. TakenAt(q)' /\ LostAt(q)'
    BY <1>2, <1>5, <2>1, TakenStays DEF Stages
  <2>3. CASE q = r
    <3>1. Source(r)' = Source(r)
      BY <1>2 DEF Source
    <3>2. a = "parse" => staged'[f] = Source(r)
      BY <1>1, <1>3, <1>4 DEF DataInv, TakenCore
    <3>3. StagedAt(r)'
      BY <1>2, <3>1, <3>2 DEF StagedAt, At, OverSftp, Stages
    <3> QED
      BY <1>2, <2>2, <2>3, <3>3, NotYetJudged
  <2>4. CASE q # r
    <3>1. work'[q] = work[q] /\ Source(q)' = Source(q)
      BY <1>2, <2>4 DEF Source
    <3>2. StagedAt(q)'
      <4>1. CASE StagedAs[Source(q)] = f
        BY <1>5, <2>1, <2>4, <3>1, <4>1 DEF StagedAt, At, OverSftp
      <4>2. CASE StagedAs[Source(q)] # f
        <5>1. raced'[q] = raced[q]
          BY <1>5, <4>2
        <5>2. OverSftp(q) => StagedAs[Source(q)] \in Files
          BY StagingAssumption DEF OverSftp
        <5>3. OverSftp(q) => staged'[StagedAs[Source(q)]] = staged[StagedAs[Source(q)]]
          BY <1>4, <4>2, <5>2 DEF DataInv, TakenCore
        <5> QED
          BY <2>1, <3>1, <5>1, <5>3 DEF StagedAt, At, OverSftp
      <4> QED
        BY <4>1, <4>2
    <3> QED
      BY <2>1, <2>2, <3>1, <3>2, JudgedStays DEF Stages, vvars
  <2> QED
    BY <2>3, <2>4
<1> QED
  BY <1>8, <1>9 DEF DataInv

\* A source that is done with leaves nothing but what it gave.
LEMMA DataTakes ==
    ASSUME IInv, DataInv, NEW r \in Runs, Takes(r)
    PROVE  DataInv'
<1>0. PICK s0, k0 : s0 = Source(r) /\ k0 = work[r].source
  OBVIOUS
<1> DEFINE old == merged[r]
<1>1. PICK txns, found : Finish(r, txns, found) /\ Yields(r, txns, found)
  BY DEF Takes
<1>2. /\ k0 \in 1 .. Len(Configs[r]) /\ s0 \in Sources /\ s0 = Configs[r][k0]
      /\ shipment[s0] \in Seq(Rows) /\ work[r].failed \in Nat
  BY <1>0, CurrentSource DEF Takes, Source
<1>3. /\ work'[r].source = k0 + 1 /\ work'[r].step \in {"wait", "check"}
      /\ \A q \in Runs \ {r} : work'[q] = work[q] /\ merged'[q] = merged[q]
  BY <1>0, <1>1 DEF Finish, IInv, TypeCore, DataInv, TakenCore
<1>4. /\ old \in Merges /\ old.txns \in Seq(Taken) /\ old.issues \in Seq(Reported)
      /\ old.spans \in Seq(Spans)
  BY DEF DataInv, TakenCore, Merges
<1>5. /\ merged'[r].txns = Joined(old.txns, txns) /\ merged'[r].issues = Joined(old.issues, found)
      /\ merged'[r].spans = Append(old.spans, [source |-> s0, attempts |-> work[r].failed + 1])
      /\ DOMAIN merged' = Runs
      /\ merged'[r] = [txns |-> merged'[r].txns, issues |-> merged'[r].issues,
                       spans |-> merged'[r].spans]
  BY <1>0, <1>1 DEF Finish, Joined, DataInv, TakenCore
<1>6. /\ txns \in Seq(TakenFrom(s0)) /\ txns \in Seq(Taken)
      /\ found \in Seq(ReportedFrom(s0)) /\ found \in Seq(Reported)
  <2>1. TakenFrom(s0) \subseteq Taken
    BY <1>2 DEF Taken, TakenFrom
  <2>2. ReportedFrom(s0) \subseteq Reported
    BY <1>2 DEF Reported, ReportedFrom
  <2> QED
    BY <1>0, <1>1, <2>1, <2>2, SeqMonotonic DEF Yields
<1>7. UNCHANGED <<shipment, staged, raced, vvars>>
  BY DEF Takes
<1>8. TakenCore' /\ JudgeCore'
  <2>1. merged'[r].txns \in Seq(Taken) /\ merged'[r].issues \in Seq(Reported)
    BY <1>4, <1>5, <1>6, ConcatProperties DEF Joined
  <2>2. merged'[r].spans \in Seq(Spans)
    <3>1. work[r].failed + 1 \in Nat
      BY <1>2
    <3>2. [source |-> s0, attempts |-> work[r].failed + 1] \in Spans
      BY <1>2, <3>1 DEF Spans
    <3> QED
      BY <1>4, <1>5, <3>2, AppendProperties
  <2>3. merged'[r] \in Merges
    BY <1>5, <2>1, <2>2 DEF Merges
  <2>4. merged' \in [Runs -> Merges]
    <3>1. merged' = [q \in Runs |-> merged'[q]]
      BY <1>1 DEF Finish, DataInv, TakenCore
    <3> QED
      BY <1>3, <2>3, <3>1 DEF DataInv, TakenCore
  <2>5. down' \in [Runs -> SUBSET Sources]
    BY <1>0, <1>1, <1>2 DEF Yields, DataInv, TakenCore
  <2> QED
    BY <1>7, <2>4, <2>5 DEF DataInv, TakenCore, JudgeCore, vvars
<1>9. TakenAt(r)'
  <2>1. \A s \in Sources : /\ TxnsOf(r, s)'   = IF s = s0 THEN Joined(TxnsOf(r, s), txns) ELSE TxnsOf(r, s)
                           /\ IssuesOf(r, s)' = IF s = s0 THEN Joined(IssuesOf(r, s), found) ELSE IssuesOf(r, s)
    <3> SUFFICES ASSUME NEW s \in Sources
                 PROVE  /\ TxnsOf(r, s)'   = IF s = s0 THEN Joined(TxnsOf(r, s), txns) ELSE TxnsOf(r, s)
                        /\ IssuesOf(r, s)' = IF s = s0 THEN Joined(IssuesOf(r, s), found) ELSE IssuesOf(r, s)
      OBVIOUS
    <3> DEFINE h == old.txns
               g == old.issues
               A == TakenFrom(s)
               B == ReportedFrom(s)
    <3>1. /\ TxnsOf(r, s) = Among(h, A) /\ TxnsOf(r, s)' = Among(Joined(h, txns), A)
          /\ IssuesOf(r, s) = Among(g, B) /\ IssuesOf(r, s)' = Among(Joined(g, found), B)
      BY <1>5 DEF TxnsOf, IssuesOf, TakenFrom, ReportedFrom
    <3>2. /\ s0 \in Sources /\ h \in Seq(Taken) /\ g \in Seq(Reported)
          /\ txns \in Seq(TakenFrom(s0))
          /\ found \in Seq(ReportedFrom(s0))
      BY <1>2, <1>4, <1>6
    <3> HIDE DEF h, g
    <3>3. /\ Among(Joined(h, txns), A) = IF s = s0 THEN Joined(Among(h, A), txns) ELSE Among(h, A)
          /\ Among(Joined(g, found), B) = IF s = s0 THEN Joined(Among(g, B), found) ELSE Among(g, B)
      BY <3>2, OnlyItsTxns, OnlyItsIssues
    <3> HIDE DEF A, B
    <3> QED
      BY <3>1, <3>3
  <2>2. TxnsOf(r, s0) = <<>> /\ IssuesOf(r, s0) = <<>>
    BY <1>0, <1>2, PlaceType DEF DataInv, TakenAt, IInv
  <2>3. TxnsOf(r, s0)' = txns /\ IssuesOf(r, s0)' = found
    <3>1. Joined(<<>>, txns) = txns /\ Joined(<<>>, found) = found
      BY <1>6, ConcatEmptySeq DEF Joined
    <3> QED
      BY <1>2, <2>1, <2>2, <3>1
  <2>4. s0 \notin raced[r] => Whole(r, s0)'
    BY <1>0, <1>1, <1>7, <2>3 DEF Yields, Whole
  <2>5. Finished(r)' = Finished(r) \cup {s0}
    <3> DEFINE l == old.spans
               n == Len(l)
    <3>1. /\ n \in Nat /\ Len(merged'[r].spans) = n + 1 /\ merged'[r].spans[n + 1].source = s0
          /\ \A i \in 1 .. n : merged'[r].spans[i] = l[i]
      BY <1>4, <1>5, AppendProperties
    <3> HIDE DEF l, n
    <3>2. 1 .. n + 1 = (1 .. n) \cup {n + 1}
      BY <3>1
    <3>3. {merged'[r].spans[i].source : i \in 1 .. n + 1} = {l[i].source : i \in 1 .. n} \cup {s0}
      BY <3>1, <3>2
    <3> QED
      BY <3>1, <3>3 DEF Finished, l, n
  <2>6. \A s \in Finished(r)' : \E k \in 1 .. Len(Configs[r]) : k < k0 + 1 /\ s = Configs[r][k]
    <3>1. \A s \in Finished(r) : \E k \in 1 .. Len(Configs[r]) : k < k0 /\ s = Configs[r][k]
      BY <1>0 DEF DataInv, TakenAt
    <3> QED
      BY <1>2, <2>5, <3>1
  <2>7. ASSUME NEW k \in 1 .. Len(Configs[r])
        PROVE  LET s == Configs[r][k]
               IN  IF k < k0 + 1 THEN s \notin raced[r] => Whole(r, s)'
                   ELSE TxnsOf(r, s)' = <<>> /\ IssuesOf(r, s)' = <<>>
    <3> DEFINE s == Configs[r][k]
    <3>1. s \in Sources
      BY ConfigType, Element
    <3>2. CASE k = k0
      <4>1. s = s0
        BY <1>2, <3>2
      <4>2. s \notin raced[r] => Whole(r, s)'
        BY <2>4, <4>1
      <4> QED
        BY <1>2, <3>2, <4>2
    <3>3. CASE k # k0
      <4>1. s # s0
        BY <1>2, <3>3, ConfigAssumption
      <4>2. TxnsOf(r, s)' = TxnsOf(r, s) /\ IssuesOf(r, s)' = IssuesOf(r, s)
        BY <2>1, <3>1, <4>1
      <4>3. Whole(r, s) => Whole(r, s)'
        BY <1>7, <4>2 DEF Whole
      <4>4. IF k < k0 THEN s \notin raced[r] => Whole(r, s)
            ELSE TxnsOf(r, s) = <<>> /\ IssuesOf(r, s) = <<>>
        BY <1>0 DEF DataInv, TakenAt
      <4>5. k < k0 + 1 <=> k < k0
        BY <1>2, <3>3
      <4> QED
        BY <4>2, <4>3, <4>4, <4>5
    <3> QED
      BY <3>2, <3>3
  <2> QED
    BY <1>3, <1>7, <2>6, <2>7 DEF TakenAt
<1>10. LostAt(r)'
  <2>1. In(merged'[r].issues) = In(old.issues) \cup In(found)
    BY <1>4, <1>5, <1>6, InJoined
  <2>2. LostAt(r)
    BY DEF DataInv
  <2>3. CASE down' = down /\ \A i \in 1 .. Len(found) : found[i].row_ref # NoRow
    <3>1. \A i \in In(found) : i.row_ref # NoRow
      BY <2>3 DEF In
    <3> QED
      BY <2>1, <2>2, <2>3, <3>1 DEF LostAt
  <2>4. CASE down' = [down EXCEPT ![r] = @ \cup {s0}] /\ found = <<Issue(s0, NoRow)>>
    <3>1. down'[r] # {}
      BY <2>4 DEF DataInv, TakenCore
    <3>2. Issue(s0, NoRow) \in In(found)
      BY <2>4 DEF In
    <3>3. Issue(s0, NoRow).row_ref = NoRow
      BY DEF Issue
    <3> QED
      BY <2>1, <3>1, <3>2, <3>3 DEF LostAt
  <2> QED
    BY <1>0, <1>1, <2>3, <2>4 DEF Yields
<1>11. ASSUME NEW q \in Runs
       PROVE  (StagedAt(q) /\ TakenAt(q) /\ LostAt(q) /\ JudgedAt(q) /\ DoneAt(q))'
  <2>1. StagedAt(q) /\ TakenAt(q) /\ LostAt(q) /\ JudgedAt(q) /\ DoneAt(q)
    BY DEF DataInv
  <2>2. CASE q = r
    BY <1>3, <1>9, <1>10, <2>2, NotStaging, NotYetJudged
  <2>3. CASE q # r
    <3>1. work'[q] = work[q] /\ merged'[q] = merged[q]
      BY <1>3, <2>3
    <3>2. down'[q] = down[q]
      BY <1>1, <2>3 DEF Yields, DataInv, TakenCore
    <3> QED
      BY <1>7, <2>1, <3>1, <3>2, StagedStays, TakenStays, JudgedStays DEF vvars
  <2> QED
    BY <2>2, <2>3
<1> QED
  BY <1>8, <1>11 DEF DataInv

-----------------------------------------------------------------------------
(* Validation.                                                             *)

\* A step of validation leaves what a run has alone, and all other runs.
LEMMA DataJudging ==
    ASSUME IInv, DataInv, NEW r \in Runs, JudgeCore',
           UNCHANGED <<shipment, staged, merged, raced, down>>,
           \A q \in Runs \ {r} : /\ work'[q] = work[q] /\ todo'[q] = todo[q] /\ asked'[q] = asked[q]
                                 /\ findings'[q] = findings[q] /\ issues'[q] = issues[q],
           work'[r].source = work[r].source, work'[r].step \notin {"transfer", "parse"},
           JudgedAt(r)', DoneAt(r)'
    PROVE  DataInv'
<1>1. TakenCore'
  BY DEF DataInv, TakenCore
<1>2. ASSUME NEW q \in Runs
      PROVE  (StagedAt(q) /\ TakenAt(q) /\ LostAt(q) /\ JudgedAt(q) /\ DoneAt(q))'
  <2>1. StagedAt(q) /\ TakenAt(q) /\ LostAt(q) /\ JudgedAt(q) /\ DoneAt(q)
    BY DEF DataInv
  <2>2. work'[q].source = work[q].source
    OBVIOUS
  <2>3. TakenAt(q)' /\ LostAt(q)'
    BY <2>1, <2>2, TakenStays
  <2>4. CASE q = r
    BY <2>3, <2>4, NotStaging
  <2>5. CASE q # r
    <3>1. /\ work'[q] = work[q] /\ todo'[q] = todo[q] /\ asked'[q] = asked[q]
          /\ findings'[q] = findings[q] /\ issues'[q] = issues[q]
      BY <2>5
    <3> QED
      BY <2>1, <2>3, <3>1, StagedStays, JudgedStays
  <2> QED
    BY <2>4, <2>5
<1> QED
  BY <1>1, <1>2 DEF DataInv

\* What fails or is unclear is in the batch, by its position.
LEMMA BatchType ==
    ASSUME DataInv, NEW r \in Runs
    PROVE  /\ Txns(r) \in Seq(Taken) /\ Batch(r) = 1 .. Len(Txns(r)) /\ Batch(r) \subseteq Nat \ {0}
           /\ Failing(r) \subseteq Batch(r) /\ Unclear(r) \subseteq Batch(r)
<1>1. Txns(r) \in Seq(Taken)
  BY DEF DataInv, TakenCore, Merges, Txns
<1>2. Batch(r) \subseteq Nat \ {0}
  BY <1>1 DEF Batch
<1> QED
  BY <1>1, <1>2 DEF Batch, Failing, Unclear

\* The checks note every error and pass on every row that is unclear, once.
LEMMA DataCheck ==
    ASSUME IInv, DataInv, NEW r \in Runs, Check(r)
    PROVE  DataInv'
<1> DEFINE errors == Errors(Failing(r))
           rows   == Among(Positions(Txns(r)), Unclear(r))
<1>1. /\ UNCHANGED <<shipment, staged, merged, raced, down, invalid, issues, asked>>
      /\ work' = [work EXCEPT ![r].step = "judge"]
      /\ findings' = [findings EXCEPT ![r] = errors]
      /\ todo' = [todo EXCEPT ![r] = rows]
  BY DEF Check, Goto, Errors
<1>2. rows \in Seq(Nat) /\ In(rows) = Unclear(r) /\ Distinct(rows)
  <2>1. /\ Positions(Txns(r)) \in Seq(Nat) /\ Distinct(Positions(Txns(r)))
        /\ In(Positions(Txns(r))) = Batch(r)
    BY BatchType, PositionsType
  <2>2. rows \in Seq(Nat \cap Unclear(r))
    BY <2>1, AmongType
  <2>3. rows \in Seq(Nat)
    BY <2>2, SeqMonotonic
  <2>4. In(rows) = Batch(r) \cap Unclear(r)
    BY <2>1, AmongKeeps
  <2>5. Distinct(rows)
    BY <2>1, AmongDistinct
  <2> QED
    BY <2>3, <2>4, <2>5, BatchType
<1>3. errors \subseteq Findings /\ errors \cap Verdicts = {}
  <2>1. Failing(r) \subseteq Nat
    BY BatchType
  <2>2. \A i \in Failing(r) : /\ [txn |-> i, reason |-> "error", escalate |-> FALSE] \in Findings
                              /\ [txn |-> i, reason |-> "error", escalate |-> FALSE] \notin Verdicts
    BY <2>1 DEF Findings, Verdicts
  <2> QED
    BY <2>2 DEF Errors
<1> HIDE DEF errors, rows
<1>4. JudgeCore'
  BY <1>1, <1>2, <1>3 DEF DataInv, JudgeCore
<1>5. /\ findings'[r] = errors /\ todo'[r] = rows /\ asked'[r] = asked[r]
      /\ work'[r].step = "judge" /\ work'[r].source = work[r].source
      /\ \A q \in Runs \ {r} : /\ work'[q] = work[q] /\ todo'[q] = todo[q]
                               /\ findings'[q] = findings[q]
  BY <1>1 DEF DataInv, JudgeCore, IInv, TypeCore, Places
<1>6. JudgedAt(r)'
  <2>1. Unclear(r)' = Unclear(r) /\ Failing(r)' = Failing(r)
    BY <1>1, BatchStays
  <2>2. findings'[r] \ Verdicts = errors /\ findings'[r] \cap Verdicts = {}
    BY <1>3, <1>5
  <2>3. Settled({}, In(rows), asked[r], Unclear(r))
    BY <1>2 DEF Settled
  <2> QED
    BY <1>2, <1>5, <2>1, <2>2, <2>3 DEF JudgedAt, errors
<1>7. DoneAt(r)'
  BY <1>5 DEF DoneAt, At
<1> QED
  BY <1>1, <1>4, <1>5, <1>6, <1>7, DataJudging

\* The first unclear row gets the one verdict it lacked.
LEMMA DataSettle ==
    ASSUME IInv, DataInv, NEW r \in Runs, Judging(r),
           NEW escalate \in BOOLEAN, Settle(r, escalate), UNCHANGED <<ivars, issues>>,
           asked' = asked \/ asked' = [asked EXCEPT ![r] = @ \cup {Head(todo[r])}],
           Head(todo[r]) \notin asked'[r] => escalate
    PROVE  DataInv'
<1> DEFINE h == Head(todo[r])
           f == [txn |-> h, reason |-> "ambiguous", escalate |-> escalate]
<1>1. JudgedAt(r) /\ todo[r] \in Seq(Nat) /\ todo[r] # <<>>
  BY DEF DataInv, JudgeCore, Judging
<1>2. At(r, "judge") /\ UNCHANGED <<shipment, staged, merged, raced, down, work>>
  BY DEF Judging, ivars
<1>3. /\ findings' = [findings EXCEPT ![r] = @ \cup {f}]
      /\ todo' = [todo EXCEPT ![r] = Tail(@)] /\ invalid' = [invalid EXCEPT ![r] = 0]
  BY DEF Settle
<1>4. /\ h \in In(todo[r]) /\ h \in Nat /\ Tail(todo[r]) \in Seq(Nat)
      /\ In(Tail(todo[r])) = In(todo[r]) \ {h} /\ Distinct(Tail(todo[r]))
  BY <1>1, <1>2, DistinctTail DEF JudgedAt
<1>5. f \in Findings /\ f \in Verdicts /\ f.txn = h /\ f.escalate = escalate
  BY <1>4 DEF Findings, Verdicts
<1> HIDE DEF h, f
<1>6. /\ findings'[r] = findings[r] \cup {f} /\ todo'[r] = Tail(todo[r])
      /\ asked[r] \subseteq asked'[r] /\ asked'[r] \subseteq asked[r] \cup {h}
      /\ \A q \in Runs \ {r} : /\ todo'[q] = todo[q] /\ findings'[q] = findings[q]
                               /\ asked'[q] = asked[q]
  BY <1>3 DEF DataInv, JudgeCore, h
<1>7. JudgeCore'
  <2>1. 0 \in 0 .. MaxTries
    BY TriesAssumption
  <2>2. asked' \in [Runs -> SUBSET Nat]
    <3>1. asked \in [Runs -> SUBSET Nat] /\ h \in Nat
      BY <1>4 DEF DataInv, JudgeCore
    <3>2. asked' = asked \/ asked' = [asked EXCEPT ![r] = @ \cup {h}]
      BY DEF h
    <3>3. asked[r] \cup {h} \in SUBSET Nat
      BY <3>1
    <3> QED
      BY <3>1, <3>2, <3>3
  <2> QED
    BY <1>3, <1>4, <1>5, <2>1, <2>2 DEF DataInv, JudgeCore, ivars
<1>8. JudgedAt(r)'
  <2>1. Unclear(r)' = Unclear(r) /\ Failing(r)' = Failing(r)
    BY <1>2, BatchStays
  <2> DEFINE old == findings[r] \cap Verdicts
             now == findings'[r] \cap Verdicts
             left == In(Tail(todo[r]))
  <2>2. /\ findings[r] \ Verdicts = Errors(Failing(r))
        /\ Settled(old, In(todo[r]), asked[r], Unclear(r))
    BY <1>1, <1>2 DEF JudgedAt
  <2>3. findings'[r] \ Verdicts = findings[r] \ Verdicts /\ now = old \cup {f}
    BY <1>5, <1>6
  <2>4. left = In(todo[r]) \ {h} /\ h \in In(todo[r]) /\ h \in Unclear(r)
    BY <1>4, <2>2 DEF Settled
  <2> HIDE DEF old, now, left
  <2>5. \A g \in now : g.txn \in Unclear(r) \ left
    BY <1>5, <2>2, <2>3, <2>4 DEF Settled
  <2>6. \A g \in now : g.txn \notin asked'[r] => g.escalate
    <3>1. f.txn \notin asked'[r] => f.escalate
      BY <1>5 DEF h
    <3> QED
      BY <1>6, <2>2, <2>3, <3>1 DEF Settled
  <2>7. \A g, e \in now : e.txn = g.txn => e = g
    BY <1>5, <2>2, <2>3, <2>4 DEF Settled
  <2>8. \A i \in Unclear(r) \ left : \E g \in now : g.txn = i
    BY <1>5, <2>2, <2>3, <2>4 DEF Settled
  <2>9. Settled(now, left, asked'[r], Unclear(r))
    BY <2>2, <2>4, <2>5, <2>6, <2>7, <2>8 DEF Settled
  <2> QED
    BY <1>4, <1>6, <2>1, <2>2, <2>3, <2>9 DEF JudgedAt, now, left
<1>9. DoneAt(r)'
  BY <1>2 DEF DoneAt, At
<1>10. work'[r].step \notin {"transfer", "parse"}
  BY <1>2 DEF At
<1> QED
  BY <1>2, <1>6, <1>7, <1>8, <1>9, <1>10, DataJudging

\* An answer that is asked for again settles nothing.
LEMMA DataAsksAgain ==
    ASSUME IInv, DataInv, NEW r \in Runs, Ask(r), invalid[r] < MaxTries,
           invalid' = [invalid EXCEPT ![r] = @ + 1], UNCHANGED <<ivars, issues, todo, findings>>
    PROVE  DataInv'
<1> DEFINE h == Head(todo[r])
<1>1. At(r, "judge") /\ todo[r] # <<>> /\ asked' = [asked EXCEPT ![r] = @ \cup {h}]
  BY DEF Ask, Judging
<1>2. h \in Nat
  BY <1>1, DistinctTail DEF DataInv, JudgeCore, JudgedAt
<1>3. JudgeCore'
  <2>1. invalid[r] + 1 \in 0 .. MaxTries
    BY TriesAssumption DEF DataInv, JudgeCore
  <2> HIDE DEF h
  <2>2. asked[r] \cup {h} \in SUBSET Nat
    BY <1>2 DEF DataInv, JudgeCore
  <2> QED
    BY <1>1, <2>1, <2>2 DEF DataInv, JudgeCore
<1> HIDE DEF h
<1>4. /\ asked[r] \subseteq asked'[r] /\ \A q \in Runs \ {r} : asked'[q] = asked[q]
  BY <1>1 DEF DataInv, JudgeCore
<1>5. UNCHANGED <<shipment, staged, merged, raced, down, work, issues, todo, findings>>
  BY DEF ivars
<1>6. JudgedAt(r)'
  <2>1. Unclear(r)' = Unclear(r) /\ Failing(r)' = Failing(r)
    BY <1>5, BatchStays
  <2>2. /\ findings[r] \ Verdicts = Errors(Failing(r)) /\ Distinct(todo[r])
        /\ Settled(findings[r] \cap Verdicts, In(todo[r]), asked[r], Unclear(r))
    BY <1>1 DEF DataInv, JudgedAt
  <2>3. Settled(findings[r] \cap Verdicts, In(todo[r]), asked'[r], Unclear(r))
    BY <1>4, <2>2 DEF Settled
  <2> QED
    BY <1>5, <2>1, <2>2, <2>3 DEF JudgedAt
<1>7. DoneAt(r)' /\ work'[r].step \notin {"transfer", "parse"}
  BY <1>1, <1>5 DEF DoneAt, At
<1> QED
  BY <1>3, <1>4, <1>5, <1>6, <1>7, DataJudging

\* Nor does a gateway that raises.
LEMMA DataGivesUp ==
    ASSUME IInv, DataInv, NEW r \in Runs, GiveUp(r)
    PROVE  DataInv'
<1>1. /\ At(r, "judge") /\ todo[r] # <<>> /\ asked' = [asked EXCEPT ![r] = @ \cup {Head(todo[r])}]
      /\ work' = [work EXCEPT ![r].step = "gave up"]
      /\ UNCHANGED <<shipment, staged, merged, raced, down, todo, invalid, findings, issues>>
  BY DEF GiveUp, Ask, Judging, Goto
<1>2. Head(todo[r]) \in Nat
  BY <1>1, DistinctTail DEF DataInv, JudgeCore, JudgedAt
<1>3. asked[r] \cup {Head(todo[r])} \in SUBSET Nat
  BY <1>2 DEF DataInv, JudgeCore
<1>4. JudgeCore'
  BY <1>1, <1>3 DEF DataInv, JudgeCore
<1>5. /\ work'[r].step = "gave up" /\ work'[r].source = work[r].source
      /\ \A q \in Runs \ {r} : work'[q] = work[q] /\ asked'[q] = asked[q]
  BY <1>1 DEF DataInv, JudgeCore, IInv, TypeCore, Places
<1>6. JudgedAt(r)' /\ DoneAt(r)'
  BY <1>5, NotYetJudged
<1> QED
  BY <1>1, <1>4, <1>5, <1>6, DataJudging

\* The issues of a run that is done are those of ingestion and of its findings.
LEMMA DataConclude ==
    ASSUME IInv, DataInv, NEW r \in Runs, Conclude(r)
    PROVE  DataInv'
<1> DEFINE reported == {[severity |-> "error", row_ref |-> i.row_ref] : i \in In(merged[r].issues)}
           found    == {[severity |-> Severity(r, f), row_ref |-> f.txn] : f \in findings[r]}
<1>1. /\ At(r, "judge") /\ todo[r] = <<>>
      /\ work' = [work EXCEPT ![r].step = "done"]
      /\ UNCHANGED <<shipment, staged, merged, raced, down, todo, invalid, findings, asked>>
  BY DEF Conclude, Goto
<1>2. issues' = [issues EXCEPT ![r] = reported \cup found]
  <2>1. {[severity |-> "error", row_ref |-> merged[r].issues[i].row_ref] :
            i \in 1 .. Len(merged[r].issues)} = reported
    BY DEF In
  <2> QED
    BY <2>1 DEF Conclude
<1>3. reported \subseteq Records
  <2>1. merged[r].issues \in Seq(Reported)
    BY DEF DataInv, TakenCore, Merges
  <2>2. \A i \in In(merged[r].issues) : i.row_ref \in Nat
    <3>1. \A i \in 1 .. Len(merged[r].issues) : merged[r].issues[i] \in Reported
      BY <2>1, Element
    <3> QED
      BY <3>1 DEF In, Reported
  <2> QED
    BY <2>2 DEF Records
<1>4. found \subseteq Records
  <2>1. \A f \in findings[r] : f.txn \in Nat
    BY DEF DataInv, JudgeCore, Findings
  <2>2. \A f : Severity(r, f) \in {"error", "warning", "review"}
    BY DEF Severity
  <2> QED
    BY <2>1, <2>2 DEF Records
<1> HIDE DEF reported, found
<1>5. JudgeCore'
  BY <1>1, <1>2, <1>3, <1>4 DEF DataInv, JudgeCore
<1>6. /\ issues'[r] = reported \cup found
      /\ work'[r].step = "done" /\ work'[r].source = work[r].source
      /\ \A q \in Runs \ {r} : work'[q] = work[q] /\ issues'[q] = issues[q]
  BY <1>1, <1>2 DEF DataInv, JudgeCore, IInv, TypeCore, Places
<1>7. JudgedAt(r)'
  <2>1. Unclear(r)' = Unclear(r) /\ Failing(r)' = Failing(r)
    BY <1>1, BatchStays
  <2>2. /\ findings[r] \ Verdicts = Errors(Failing(r)) /\ Distinct(todo[r])
        /\ Settled(findings[r] \cap Verdicts, In(todo[r]), asked[r], Unclear(r))
    BY <1>1 DEF DataInv, JudgedAt
  <2> QED
    BY <1>1, <2>1, <2>2 DEF JudgedAt
<1>8. DoneAt(r)'
  BY <1>1, <1>6 DEF DoneAt, Severity, reported, found
<1> QED
  BY <1>1, <1>5, <1>6, <1>7, <1>8, DataJudging

-----------------------------------------------------------------------------
(* The invariant of what the runs have.                                    *)

\* It holds before the first source: there is nothing yet.
LEMMA DataInit == Init => DataInv
<1> SUFFICES ASSUME Init PROVE DataInv
  OBVIOUS
<1>1. TakenCore
  BY EmptySeq DEF Init, IngestInit, TakenCore, Merges
<1>2. JudgeCore
  <2>1. 0 \in 0 .. MaxTries
    BY TriesAssumption
  <2> QED
    BY <2>1, EmptySeq DEF Init, JudgeCore
<1>3. ASSUME NEW r \in Runs
      PROVE  StagedAt(r) /\ TakenAt(r) /\ LostAt(r) /\ JudgedAt(r) /\ DoneAt(r)
  <2>1. /\ work[r].step = "wait" /\ work[r].source = 1 /\ down[r] = {}
        /\ merged[r].txns = <<>> /\ merged[r].issues = <<>> /\ merged[r].spans = <<>>
    BY DEF Init, IngestInit
  <2>2. In(<<>>) = {} /\ Finished(r) = {}
    BY <2>1 DEF In, Finished
  <2>3. \A s : TxnsOf(r, s) = <<>> /\ IssuesOf(r, s) = <<>>
    BY <2>1, AmongEmpty DEF TxnsOf, IssuesOf
  <2>4. \A k \in 1 .. Len(Configs[r]) : ~(k < 1)
    BY ConfigType
  <2>5. TakenAt(r)
    BY <2>1, <2>2, <2>3, <2>4 DEF TakenAt
  <2> QED
    BY <2>1, <2>2, <2>5 DEF StagedAt, LostAt, JudgedAt, DoneAt, At
<1> QED
  BY <1>1, <1>2, <1>3 DEF DataInv

\* Every step of validation preserves the invariant.
LEMMA DataValidateStep ==
    ASSUME IInv, DataInv, NEW r \in Runs, ValidateStep(r)
    PROVE  DataInv'
<1>1. CASE Refuse(r)
  BY <1>1, DataSettle DEF Refuse
<1>2. CASE Answer(r)
  <2>1. PICK verdict \in {"ok", "review"}, sure \in BOOLEAN : Settle(r, verdict = "review" \/ ~sure)
    BY <1>2 DEF Answer
  <2>2. (verdict = "review" \/ ~sure) \in BOOLEAN
    OBVIOUS
  <2>3. /\ Judging(r) /\ asked' = [asked EXCEPT ![r] = @ \cup {Head(todo[r])}]
        /\ UNCHANGED <<ivars, issues>>
    BY <1>2 DEF Answer, Ask
  <2>4. Head(todo[r]) \in asked'[r]
    BY <2>3 DEF DataInv, JudgeCore
  <2> QED
    BY <2>1, <2>2, <2>3, <2>4, DataSettle
<1>3. CASE Garbage(r)
  <2>1. CASE invalid[r] < MaxTries
    BY <1>3, <2>1, DataAsksAgain DEF Garbage
  <2>2. CASE ~(invalid[r] < MaxTries)
    <3>1. /\ Judging(r) /\ asked' = [asked EXCEPT ![r] = @ \cup {Head(todo[r])}]
          /\ UNCHANGED <<ivars, issues>> /\ Settle(r, TRUE)
      BY <1>3, <2>2 DEF Garbage, Ask
    <3> QED
      BY <3>1, DataSettle
  <2> QED
    BY <2>1, <2>2
<1> QED
  BY <1>1, <1>2, <1>3, DataCheck, DataGivesUp, DataConclude DEF ValidateStep

\* Every step preserves it.
LEMMA DataStep == IInv /\ DataInv /\ [Next]_vars => DataInv'
<1> SUFFICES ASSUME IInv, DataInv, [Next]_vars PROVE DataInv'
  OBVIOUS
<1>1. ASSUME NEW r \in Runs, IngestStep(r), UNCHANGED vvars PROVE DataInv'
  BY <1>1, IngestStepIs, DataQuiet, DataTakes, DataStages
<1>2. ASSUME NEW r \in Runs, ValidateStep(r) PROVE DataInv'
  BY <1>2, DataValidateStep
<1>3. CASE UNCHANGED <<shipment, work, staged, merged, raced, down, vvars>>
  <2>1. TakenCore' /\ JudgeCore'
    BY <1>3 DEF DataInv, TakenCore, JudgeCore, vvars
  <2>2. ASSUME NEW q \in Runs
        PROVE  (StagedAt(q) /\ TakenAt(q) /\ LostAt(q) /\ JudgedAt(q) /\ DoneAt(q))'
    BY <1>3, StagedStays, TakenStays, JudgedStays DEF DataInv, vvars
  <2> QED
    BY <2>1, <2>2 DEF DataInv
<1>4. CASE Tick /\ UNCHANGED vvars
  BY <1>3, <1>4 DEF Tick
<1>5. CASE UNCHANGED vars
  BY <1>3, <1>5 DEF vars, ivars
<1> QED
  BY <1>1, <1>2, <1>4, <1>5 DEF Next, Step

\* The inductive invariant of what the runs have: what each source gave, what its
\* staging file holds, and what is left to be judged.
THEOREM DataInductive == Spec => [](IInv /\ DataInv)
<1>1. Init => IInv /\ DataInv
  BY InvInit, DataInit
<1>2. IInv /\ DataInv /\ [Next]_vars => (IInv /\ DataInv)'
  BY InvStep, DataStep
<1> QED
  BY <1>1, <1>2, PTL DEF Spec

\* Every variable of ingestion and validation has its type.
THEOREM TypeCorrect == Spec => []TypeOK
<1>1. ASSUME IInv, DataInv PROVE TypeOK
  <2>1. /\ work \in [Runs -> [source : Nat \ {0}, step : Steps, failed : Nat]]
        /\ timer \in [Runs -> Clocks] /\ calls \in [Runs -> Nat]
    BY <1>1 DEF IInv, TypeCore, Places
  <2>2. \A r \in Runs : /\ merged[r].txns \in Seq([source : Sources, row : Rows])
                        /\ merged[r].issues \in Seq([source : Sources, row_ref : Nat])
                        /\ merged[r].spans \in Seq([source : Sources, attempts : Nat])
    BY <1>1 DEF DataInv, TakenCore, Merges, Taken, Reported, Spans
  <2> QED
    BY <1>1, <2>1, <2>2 DEF TypeOK, DataInv, TakenCore, JudgeCore
<1> QED
  BY <1>1, DataInductive, PTL

\* ingest_sources_with_metrics has each source as a whole or one issue for it,
\* unless another run wrote to its staging file during its transfer.
THEOREM WholeOrLostHolds == Spec => []WholeOrLost
<1>1. ASSUME IInv, DataInv PROVE WholeOrLost
  <2> SUFFICES ASSUME NEW r \in Runs, NEW s \in Finished(r) \ raced[r] PROVE Whole(r, s)
    BY DEF WholeOrLost, Whole
  <2>1. TakenAt(r)
    BY <1>1 DEF DataInv
  <2>2. PICK k \in 1 .. Len(Configs[r]) : k < work[r].source /\ s = Configs[r][k]
    BY <2>1 DEF TakenAt
  <2> QED
    BY <2>1, <2>2 DEF TakenAt
<1> QED
  BY <1>1, DataInductive, PTL

\* validate_transactions gives every row without a reference one verdict, which
\* escalates it if the gateway never saw it, or an error of its txn_id stands.
THEOREM NothingSlipsThroughHolds == Spec => []NothingSlipsThrough
<1>1. ASSUME IInv, DataInv PROVE NothingSlipsThrough
  <2> SUFFICES ASSUME NEW r \in Runs, Gateway, At(r, "done"), NEW i \in Batch(r), IsAmbiguous(r, i)
               PROVE  LET verdicts == {f \in findings[r] : f.txn = i /\ f.reason = "ambiguous"}
                      IN  \/ /\ Cardinality(verdicts) = 1
                             /\ i \notin asked[r] => \A f \in verdicts : f.escalate
                          \/ \E f \in findings[r] : f.reason = "error" /\ Row(r, f.txn).id = Row(r, i).id
    BY DEF NothingSlipsThrough
  <2> DEFINE verdicts == {f \in findings[r] : f.txn = i /\ f.reason = "ambiguous"}
  <2>1. /\ findings[r] \ Verdicts = Errors(Failing(r)) /\ todo[r] = <<>>
        /\ Settled(findings[r] \cap Verdicts, In(todo[r]), asked[r], Unclear(r))
    BY <1>1 DEF DataInv, JudgedAt, DoneAt
  <2>2. In(todo[r]) = {}
    BY <2>1 DEF In
  <2>3. CASE Row(r, i).id \in FlaggedIds(r)
    <3>1. PICK j \in Failing(r) : Row(r, j).id = Row(r, i).id
      BY <2>3 DEF FlaggedIds
    <3>2. [txn |-> j, reason |-> "error", escalate |-> FALSE] \in findings[r]
      BY <2>1 DEF Errors
    <3> QED
      BY <3>1, <3>2
  <2>4. CASE Row(r, i).id \notin FlaggedIds(r)
    <3>1. i \in Unclear(r)
      BY <2>4 DEF Unclear
    <3>2. verdicts = {f \in findings[r] \cap Verdicts : f.txn = i}
      <4>1. \A f \in findings[r] : f \in Verdicts <=> f.reason = "ambiguous"
        BY <1>1 DEF DataInv, JudgeCore, Findings, Verdicts
      <4> QED
        BY <4>1
    <3>3. PICK f \in verdicts : verdicts = {f}
      BY <2>1, <2>2, <3>1, <3>2 DEF Settled
    <3>4. Cardinality(verdicts) = 1
      BY <3>3, FS_Singleton
    <3>5. i \notin asked[r] => \A g \in verdicts : g.escalate
      BY <2>1, <3>2 DEF Settled
    <3> QED
      BY <3>4, <3>5
  <2> QED
    BY <2>3, <2>4
<1> QED
  BY <1>1, DataInductive, PTL

\* What validation_gate looks for says whether a source was given up, and whether
\* a row was escalated, and nothing else does.
THEOREM GateSeesTheTruthHolds == Spec => []GateSeesTheTruth
<1>1. ASSUME IInv, DataInv PROVE GateSeesTheTruth
  <2> SUFFICES ASSUME NEW r \in Graphed, At(r, "done")
               PROVE  /\ HasCriticalIssue(r) <=> down[r] # {}
                      /\ HasEscalationNeeded(r) <=>
                            \E f \in findings[r] : f.escalate /\ IsAmbiguous(r, f.txn)
                                                   /\ Row(r, f.txn).id \notin FlaggedIds(r)
    BY DEF GateSeesTheTruth
  <2>1. r \in Runs
    BY GraphedAssumption
  <2>2. /\ findings[r] \ Verdicts = Errors(Failing(r))
        /\ Settled(findings[r] \cap Verdicts, In(todo[r]), asked[r], Unclear(r))
        /\ issues[r] = {[severity |-> "error", row_ref |-> i.row_ref] : i \in In(merged[r].issues)}
                       \cup {[severity |-> Severity(r, f), row_ref |-> f.txn] : f \in findings[r]}
        /\ LostAt(r)
    BY <1>1, <2>1 DEF DataInv, JudgedAt, DoneAt
  <2>3. \A f \in findings[r] :
            \/ /\ f.reason = "ambiguous" /\ f.txn \in Unclear(r)
               /\ Severity(r, f) = IF f.escalate THEN "review" ELSE "warning"
            \/ f.reason = "error" /\ f.txn # NoRow /\ ~f.escalate /\ Severity(r, f) = "error"
    <3> SUFFICES ASSUME NEW f \in findings[r]
                 PROVE  \/ /\ f.reason = "ambiguous" /\ f.txn \in Unclear(r)
                           /\ Severity(r, f) = IF f.escalate THEN "review" ELSE "warning"
                        \/ f.reason = "error" /\ f.txn # NoRow /\ ~f.escalate /\ Severity(r, f) = "error"
      OBVIOUS
    <3>1. CASE f \in Verdicts
      BY <2>2, <3>1 DEF Settled, Verdicts, Severity
    <3>2. CASE f \notin Verdicts
      <4>1. PICK i \in Failing(r) : f = [txn |-> i, reason |-> "error", escalate |-> FALSE]
        BY <2>2, <3>2 DEF Errors
      <4>2. i # NoRow
        BY <1>1, <2>1, BatchType DEF NoRow
      <4> QED
        BY <4>1, <4>2 DEF Severity
    <3> QED
      BY <3>1, <3>2
  <2>4. \A i \in Unclear(r) : i # NoRow /\ IsAmbiguous(r, i) /\ Row(r, i).id \notin FlaggedIds(r)
    BY <1>1, <2>1, BatchType DEF Unclear, NoRow
  <2>5. HasCriticalIssue(r) <=> \E i \in In(merged[r].issues) : i.row_ref = NoRow
    <3>1. \A f \in findings[r] : Severity(r, f) = "error" => f.txn # NoRow
      BY <2>3
    <3>2. ASSUME NEW e \in issues[r], e.severity = "error", e.row_ref = NoRow
          PROVE  \E i \in In(merged[r].issues) : i.row_ref = NoRow
      <4>1. \/ \E i \in In(merged[r].issues) : e = [severity |-> "error", row_ref |-> i.row_ref]
            \/ \E f \in findings[r] : e = [severity |-> Severity(r, f), row_ref |-> f.txn]
        BY <2>2
      <4> QED
        BY <3>1, <3>2, <4>1
    <3>3. ASSUME NEW i \in In(merged[r].issues), i.row_ref = NoRow PROVE HasCriticalIssue(r)
      <4>1. [severity |-> "error", row_ref |-> i.row_ref] \in issues[r]
        BY <2>2
      <4> QED
        BY <3>3, <4>1 DEF HasCriticalIssue
    <3> QED
      BY <3>2, <3>3 DEF HasCriticalIssue
  <2>6. HasEscalationNeeded(r) <=> \E f \in findings[r] : f.escalate
    <3>1. \A f \in findings[r] : Severity(r, f) = "review" <=> f.escalate
      BY <2>3
    <3>2. ASSUME NEW e \in issues[r], e.severity = "review"
          PROVE  \E f \in findings[r] : f.escalate
      <4>1. \/ \E i \in In(merged[r].issues) : e = [severity |-> "error", row_ref |-> i.row_ref]
            \/ \E f \in findings[r] : e = [severity |-> Severity(r, f), row_ref |-> f.txn]
        BY <2>2
      <4> QED
        BY <3>1, <3>2, <4>1
    <3>3. ASSUME NEW f \in findings[r], f.escalate PROVE HasEscalationNeeded(r)
      <4>1. [severity |-> Severity(r, f), row_ref |-> f.txn] \in issues[r]
        BY <2>2
      <4> QED
        BY <3>1, <3>3, <4>1 DEF HasEscalationNeeded
    <3> QED
      BY <3>2, <3>3 DEF HasEscalationNeeded
  <2>7. \A f \in findings[r] : f.escalate => IsAmbiguous(r, f.txn) /\ Row(r, f.txn).id \notin FlaggedIds(r)
    BY <2>3, <2>4
  <2> QED
    BY <2>2, <2>5, <2>6, <2>7 DEF LostAt
<1> QED
  BY <1>1, DataInductive, PTL
=============================================================================
