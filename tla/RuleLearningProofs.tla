------------------------- MODULE RuleLearningProofs -------------------------
(***************************************************************************)
(* RuleLearning keeps matching within the tools' defaults, whatever the     *)
(* runs, the batches and the order of approvals, for every value of the     *)
(* constants.                                                               *)
(***************************************************************************)
EXTENDS RuleLearning, TLAPS

\* No suggestion in the store is looser than the defaults ...
StoreInv ==
    \A i \in DOMAIN store :
        /\ store[i].kind = "widen_tolerance" => store[i].param <= DefaultTol
        /\ store[i].kind = "lower_fuzzy_threshold" => store[i].param >= DefaultMin

\* ... because nothing a run matched was.
Within(outcomes) ==
    \A p \in Pairs :
        /\ outcomes[p].rule = "tolerance" => outcomes[p].value <= DefaultTol
        /\ outcomes[p].rule = "fuzzy" => outcomes[p].value >= DefaultMin

RunInv == \A r \in Runs : run[r] # NoRun => Within(run[r])

Mined(outcomes) ==
    MinedTolerance(outcomes) \cup MinedFuzzy(outcomes) \cup MinedExceptions(outcomes)

-----------------------------------------------------------------------------
(* Rounding.                                                               *)

\* Rounding to hundredths stays above a threshold that is a whole number of
\* them (learning_agent.py:64): the reason a learnt ratio is never too low.
LEMMA RoundingKeepsTheFloor ==
    ASSUME NEW r \in Nat, NEW floor \in Nat, floor % 10 = 0, r >= floor
    PROVE  Hundredths(r) \in Hundreds /\ Hundredths(r) >= floor
<1>1. /\ (r + 5) \div 10 \in Nat
      /\ 10 * ((r + 5) \div 10) \in Nat
      /\ (10 * ((r + 5) \div 10)) % 10 = 0
  OBVIOUS
<1>2. 10 * ((r + 5) \div 10) >= floor
  OBVIOUS
<1> QED
  BY <1>1, <1>2 DEF Hundredths, Hundreds

-----------------------------------------------------------------------------
(* The two tools under rules no looser than the defaults.                  *)

\* A store within the defaults makes the tools accept nothing more.
LEMMA WithinIsSound == StoreInv /\ TypeOK => LearnedWithinDefaults
<1> SUFFICES ASSUME StoreInv, TypeOK PROVE LearnedWithinDefaults
  OBVIOUS
<1> USE DeltaAssumption, RatioAssumption, DefaultAssumption
        DEF DeltaAssumption, RatioAssumption, DefaultAssumption
<1>1. ASSUME NEW d \in Deltas, TolAccepts(d) PROVE d <= DefaultTol
  <2>1. CASE Approved("widen_tolerance") = {}
    BY <1>1, <2>1 DEF TolAccepts
  <2>2. CASE Approved("widen_tolerance") # {}
    <3>1. PICK i \in Approved("widen_tolerance") : d <= store[i].param
      BY <1>1, <2>2 DEF TolAccepts
    <3>2. /\ i \in DOMAIN store /\ store[i].kind = "widen_tolerance"
          /\ store[i] \in Items
      BY <3>1 DEF Approved, TypeOK
    <3>3. store[i].param \in Nat /\ store[i].param <= DefaultTol
      BY <3>2 DEF StoreInv, Items
    <3>4. d \in Nat /\ DefaultTol \in Nat
      OBVIOUS
    <3> QED
      BY <3>1, <3>3, <3>4
  <2> QED
    BY <2>1, <2>2
<1>2. ASSUME NEW r \in Ratios, RatioAccepts(r) PROVE r >= DefaultMin
  <2>1. CASE Approved("lower_fuzzy_threshold") = {}
    BY <1>2, <2>1 DEF RatioAccepts
  <2>2. CASE Approved("lower_fuzzy_threshold") # {}
    <3>1. PICK i \in Approved("lower_fuzzy_threshold") : r >= store[i].param
      BY <1>2, <2>2 DEF RatioAccepts
    <3>2. /\ i \in DOMAIN store /\ store[i].kind = "lower_fuzzy_threshold"
          /\ store[i] \in Items
      BY <3>1 DEF Approved, TypeOK
    <3>3. store[i].param \in Nat /\ store[i].param >= DefaultMin
      BY <3>2 DEF StoreInv, Items, Hundreds
    <3> QED
      BY <3>1, <3>3
  <2> QED
    BY <2>1, <2>2
<1> QED
  BY <1>1, <1>2 DEF LearnedWithinDefaults

\* What such tools make of a pair has its type and is within the defaults.
LEMMA OutcomeWithin ==
    ASSUME LearnedWithinDefaults, NEW d \in Deltas, NEW close \in BOOLEAN, NEW r \in Ratios
    PROVE  LET o == Outcome(d, close, r)
           IN  /\ o \in Outcomes
               /\ o.rule = "tolerance" => o.value <= DefaultTol
               /\ o.rule = "fuzzy" => o.value >= DefaultMin
<1>1. (TolAccepts(d) => d <= DefaultTol) /\ (RatioAccepts(r) => r >= DefaultMin)
  BY DEF LearnedWithinDefaults
<1>2. CASE close /\ TolAccepts(d)
  BY <1>1, <1>2 DEF Outcome, Outcomes
<1>3. CASE ~(close /\ TolAccepts(d)) /\ d <= DefaultTol /\ RatioAccepts(r)
  BY <1>1, <1>3 DEF Outcome, Outcomes
<1>4. CASE ~(close /\ TolAccepts(d)) /\ ~(d <= DefaultTol /\ RatioAccepts(r))
  BY <1>4 DEF Outcome, Outcomes
<1> QED
  BY <1>2, <1>3, <1>4

-----------------------------------------------------------------------------
(* Mining.                                                                 *)

\* What a run within the defaults suggests is within them, and waits for
\* approval (learning_agent.py:22-95, rule_store.py:31-35).
LEMMA MinedWithin ==
    ASSUME NEW outcomes \in [Pairs -> Outcomes], Within(outcomes), NEW s \in Mined(outcomes)
    PROVE  /\ s \in Seq(Items) /\ Len(s) \in 0 .. 1
           /\ \A i \in DOMAIN s :
                 /\ s[i].kind = "widen_tolerance" => s[i].param <= DefaultTol
                 /\ s[i].kind = "lower_fuzzy_threshold" => s[i].param >= DefaultMin
<1> USE DeltaAssumption, RatioAssumption, DefaultAssumption
        DEF DeltaAssumption, RatioAssumption, DefaultAssumption
<1> DEFINE Fits(item) ==
        /\ item \in Items
        /\ item.kind = "widen_tolerance" => item.param <= DefaultTol
        /\ item.kind = "lower_fuzzy_threshold" => item.param >= DefaultMin
<1>1. s = <<>> \/ \E item : s = <<item>> /\ Fits(item)
  <2>1. CASE s \in MinedTolerance(outcomes)
    <3>1. SUFFICES ASSUME s # <<>> PROVE \E item : s = <<item>> /\ Fits(item)
      OBVIOUS
    <3>2. PICK d \in Values(outcomes, "tolerance") : s = <<Suggestion("widen_tolerance", d)>>
      BY <2>1, <3>1 DEF MinedTolerance
    <3>3. PICK p \in Pairs : outcomes[p].rule = "tolerance" /\ d = outcomes[p].value
      BY <3>2 DEF Values
    <3>4. d \in Deltas /\ d <= DefaultTol
      BY <3>3 DEF Within, Outcomes
    <3>5. Fits(Suggestion("widen_tolerance", d))
      BY <3>4 DEF Suggestion, Items
    <3> QED
      BY <3>2, <3>5
  <2>2. CASE s \in MinedFuzzy(outcomes)
    <3>1. SUFFICES ASSUME s # <<>> PROVE \E item : s = <<item>> /\ Fits(item)
      OBVIOUS
    <3>2. PICK r \in Values(outcomes, "fuzzy") :
              s = <<Suggestion("lower_fuzzy_threshold", Hundredths(r))>>
      BY <2>2, <3>1 DEF MinedFuzzy
    <3>3. PICK p \in Pairs : outcomes[p].rule = "fuzzy" /\ r = outcomes[p].value
      BY <3>2 DEF Values
    <3>4. r \in Ratios /\ r >= DefaultMin
      BY <3>3 DEF Within, Outcomes
    <3>5. Hundredths(r) \in Hundreds /\ Hundredths(r) >= DefaultMin
      BY <3>4, RoundingKeepsTheFloor
    <3>6. Fits(Suggestion("lower_fuzzy_threshold", Hundredths(r)))
      BY <3>5 DEF Suggestion, Items
    <3> QED
      BY <3>2, <3>6
  <2>3. CASE s \in MinedExceptions(outcomes)
    <3>1. Fits(Suggestion("recurring_exception_pattern", 0))
      BY DEF Suggestion, Items
    <3>2. s = <<>> \/ s = <<Suggestion("recurring_exception_pattern", 0)>>
      BY <2>3 DEF MinedExceptions
    <3> QED
      BY <3>1, <3>2
  <2> QED
    BY <2>1, <2>2, <2>3 DEF Mined
<1>2. CASE s = <<>>
  BY <1>2
<1>3. CASE \E item : s = <<item>> /\ Fits(item)
  <2>1. PICK item : s = <<item>> /\ Fits(item)
    BY <1>3
  <2>2. s \in Seq(Items) /\ Len(s) = 1 /\ \A i \in DOMAIN s : s[i] = item
    BY <2>1
  <2> QED
    BY <2>1, <2>2
<1> QED
  BY <1>1, <1>2, <1>3

-----------------------------------------------------------------------------
(* The specification.                                                      *)

\* Type correctness and the two invariants together are inductive.
IInv == TypeOK /\ StoreInv /\ RunInv

\* The empty store and the runs that matched nothing satisfy it.
LEMMA InitIInv == Init => IInv
<1> SUFFICES ASSUME Init PROVE IInv
  OBVIOUS
<1>1. TypeOK
  BY BoundAssumption DEF Init, TypeOK, BoundAssumption
<1>2. StoreInv /\ RunInv
  BY DEF Init, StoreInv, RunInv
<1> QED
  BY <1>1, <1>2 DEF IInv

\* run_matching under rules within the defaults finds only pairs within them.
LEMMA MatchStep ==
    ASSUME IInv, NEW r \in Runs, Match(r)
    PROVE  IInv'
<1>1. LearnedWithinDefaults
  BY WithinIsSound DEF IInv
<1>2. PICK outcomes \in [Pairs -> Possible] :
          run' = [run EXCEPT ![r] = outcomes]
  BY DEF Match
<1>3. \A p \in Pairs : /\ outcomes[p] \in Outcomes
                       /\ outcomes[p].rule = "tolerance" => outcomes[p].value <= DefaultTol
                       /\ outcomes[p].rule = "fuzzy" => outcomes[p].value >= DefaultMin
  <2> TAKE p \in Pairs
  <2>1. PICK d \in Deltas, close \in BOOLEAN, ratio \in Ratios :
            outcomes[p] = Outcome(d, close, ratio)
    BY <1>2 DEF Possible
  <2> QED
    BY <1>1, <2>1, OutcomeWithin
<1>4. outcomes \in [Pairs -> Outcomes] /\ Within(outcomes)
  BY <1>2, <1>3 DEF Within
<1>5. store' = store /\ crashes' = crashes
  BY DEF Match
<1>6. TypeOK'
  BY <1>2, <1>4, <1>5 DEF IInv, TypeOK
<1>7. RunInv'
  BY <1>2, <1>4 DEF IInv, TypeOK, RunInv, Within
<1>8. StoreInv'
  BY <1>5 DEF IInv, StoreInv
<1> QED
  BY <1>6, <1>7, <1>8 DEF IInv

\* learning_agent appends only suggestions within the defaults.
LEMMA LearnStep ==
    ASSUME IInv, NEW r \in Runs, Learn(r)
    PROVE  IInv'
<1> USE BoundAssumption DEF BoundAssumption
<1>1. run[r] \in [Pairs -> Outcomes] /\ Within(run[r])
  BY DEF IInv, TypeOK, RunInv, Learn
<1>2. PICK t \in MinedTolerance(run[r]), f \in MinedFuzzy(run[r]), e \in MinedExceptions(run[r]) :
          /\ Len(store) + Len(t) + Len(f) + Len(e) <= MaxItems
          /\ store' = store \o t \o f \o e
  BY DEF Learn
<1>3. t \in Mined(run[r]) /\ f \in Mined(run[r]) /\ e \in Mined(run[r])
  BY <1>2 DEF Mined
<1> DEFINE Sound(s) == \A i \in DOMAIN s :
              /\ s[i].kind = "widen_tolerance" => s[i].param <= DefaultTol
              /\ s[i].kind = "lower_fuzzy_threshold" => s[i].param >= DefaultMin
<1>4. /\ t \in Seq(Items) /\ f \in Seq(Items) /\ e \in Seq(Items)
      /\ Sound(t) /\ Sound(f) /\ Sound(e)
  BY <1>1, <1>3, MinedWithin
<1>5. store \in Seq(Items) /\ Sound(store)
  BY DEF IInv, TypeOK, StoreInv
<1>6. ASSUME NEW a \in Seq(Items), NEW b \in Seq(Items), Sound(a), Sound(b)
      PROVE  a \o b \in Seq(Items) /\ Len(a \o b) = Len(a) + Len(b) /\ Sound(a \o b)
  <2>1. a \o b \in Seq(Items) /\ Len(a \o b) = Len(a) + Len(b)
    OBVIOUS
  <2>2. ASSUME NEW i \in DOMAIN (a \o b)
        PROVE  \/ i \in DOMAIN a /\ (a \o b)[i] = a[i]
               \/ i - Len(a) \in DOMAIN b /\ (a \o b)[i] = b[i - Len(a)]
    OBVIOUS
  <2> QED
    BY <1>6, <2>1, <2>2
<1> HIDE DEF Sound
<1>7. /\ store \o t \in Seq(Items) /\ Sound(store \o t)
      /\ Len(store \o t) = Len(store) + Len(t)
  BY <1>4, <1>5, <1>6
<1> DEFINE st  == store \o t
<1>8. st \in Seq(Items) /\ Sound(st) /\ Len(st) = Len(store) + Len(t)
  BY <1>7
<1> HIDE DEF st
<1> DEFINE stf == st \o f
<1>9. stf \in Seq(Items) /\ Sound(stf) /\ Len(stf) = Len(store) + Len(t) + Len(f)
  <2>1. stf \in Seq(Items) /\ Len(stf) = Len(st) + Len(f) /\ Sound(stf)
    BY <1>4, <1>6, <1>8
  <2> QED
    BY <1>8, <2>1
<1> HIDE DEF stf
<1>10. /\ stf \o e \in Seq(Items) /\ Sound(stf \o e)
       /\ Len(stf \o e) = Len(store) + Len(t) + Len(f) + Len(e)
  <2>1. stf \o e \in Seq(Items) /\ Len(stf \o e) = Len(stf) + Len(e) /\ Sound(stf \o e)
    BY <1>4, <1>6, <1>9
  <2> QED
    BY <1>9, <2>1
<1>11. store' = stf \o e
  BY <1>2 DEF st, stf
<1>12. store' \in Seq(Items) /\ Sound(store') /\ Len(store') <= MaxItems
  BY <1>2, <1>10, <1>11
<1>13. run' = [run EXCEPT ![r] = NoRun] /\ crashes' = crashes
  BY DEF Learn
<1>14. TypeOK'
  BY <1>12, <1>13 DEF IInv, TypeOK
<1>15. StoreInv'
  BY <1>12 DEF StoreInv, Sound
<1>16. RunInv'
  BY <1>13 DEF IInv, TypeOK, RunInv
<1> QED
  BY <1>14, <1>15, <1>16 DEF IInv

\* End, Approve and Crash change no parameter of an item and no outcome.
LEMMA OtherSteps ==
    ASSUME IInv, \/ \E r \in Runs : End(r)
                 \/ \E i \in 1 .. MaxItems : Approve(i)
                 \/ Crash
    PROVE  IInv'
<1> USE BoundAssumption DEF BoundAssumption
<1>1. ASSUME NEW r \in Runs, End(r) PROVE IInv'
  <2>1. TypeOK'
    BY <1>1 DEF IInv, TypeOK, End
  <2>2. StoreInv'
    BY <1>1 DEF IInv, StoreInv, End
  <2>3. RunInv'
    BY <1>1 DEF IInv, TypeOK, RunInv, End
  <2> QED
    BY <2>1, <2>2, <2>3 DEF IInv
<1>2. ASSUME NEW i \in 1 .. MaxItems, Approve(i) PROVE IInv'
  <2>1. /\ i \in DOMAIN store
        /\ store' = [store EXCEPT ![i] = [store[i] EXCEPT !.approved = TRUE]]
    BY <1>2 DEF Approve
  <2>2. store[i] \in Items
    BY <2>1 DEF IInv, TypeOK
  <2>3. [store[i] EXCEPT !.approved = TRUE] \in Items
    BY <2>2 DEF Items
  <2>4. store' \in Seq(Items) /\ Len(store') = Len(store)
    BY <2>1, <2>3 DEF IInv, TypeOK
  <2>5. \A j \in DOMAIN store' :
            /\ j \in DOMAIN store
            /\ store'[j].kind = store[j].kind /\ store'[j].param = store[j].param
    BY <2>1, <2>2 DEF IInv, TypeOK, Items
  <2>6. TypeOK'
    BY <1>2, <2>4 DEF IInv, TypeOK, Approve
  <2>7. StoreInv'
    BY <2>5 DEF IInv, StoreInv
  <2>8. RunInv'
    BY <1>2 DEF IInv, RunInv, Approve
  <2> QED
    BY <2>6, <2>7, <2>8 DEF IInv
<1>3. ASSUME Crash PROVE IInv'
  <2>1. TypeOK'
    BY <1>3 DEF IInv, TypeOK, Crash
  <2>2. StoreInv' /\ RunInv'
    BY <1>3 DEF IInv, StoreInv, RunInv, Crash
  <2> QED
    BY <2>1, <2>2 DEF IInv
<1> QED
  BY <1>1, <1>2, <1>3

\* No step of any run, of an analyst or of a crash breaks it.
LEMMA StepIInv == IInv /\ [Next]_vars => IInv'
<1> SUFFICES ASSUME IInv, [Next]_vars PROVE IInv'
  OBVIOUS
<1>1. CASE UNCHANGED vars
  BY <1>1 DEF vars, IInv, TypeOK, StoreInv, RunInv, Within
<1>2. CASE Next
  <2>1. ASSUME NEW r \in Runs, Match(r) PROVE IInv'
    BY <2>1, MatchStep
  <2>2. ASSUME NEW r \in Runs, Learn(r) PROVE IInv'
    BY <2>2, LearnStep
  <2>3. CASE \/ \E r \in Runs : End(r)
             \/ \E i \in 1 .. MaxItems : Approve(i)
             \/ Crash
    BY <2>3, OtherSteps
  <2> QED
    BY <1>2, <2>1, <2>2, <2>3 DEF Next
<1> QED
  BY <1>1, <1>2

\* Every variable keeps its type: the store holds only suggestions with
\* parameters that some batch can have given.
THEOREM LearningTypeCorrect == Spec => []TypeOK
<1>1. IInv => TypeOK
  BY DEF IInv
<1> QED
  BY <1>1, InitIInv, StepIInv, PTL DEF Spec

\* However many runs learn from each other's matches, however large the
\* batches and in whatever order suggestions are approved, no approved rule
\* accepts a pair that the tools' own defaults refuse (learning_agent.py:22-72
\* with match_subgraph.py:55-56): the loop cannot loosen matching.
THEOREM LearningNeverLoosens == Spec => []LearnedWithinDefaults
<1>1. IInv => LearnedWithinDefaults
  BY WithinIsSound DEF IInv
<1> QED
  BY <1>1, InitIInv, StepIInv, PTL DEF Spec

-----------------------------------------------------------------------------
(* What steps do to the approved rules.                                    *)

\* Every approved rule of a kind is still there with its parameter.
Kept(kind) ==
    \A i \in Approved(kind) : i \in Approved(kind)' /\ store'[i].param = store[i].param

\* No other rule of a kind was approved.
NoneNew(kind) == Approved(kind)' \subseteq Approved(kind)

\* What is mined is not approved.
LEMMA MinedUnapproved ==
    ASSUME NEW outcomes, NEW s \in Mined(outcomes), NEW i \in DOMAIN s
    PROVE  ~s[i].approved
<1>1. s = <<>> \/ \E kind, param : s = <<Suggestion(kind, param)>>
  BY DEF Mined, MinedTolerance, MinedFuzzy, MinedExceptions
<1>2. PICK kind, param : s = <<Suggestion(kind, param)>>
  BY <1>1
<1>3. s[i] = Suggestion(kind, param)
  BY <1>2
<1> QED
  BY <1>3 DEF Suggestion

\* Learning appends to the store, and nothing that is approved.
LEMMA LearnAppends ==
    ASSUME IInv, NEW r \in Runs, Learn(r)
    PROVE  /\ \A i \in DOMAIN store : i \in DOMAIN store' /\ store'[i] = store[i]
           /\ \A i \in DOMAIN store' : i \in DOMAIN store \/ ~store'[i].approved
<1>1. PICK t \in MinedTolerance(run[r]), f \in MinedFuzzy(run[r]), e \in MinedExceptions(run[r]) :
          store' = store \o t \o f \o e
  BY DEF Learn
<1>2. t \in Mined(run[r]) /\ f \in Mined(run[r]) /\ e \in Mined(run[r])
  BY <1>1 DEF Mined
<1>3. run[r] \in [Pairs -> Outcomes] /\ Within(run[r])
  BY DEF IInv, TypeOK, RunInv, Learn
<1>4. store \in Seq(Items) /\ t \in Seq(Items) /\ f \in Seq(Items) /\ e \in Seq(Items)
  BY <1>2, <1>3, MinedWithin DEF IInv, TypeOK
<1> DEFINE Adds(a, c) == /\ c \in Seq(Items)
                         /\ \A i \in DOMAIN a : i \in DOMAIN c /\ c[i] = a[i]
                         /\ \A i \in DOMAIN c : i \in DOMAIN a \/ ~c[i].approved
<1>5. ASSUME NEW a \in Seq(Items), NEW b \in Seq(Items), b \in Mined(run[r])
      PROVE  Adds(a, a \o b)
  <2>1. /\ a \o b \in Seq(Items)
        /\ \A i \in DOMAIN a : i \in DOMAIN (a \o b) /\ (a \o b)[i] = a[i]
    OBVIOUS
  <2>2. ASSUME NEW i \in DOMAIN (a \o b), i \notin DOMAIN a
        PROVE  i - Len(a) \in DOMAIN b /\ (a \o b)[i] = b[i - Len(a)]
    BY <2>2
  <2>3. \A i \in DOMAIN b : ~b[i].approved
    BY <1>5, MinedUnapproved
  <2> QED
    BY <2>1, <2>2, <2>3
<1>6. ASSUME NEW a, NEW b, NEW c, Adds(a, b), Adds(b, c) PROVE Adds(a, c)
  BY <1>6
<1> DEFINE st == store \o t
           stf == st \o f
<1>7. Adds(store, st)
  BY <1>2, <1>4, <1>5
<1>8. Adds(st, stf)
  <2>1. st \in Seq(Items)
    BY <1>7
  <2> QED
    BY <2>1, <1>2, <1>4, <1>5
<1>9. Adds(stf, stf \o e)
  <2>1. stf \in Seq(Items)
    BY <1>8
  <2> QED
    BY <2>1, <1>2, <1>4, <1>5
<1>10. store' = stf \o e
  BY <1>1
<1> HIDE DEF st, stf
<1>11. Adds(store, store')
  <2>1. Adds(store, stf)
    BY <1>6, <1>7, <1>8
  <2>2. Adds(stf, store')
    BY <1>9, <1>10
  <2> HIDE DEF Adds
  <2> QED
    BY <1>6, <2>1, <2>2
<1> QED
  BY <1>11

\* Only a crash takes an approved rule away.
LEMMA RulesKept ==
    ASSUME IInv, [Next]_vars, crashes' = crashes, NEW kind
    PROVE  Kept(kind)
<1>1. ASSUME NEW r \in Runs, Learn(r) PROVE Kept(kind)
  BY <1>1, LearnAppends DEF Kept, Approved
<1>2. ASSUME NEW r \in Runs, Match(r) \/ End(r) PROVE Kept(kind)
  BY <1>2 DEF Match, End, Kept, Approved
<1>3. ASSUME NEW j \in 1 .. MaxItems, Approve(j) PROVE Kept(kind)
  <2>1. store[j] \in Items
    BY <1>3 DEF Approve, IInv, TypeOK
  <2>2. \A i \in DOMAIN store :
            /\ i \in DOMAIN store' /\ store'[i].kind = store[i].kind
            /\ store'[i].param = store[i].param
            /\ store[i].approved => store'[i].approved
    BY <1>3, <2>1 DEF Approve, IInv, TypeOK, Items
  <2> QED
    BY <2>2 DEF Kept, Approved
<1>4. ~Crash
  BY DEF Crash, IInv, TypeOK
<1>5. CASE UNCHANGED vars
  BY <1>5 DEF vars, Kept, Approved
<1> QED
  BY <1>1, <1>2, <1>3, <1>4, <1>5 DEF Next

\* Where every item stays as it is, no rule becomes approved, or goes.
LEMMA NothingApproved ==
    ASSUME IInv, [Next]_vars, NEW kind,
           \A i \in DOMAIN store : i \in DOMAIN store' /\ store'[i] = store[i]
    PROVE  Kept(kind) /\ NoneNew(kind)
<1>1. Kept(kind)
  BY DEF Kept, Approved
<1> DEFINE Waits == \A i \in DOMAIN store' : i \in DOMAIN store \/ ~store'[i].approved
<1>2. Waits
  <2>1. ASSUME NEW r \in Runs, Learn(r) PROVE Waits
    BY <2>1, LearnAppends
  <2>2. ASSUME NEW r \in Runs, Match(r) \/ End(r) PROVE Waits
    BY <2>2 DEF Match, End
  <2>3. ASSUME NEW j \in 1 .. MaxItems, Approve(j) PROVE Waits
    BY <2>3 DEF Approve
  <2>4. CASE Crash
    BY <2>4 DEF Crash
  <2>5. CASE UNCHANGED vars
    BY <2>5 DEF vars
  <2> QED
    BY <2>1, <2>2, <2>3, <2>4, <2>5 DEF Next
<1> QED
  BY <1>1, <1>2 DEF NoneNew, Approved

\* OnlyApprovalChanges for every instance: mining by any number of runs, and
\* whatever else leaves the items of the store as they are (rule_store.py:31-42,
\* learning_agent.py:98-118), leaves both tools as they were.
THEOREM ApprovalAloneChanges == Spec => OnlyApprovalChanges
<1>1. ASSUME IInv, [Next]_vars,
             \A i \in DOMAIN store : i \in DOMAIN store' /\ store'[i] = store[i]
      PROVE  /\ \A d \in Deltas : TolAccepts(d)' <=> TolAccepts(d)
             /\ \A r \in Ratios : RatioAccepts(r)' <=> RatioAccepts(r)
  <2>1. \A kind : Kept(kind) /\ NoneNew(kind)
    BY <1>1, NothingApproved
  <2>2. \A d \in Deltas : TolAccepts(d)' <=> TolAccepts(d)
    BY <2>1 DEF TolAccepts, Kept, NoneNew
  <2>3. \A r \in Ratios : RatioAccepts(r)' <=> RatioAccepts(r)
    BY <2>1 DEF RatioAccepts, Kept, NoneNew
  <2> QED
    BY <2>2, <2>3
<1>2. IInv /\ [Next]_vars =>
        [(\A i \in DOMAIN store : i \in DOMAIN store' /\ store'[i] = store[i])
            => /\ \A d \in Deltas : TolAccepts(d)' <=> TolAccepts(d)
               /\ \A r \in Ratios : RatioAccepts(r)' <=> RatioAccepts(r)]_vars
  BY <1>1
<1> QED
  BY <1>2, InitIInv, StepIInv, PTL DEF Spec, OnlyApprovalChanges

\* ApprovalsAddUp for every instance: while the process lives an approved rule
\* stays in force, whatever is learnt and approved after it
\* (learning_agent.py:121-145).
THEOREM ApprovalsOnlyAdd == Spec => ApprovalsAddUp
<1>1. ASSUME IInv, [Next]_vars, crashes' = crashes
      PROVE  /\ Approved("widen_tolerance") # {}
                   => \A d \in Deltas : TolAccepts(d) => TolAccepts(d)'
             /\ Approved("lower_fuzzy_threshold") # {}
                   => \A r \in Ratios : RatioAccepts(r) => RatioAccepts(r)'
  <2>1. \A kind : Kept(kind)
    BY <1>1, RulesKept
  <2>2. Approved("widen_tolerance") # {}
           => \A d \in Deltas : TolAccepts(d) => TolAccepts(d)'
    BY <2>1 DEF TolAccepts, Kept
  <2>3. Approved("lower_fuzzy_threshold") # {}
           => \A r \in Ratios : RatioAccepts(r) => RatioAccepts(r)'
    BY <2>1 DEF RatioAccepts, Kept
  <2> QED
    BY <2>2, <2>3
<1>2. IInv /\ [Next]_vars =>
        [crashes' = crashes
            => /\ Approved("widen_tolerance") # {}
                     => \A d \in Deltas : TolAccepts(d) => TolAccepts(d)'
               /\ Approved("lower_fuzzy_threshold") # {}
                     => \A r \in Ratios : RatioAccepts(r) => RatioAccepts(r)']_vars
  BY <1>1
<1> QED
  BY <1>2, InitIInv, StepIInv, PTL DEF Spec, ApprovalsAddUp
=============================================================================
