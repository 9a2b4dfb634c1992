--------------------------- MODULE MatchingProofs ---------------------------
(***************************************************************************)
(* Matching implements StableMatching, for batches of every size, every     *)
(* tolerance and every similarity.                                          *)
(***************************************************************************)
EXTENDS Matching, FiniteSetTheorems, TLAPS

\* Every match is of an eligible pair, by a pass that has begun.
Sound ==
    \A m \in matches : /\ m.rule \in Rules /\ m.rule <= phase
                       /\ m.pair \in Candidates(m.rule, book, source)
                       /\ m.rule = Semantic => Gateway

\* Passes that are over leave no pair with a complaint, and the one under way
\* only pairs it can still assign.
Progress ==
    /\ \A k \in Deterministic : phase > k => AllSettled(k, book, source, matches)
    /\ phase \in Deterministic =>
          \A p \in Candidates(phase, book, source) :
              p \in Open(phase) \/ Settled(phase, book, source, matches, p)

\* How a phase is reached.
Entry == /\ phase \in Failed .. Done
         /\ phase = Checking => matches = {}
         /\ phase > Checking => Accepted(book, source)
         /\ phase = Semantic => Gateway

\* Once matching is over the matches may no longer change; before, they are
\* sound, disjoint and settled as far as the passes have come.
IInv == Entry /\ (phase # Failed => Sound /\ OneToOne(matches) /\ Progress)

USE DEF Failed, Checking, Exact, Tolerance, Fuzzy, Semantic, Classifying, Done,
        Deterministic, Rules

-----------------------------------------------------------------------------
(* Types.                                                                  *)

\* A list of the batch is a function over positions up to the bound.
LEMMA ListTypes ==
    ASSUME NEW list \in Lists
    PROVE  /\ DOMAIN list \subseteq 1 .. MaxTxns
           /\ \A i \in DOMAIN list : list[i].txn \in Txns /\ list[i].id \in Ids
  BY BoundAssumption DEF Lists, Entries, BoundAssumption

\* Its positions are those up to its length.
LEMMA ListLength ==
    ASSUME NEW list \in Lists
    PROVE  DOMAIN list = 1 .. Len(list) /\ Len(list) \in Nat
  BY BoundAssumption DEF Lists, BoundAssumption

\* Every class is one of the types.
LEMMA ClassTypes == \A t, pool : ClassOf(t, pool) \in Types
  BY DEF ClassOf, Types

\* The loops of semantic_match begin at their first pair, and stay at a book
\* transaction only while it is unmatched.
CursorInv ==
    /\ phase \in Checking .. Fuzzy => cursor = <<1, 0>>
    /\ phase = Semantic /\ cursor[2] > 0 => cursor[1] \in FreeBook

\* What the cursor stands on while it is at a pair.
LEMMA AtAPair ==
    ASSUME TypeOK, CursorInv, InRow
    PROVE  /\ cursor[1] \in FreeBook /\ cursor[1] \in 1 .. MaxTxns
           /\ Comparable => cursor[2] \in 1 .. MaxTxns /\ cursor \in Positions
           /\ cursor[1] \in Nat /\ cursor[2] \in Nat /\ cursor = <<cursor[1], cursor[2]>>
<1>1. cursor[1] \in FreeBook
  BY DEF InRow, CursorInv
<1>2. FreeBook \subseteq 1 .. MaxTxns /\ FreeSource \subseteq 1 .. MaxTxns
  BY ListTypes DEF TypeOK, FreeBook, FreeSource
<1>3. cursor[1] \in Nat /\ cursor[2] \in Nat /\ cursor = <<cursor[1], cursor[2]>>
  BY BoundAssumption DEF TypeOK, BoundAssumption
<1> QED
  BY <1>1, <1>2, <1>3 DEF Comparable, Positions

\* The loops keep the cursor where it belongs.
LEMMA CursorStep == ASSUME TypeOK, CursorInv, [Next]_vars PROVE CursorInv'
<1>1. CASE UNCHANGED vars
  BY <1>1 DEF vars, CursorInv, FreeBook
<1>2. CASE Check \/ Assign \/ EndPass
  BY <1>2 DEF Check, Assign, EndPass, CursorInv
<1>3. CASE NextBook
  BY <1>3 DEF NextBook, NextRow, NextCol, CursorInv, FreeBook
<1>4. CASE NextSource \/ Skip \/ Refuse
  <2>1. phase' = Semantic /\ FreeBook' = FreeBook /\ cursor' \in {NextRow, NextCol}
    BY <1>4 DEF NextSource, Skip, Refuse, InRow, FreeBook
  <2>2. cursor[1] \in FreeBook
    BY <1>4, AtAPair DEF NextSource, Skip, Refuse
  <2> QED
    BY <2>1, <2>2 DEF CursorInv, NextRow, NextCol
<1>5. CASE Judge
  BY <1>5 DEF Judge, InRow, NextRow, CursorInv
<1>6. CASE Raise \/ EndSemantic \/ Classify
  BY <1>6 DEF Raise, EndSemantic, Classify, CursorInv
<1> QED
  BY <1>1, <1>2, <1>3, <1>4, <1>5, <1>6 DEF Next

\* Every step keeps the types.
LEMMA TypeStep == ASSUME TypeOK, CursorInv, [Next]_vars PROVE TypeOK'
<1>1. \A k : Open(k) \subseteq Positions
  BY ListTypes DEF TypeOK, Open, Candidates, Pairs, Positions
<1>2. CASE UNCHANGED vars
  BY <1>2 DEF vars, TypeOK
<1>3. CASE Check \/ EndPass \/ Raise \/ EndSemantic
  BY <1>3 DEF Check, EndPass, Raise, EndSemantic, TypeOK
<1>4. CASE Assign
  BY <1>1, <1>4 DEF Assign, TypeOK, Matches
<1>5. CASE NextBook
  <2>1. cursor[1] \in 1 .. MaxTxns /\ cursor[2] = 0
    BY <1>5, ListTypes DEF NextBook, TypeOK
  <2>2. cursor' \in (1 .. MaxTxns + 1) \X (0 .. MaxTxns + 1)
    BY <1>5, <2>1, BoundAssumption DEF NextBook, NextRow, NextCol, BoundAssumption
  <2> QED
    BY <1>5, <2>2 DEF NextBook, TypeOK
<1>6. CASE NextSource \/ Skip \/ Judge \/ Refuse
  <2>1. InRow
    BY <1>6 DEF NextSource, Skip, Judge, Refuse
  <2>2. NextRow \in (1 .. MaxTxns + 1) \X (0 .. MaxTxns + 1)
    BY <2>1, AtAPair, BoundAssumption DEF NextRow, BoundAssumption
  <2>3. cursor[2] \in 1 .. MaxTxns => NextCol \in (1 .. MaxTxns + 1) \X (0 .. MaxTxns + 1)
    BY <2>1, AtAPair, BoundAssumption DEF NextCol, BoundAssumption
  <2>4. cursor[2] \in DOMAIN source => cursor[2] \in 1 .. MaxTxns
    BY ListTypes DEF TypeOK
  <2>5. CASE NextSource
    BY <2>2, <2>3, <2>4, <2>5 DEF NextSource, TypeOK
  <2>6. CASE Skip \/ Judge \/ Refuse
    <3>1. Comparable
      BY <2>6 DEF Skip, Judge, Refuse, Asked
    <3>2. cursor[2] \in 1 .. MaxTxns /\ cursor \in Positions
      BY <2>1, <3>1, AtAPair
    <3> QED
      BY <2>2, <2>3, <2>6, <3>2 DEF Skip, Judge, Refuse, TypeOK, Matches
  <2> QED
    BY <1>6, <2>5, <2>6
<1>7. CASE Classify
  <2>1. FreeBook \subseteq 1 .. MaxTxns /\ FreeSource \subseteq 1 .. MaxTxns
    BY ListTypes DEF TypeOK, FreeBook, FreeSource
  <2>2. ASSUME NEW e \in exceptions'
        PROVE  e \in [side : {"book", "source"}, at : 1 .. MaxTxns, type : Types]
    <3> DEFINE leftBook   == {book[i].txn : i \in FreeBook}
               leftSource == {source[j].txn : j \in FreeSource}
    <3>1. \/ \E i \in FreeBook :
                e = [side |-> "book", at |-> i, type |-> ClassOf(book[i].txn, leftSource)]
          \/ \E j \in FreeSource :
                e = [side |-> "source", at |-> j, type |-> ClassOf(source[j].txn, leftBook)]
      BY <1>7, <2>2 DEF Classify
    <3> HIDE DEF leftBook, leftSource
    <3> QED
      BY <2>1, <3>1, ClassTypes
  <2>3. /\ phase' = Done /\ book' = book /\ source' = source /\ cursor' = cursor
        /\ matches' = matches /\ refused' = refused /\ skipped' = skipped
    BY <1>7 DEF Classify
  <2> QED
    BY <2>2, <2>3 DEF TypeOK
<1> QED
  BY <1>2, <1>3, <1>4, <1>5, <1>6, <1>7 DEF Next

\* Both hold at first.
LEMMA InitTypes == Init => TypeOK /\ CursorInv
  BY BoundAssumption DEF Init, TypeOK, CursorInv, BoundAssumption

\* Every variable keeps its type through every pass.
THEOREM MatchingTypeCorrect == Spec => []TypeOK
  BY InitTypes, CursorStep, TypeStep, PTL DEF Spec

\* The cursor stays where it belongs.
LEMMA CursorCorrect == Spec => []CursorInv
  BY InitTypes, CursorStep, TypeStep, PTL DEF Spec

-----------------------------------------------------------------------------
(* One more match.                                                         *)

\* A complaint that is settled stays settled.
LEMMA SettledGrows ==
    ASSUME NEW k, NEW p, NEW old, NEW new, old \subseteq new,
           Settled(k, book, source, old, p)
    PROVE  Settled(k, book, source, new, p)
  BY DEF Settled

\* A match of a pair with both ends free keeps the matching one-to-one.
LEMMA FreePairFits ==
    ASSUME NEW k, NEW p \in Open(k), NEW r, OneToOne(matches)
    PROVE  OneToOne(matches \cup {[pair |-> p, rule |-> r]})
  BY DEF Open, FreeBook, FreeSource, OneToOne

\* Matches retire ids; over an accepted batch that is to retire positions.
LEMMA RetiredByPosition ==
    ASSUME Accepted(book, source), Sound
    PROVE  /\ FreeBook = {i \in DOMAIN book : \A m \in matches : m.pair[1] # i}
           /\ FreeSource = {j \in DOMAIN source : \A m \in matches : m.pair[2] # j}
<1>1. \A m \in matches : m.pair[1] \in DOMAIN book /\ m.pair[2] \in DOMAIN source
  BY DEF Sound, Candidates, Pairs
<1>2. matches # {} => UniqueIds(book) /\ UniqueIds(source)
  BY <1>1 DEF Accepted
<1> QED
  BY <1>1, <1>2 DEF FreeBook, FreeSource, UniqueIds

\* Assigning a pair closes only the candidates that share an end with it.
LEMMA ClosedByNeighbour ==
    ASSUME Accepted(book, source),
           NEW k, NEW p \in Open(k), NEW r, NEW q \in Open(k),
           matches' = matches \cup {[pair |-> p, rule |-> r]},
           book' = book, source' = source, ~(q \in Open(k)')
    PROVE  p[1] = q[1] \/ p[2] = q[2]
  BY DEF Open, FreeBook, FreeSource, Accepted, UniqueIds, Candidates, Pairs

-----------------------------------------------------------------------------
(* The inductive invariant.                                                *)

\* It holds before anything was matched.
LEMMA InitIInv == Init => IInv
  BY DEF Init, IInv, Entry, Sound, OneToOne, Progress

\* _greedy keeps it: the pair it assigns comes before all that it closes.
LEMMA AssignStep == ASSUME IInv, Assign PROVE IInv'
<1>1. phase' = phase /\ book' = book /\ source' = source /\ phase \in Deterministic
  BY DEF Assign
<1>2. PICK p \in Open(phase) :
          /\ \A q \in Open(phase) : Beats(phase, book, source, p, q)
          /\ matches' = matches \cup {[pair |-> p, rule |-> phase]}
  BY DEF Assign
<1>3. Sound /\ OneToOne(matches) /\ Progress /\ Entry
  BY <1>1 DEF IInv
<1>4. Entry'
  BY <1>1, <1>3 DEF Entry, Accepted, UniqueIds
<1>5. Sound'
  BY <1>1, <1>2, <1>3 DEF Sound, Open
<1>6. OneToOne(matches)'
  BY <1>2, <1>3, FreePairFits DEF OneToOne
<1>7. ASSUME NEW k \in Deterministic, phase > k PROVE AllSettled(k, book, source, matches)'
  <2>1. \A q \in Candidates(k, book, source) : Settled(k, book, source, matches, q)
    BY <1>3, <1>7 DEF Progress, AllSettled
  <2>2. \A q \in Candidates(k, book, source) : Settled(k, book, source, matches', q)
    BY <1>2, <2>1, SettledGrows
  <2> QED
    BY <1>1, <2>2 DEF AllSettled
<1>8. ASSUME NEW q \in Candidates(phase, book, source), ~(q \in Open(phase)')
      PROVE  Settled(phase, book, source, matches', q)
  <2>1. CASE q \in Open(phase)
    <3>1. p[1] = q[1] \/ p[2] = q[2]
      BY <1>1, <1>2, <1>3, <1>8, <2>1, ClosedByNeighbour DEF Entry
    <3>2. [pair |-> p, rule |-> phase] \in matches' /\ Beats(phase, book, source, p, q)
      BY <1>2, <2>1
    <3> QED
      BY <3>1, <3>2 DEF Settled
  <2>2. CASE q \notin Open(phase)
    <3>1. Settled(phase, book, source, matches, q)
      BY <1>1, <1>3, <2>2 DEF Progress
    <3> QED
      BY <1>2, <3>1, SettledGrows
  <2> QED
    BY <2>1, <2>2
<1>9. Progress'
  BY <1>1, <1>7, <1>8 DEF Progress
<1> QED
  BY <1>4, <1>5, <1>6, <1>9 DEF IInv

\* The next pass begins with every candidate open or settled by a stronger rule.
LEMMA EndPassStep == ASSUME IInv, EndPass PROVE IInv'
<1>1. /\ book' = book /\ source' = source /\ matches' = matches
      /\ phase \in Deterministic /\ Open(phase) = {}
      /\ phase' \in {phase + 1, Classifying} /\ phase' > phase /\ phase' \in Failed .. Done
      /\ phase' \in Deterministic => phase' = phase + 1
      /\ phase' # phase + 1 => phase = Fuzzy
      /\ phase' = Semantic => Gateway
  BY DEF EndPass
<1>2. Sound /\ OneToOne(matches) /\ Progress /\ Entry
  BY <1>1 DEF IInv
<1>3. Entry'
  BY <1>1, <1>2 DEF Entry, Accepted, UniqueIds
<1>4. Sound' /\ OneToOne(matches)'
  BY <1>1, <1>2 DEF Sound, OneToOne
<1>5. ASSUME NEW k \in Deterministic, phase' > k PROVE AllSettled(k, book, source, matches)
  BY <1>1, <1>2, <1>5 DEF Progress, AllSettled
<1>6. ASSUME phase' \in Deterministic, NEW q \in Candidates(phase', book, source)
      PROVE  q \in Open(phase') \/ Settled(phase', book, source, matches, q)
  <2>1. CASE q[1] \in FreeBook /\ q[2] \in FreeSource
    BY <1>6, <2>1 DEF Open
  <2>2. CASE ~(q[1] \in FreeBook /\ q[2] \in FreeSource)
    <3>1. q[1] \in DOMAIN book /\ q[2] \in DOMAIN source
      BY <1>6 DEF Candidates, Pairs
    <3>2. PICK m \in matches : m.pair[1] = q[1] \/ m.pair[2] = q[2]
      BY <1>1, <1>2, <2>2, <3>1, RetiredByPosition DEF Entry
    <3>3. m.rule < phase'
      BY <1>1, <1>2 DEF Sound
    <3> QED
      BY <3>2, <3>3 DEF Settled
  <2> QED
    BY <2>1, <2>2
<1>7. Progress'
  <2>1. \A k \in Deterministic : phase' > k => AllSettled(k, book, source, matches)'
    BY <1>1, <1>5 DEF AllSettled
  <2>2. phase' \in Deterministic =>
          \A p \in Candidates(phase', book', source') :
              p \in Open(phase)' \/ Settled(phase', book', source', matches', p)
    BY <1>1, <1>6 DEF Open, FreeBook, FreeSource
  <2> QED
    BY <2>1, <2>2 DEF Progress
<1> QED
  BY <1>3, <1>4, <1>7 DEF IInv

\* The model adds a match of a free pair and unsettles nothing.
LEMMA JudgeStep == ASSUME IInv, TypeOK, CursorInv, Judge PROVE IInv'
<1>1. phase' = phase /\ book' = book /\ source' = source /\ phase = Semantic
  BY DEF Judge, InRow
<1>2. PICK p \in Open(Semantic) : matches' = matches \cup {[pair |-> p, rule |-> Semantic]}
  <2>1. cursor[1] \in FreeBook /\ cursor[2] \in FreeSource /\ cursor = <<cursor[1], cursor[2]>>
    BY AtAPair DEF Judge, Asked, Comparable
  <2>2. Eligible(Semantic, book[cursor[1]].txn, source[cursor[2]].txn)
    BY DEF Judge, Asked, Comparable, Eligible
  <2>3. cursor \in Open(Semantic)
    BY <2>1, <2>2 DEF Open, Candidates, Pairs, FreeBook, FreeSource
  <2> QED
    BY <2>3 DEF Judge
<1>3. Sound /\ OneToOne(matches) /\ Progress /\ Entry
  BY <1>1 DEF IInv
<1>4. Entry'
  BY <1>1, <1>3 DEF Entry, Accepted, UniqueIds
<1>5. Sound'
  BY <1>1, <1>2, <1>3 DEF Sound, Open, Entry
<1>6. OneToOne(matches)'
  BY <1>2, <1>3, FreePairFits DEF OneToOne
<1>7. ASSUME NEW k \in Deterministic PROVE AllSettled(k, book, source, matches)'
  <2>1. \A q \in Candidates(k, book, source) : Settled(k, book, source, matches, q)
    BY <1>1, <1>3 DEF Progress, AllSettled
  <2>2. \A q \in Candidates(k, book, source) : Settled(k, book, source, matches', q)
    BY <1>2, <2>1, SettledGrows
  <2> QED
    BY <1>1, <2>2 DEF AllSettled
<1>8. Progress'
  BY <1>1, <1>7 DEF Progress
<1> QED
  BY <1>4, <1>5, <1>6, <1>8 DEF IInv

\* The steps of the loops that match nothing.
LoopStep == NextBook \/ NextSource \/ Skip \/ Refuse

\* The other steps change no match and enter no deterministic pass but the first.
LEMMA OtherSteps ==
    ASSUME IInv, Check \/ LoopStep \/ Raise \/ EndSemantic \/ Classify PROVE IInv'
<1>1. book' = book /\ source' = source /\ matches' = matches
  BY DEF Check, LoopStep, NextBook, NextSource, Skip, Refuse, Raise, EndSemantic, Classify
<1>2. CASE Check
  <2>1. matches = {} /\ phase = Checking
    BY <1>2 DEF Check, IInv, Entry
  <2>2. CASE phase' = Failed
    BY <1>1, <2>1, <2>2 DEF IInv, Entry
  <2>3. CASE phase' = Exact /\ Accepted(book, source)
    <3>1. Entry' /\ Sound' /\ OneToOne(matches)'
      BY <1>1, <2>1, <2>3 DEF Entry, Sound, OneToOne, Accepted, UniqueIds
    <3>2. Progress'
      BY <1>1, <2>1, <2>3 DEF Progress, Open, FreeBook, FreeSource, Candidates, Pairs
    <3> QED
      BY <3>1, <3>2 DEF IInv
  <2> QED
    BY <1>2, <2>2, <2>3 DEF Check
<1>3. CASE Raise
  BY <1>1, <1>3 DEF Raise, InRow, IInv, Entry
<1>4. CASE LoopStep \/ EndSemantic \/ Classify
  <2>1. /\ phase \in {Semantic, Classifying} /\ phase' \in {Semantic, Classifying, Done}
        /\ phase' >= phase
        /\ phase' = Semantic => phase = Semantic
    BY <1>4 DEF LoopStep, NextBook, NextSource, Skip, Refuse, InRow, EndSemantic, Classify
  <2>2. Sound /\ OneToOne(matches) /\ Progress /\ Entry
    BY <2>1 DEF IInv
  <2>3. Entry'
    BY <1>1, <2>1, <2>2 DEF Entry, Accepted, UniqueIds
  <2>4. Sound' /\ OneToOne(matches)'
    BY <1>1, <2>1, <2>2 DEF Sound, OneToOne
  <2>5. Progress'
    BY <1>1, <2>1, <2>2 DEF Progress, AllSettled
  <2> QED
    BY <2>3, <2>4, <2>5 DEF IInv
<1> QED
  BY <1>2, <1>3, <1>4

\* No step breaks it.
LEMMA StepIInv == IInv /\ TypeOK /\ CursorInv /\ [Next]_vars => IInv'
<1> SUFFICES ASSUME IInv, TypeOK, CursorInv, [Next]_vars PROVE IInv'
  OBVIOUS
<1>1. CASE UNCHANGED vars
  BY <1>1 DEF vars, IInv, Entry, Sound, OneToOne, Progress, AllSettled, Open, FreeBook,
     FreeSource, Accepted, UniqueIds
<1>2. CASE Next
  BY <1>2, AssignStep, EndPassStep, JudgeStep, OtherSteps DEF Next, LoopStep
<1> QED
  BY <1>1, <1>2
-----------------------------------------------------------------------------
(* The refinement.                                                         *)

\* The abstract specification judges pairs by the same rules.
LEMMA SameRules ==
    /\ \A k : Promise!Candidates(k, book, source) = Candidates(k, book, source)
    /\ \A ms : Promise!OneToOne(ms) <=> OneToOne(ms)
    /\ \A k, ms : Promise!AllSettled(k, book, source, ms) <=> AllSettled(k, book, source, ms)
    /\ Promise!Accepted(book, source) <=> Accepted(book, source)
  BY DEF Promise!Candidates, Promise!Pairs, Promise!Eligible, Promise!Clean, Clean, Promise!Near, Promise!Distance,
     Promise!Exact, Promise!Tolerance, Promise!Fuzzy, Promise!Semantic,
     Candidates, Pairs, Eligible, Near, Distance,
     Promise!OneToOne, OneToOne, Promise!AllSettled, AllSettled, Promise!Settled, Settled,
     Promise!Beats, Beats, Promise!Score, Score, Promise!Left, Left,
     Promise!Accepted, Accepted, Promise!UniqueIds, UniqueIds

\* When matching is over, the matches are an outcome the promise allows.
LEMMA OutcomeHolds ==
    IInv /\ phase >= Classifying => Promise!Outcome(matches) /\ Promise!Accepted(book, source)
<1> SUFFICES ASSUME IInv, phase >= Classifying
             PROVE  Promise!Outcome(matches) /\ Promise!Accepted(book, source)
  OBVIOUS
<1>1. Entry /\ Sound /\ OneToOne(matches) /\ Progress
  BY DEF IInv, Entry
<1>2. \A k \in Deterministic : AllSettled(k, book, source, matches)
  BY <1>1 DEF Progress, Entry
<1>3. Accepted(book, source)
  BY <1>1 DEF Entry
<1> QED
  BY <1>1, <1>2, <1>3, SameRules DEF Sound, Promise!Outcome, Promise!Deterministic,
     Promise!Exact, Promise!Fuzzy, Promise!Semantic

\* So they are after a step.
LEMMA OutcomeHoldsNext ==
    (IInv /\ phase >= Classifying)'
       => (Promise!Outcome(matches) /\ Promise!Accepted(book, source))'
  BY OutcomeHolds, PTL

\* Every step is a step of the promise or leaves it where it is.
LEMMA StepPromise ==
    ASSUME IInv, IInv', [Next]_vars
    PROVE  [Promise!Next]_(Promise!promiseVars)
<1> USE DEF Status, Result
<1>1. CASE UNCHANGED vars
  BY <1>1 DEF vars, Promise!promiseVars
<1>2. CASE Assign \/ Judge \/ LoopStep
  BY <1>2 DEF Assign, Judge, LoopStep, NextBook, NextSource, Skip, Refuse, InRow,
     Promise!promiseVars
<1>3. CASE Classify
  BY <1>3 DEF Classify, Promise!promiseVars
<1>4. CASE Check
  BY <1>4, SameRules DEF Check, IInv, Entry, Promise!promiseVars, Promise!Next, Promise!Fail
<1>5. CASE Raise
  BY <1>5 DEF Raise, InRow, IInv, Entry, Promise!promiseVars, Promise!Next, Promise!Fail
<1>6. CASE EndPass \/ EndSemantic
  <2>1. /\ book' = book /\ source' = source /\ matches' = matches
        /\ phase \in Exact .. Semantic /\ phase' \in Exact .. Classifying
    BY <1>6 DEF EndPass, EndSemantic
  <2>2. CASE phase' # Classifying
    BY <2>1, <2>2 DEF Promise!promiseVars
  <2>3. CASE phase' = Classifying
    <3>1. (Promise!Outcome(matches) /\ Promise!Accepted(book, source))'
      BY <2>3, OutcomeHoldsNext
    <3> QED
      BY <2>1, <2>3, <3>1 DEF Promise!Next, Promise!Finish, Promise!Outcome
  <2> QED
    BY <2>2, <2>3
<1> QED
  BY <1>1, <1>2, <1>3, <1>4, <1>5, <1>6 DEF Next, LoopStep

\* The passes, the greedy loops and the model's judgments together implement
\* the promise: whatever the batch and the tolerances, matching ends with a
\* one-to-one set of eligible pairs that no pair can improve on, or raises over
\* repeated ids or a model's answer (match_subgraph.py:55-64).
THEOREM MatchingKeepsItsPromise == Spec => PromiseSpec
<1>1. Init => Promise!Init
  BY DEF Init, Promise!Init, Status, Result
<1> QED
  BY <1>1, InitIInv, StepIInv, StepPromise, MatchingTypeCorrect, CursorCorrect, PTL
     DEF Spec, PromiseSpec, Promise!Spec
-----------------------------------------------------------------------------
(* Leftovers.                                                              *)

\* What a leftover pair of one currency and amount has behind it.
Treated(i, j) ==
    Near(book[i].txn, source[j].txn, SemanticTol) =>
        IF Clean(book[i].txn, source[j].txn) THEN <<i, j>> \in refused ELSE <<i, j>> \in skipped

\* The loops have passed the pair.
Passed(i, j) == i < cursor[1] \/ (i = cursor[1] /\ j < cursor[2])

\* Leftover pairs behind the cursor were treated, and when matching goes on to
\* the classification with a model at hand, all were.
LoopInv ==
    /\ phase = Semantic =>
          \A i \in FreeBook, j \in FreeSource : Passed(i, j) => Treated(i, j)
    /\ phase >= Classifying /\ Gateway =>
          \A i \in FreeBook, j \in FreeSource : Treated(i, j)

\* A step that forgets no refusal and frees no transaction undoes no treatment.
LEMMA TreatedLasts ==
    ASSUME book' = book, source' = source, matches \subseteq matches',
           refused \subseteq refused', skipped \subseteq skipped'
    PROVE  /\ FreeBook' \subseteq FreeBook /\ FreeSource' \subseteq FreeSource
           /\ \A i, j : Treated(i, j) => Treated(i, j)'
  BY DEF FreeBook, FreeSource, Treated

\* The cursor passes one pair at a time, and only treated or matched ones.
LEMMA RowStep ==
    ASSUME TypeOK, CursorInv, LoopInv, NextSource \/ Skip \/ Judge \/ Refuse
    PROVE  LoopInv'
<1>1. /\ phase = Semantic /\ phase' = phase /\ book' = book /\ source' = source
      /\ matches \subseteq matches' /\ refused \subseteq refused' /\ skipped \subseteq skipped'
      /\ InRow
  BY DEF NextSource, Skip, Judge, Refuse, InRow
<1>2. /\ cursor[1] \in FreeBook /\ cursor[1] \in Nat /\ cursor[2] \in Nat
      /\ cursor = <<cursor[1], cursor[2]>>
  BY <1>1, AtAPair
<1>3. /\ FreeBook' \subseteq FreeBook /\ FreeSource' \subseteq FreeSource
      /\ \A i, j : Treated(i, j) => Treated(i, j)'
  BY <1>1, TreatedLasts
<1>4. /\ \A i \in FreeBook : i \in Nat
      /\ \A j \in FreeSource : j \in Nat /\ j <= Len(source)
  BY ListLength DEF TypeOK, FreeBook, FreeSource
<1>5. SUFFICES ASSUME NEW i \in FreeBook', NEW j \in FreeSource', Passed(i, j)'
               PROVE  Treated(i, j)'
  BY <1>1 DEF LoopInv
<1>6. CASE Passed(i, j)
  BY <1>1, <1>3, <1>6 DEF LoopInv
<1>7. CASE ~Passed(i, j)
  <2>1. CASE Judge
    <3>1. cursor' = NextRow /\ i = cursor[1]
      BY <1>2, <1>3, <1>4, <1>5, <1>7, <2>1 DEF Judge, NextRow, Passed
    <3>2. /\ [pair |-> cursor, rule |-> Semantic] \in matches' /\ book' = book
          /\ [pair |-> cursor, rule |-> Semantic].pair[1] = i
      BY <2>1, <3>1 DEF Judge
    <3>3. i \notin FreeBook'
      BY <3>2 DEF FreeBook
    <3> QED
      BY <1>5, <3>3
  <2>2. CASE Skip \/ Refuse
    <3>1. i = cursor[1] /\ j = cursor[2]
      BY <1>2, <1>3, <1>4, <1>5, <1>7, <2>2 DEF Skip, Refuse, NextCol, Passed
    <3> QED
      BY <1>1, <1>2, <2>2, <3>1 DEF Skip, Refuse, Asked, Treated
  <2>3. CASE NextSource
    <3>1. CASE cursor[2] \in DOMAIN source
      <4>1. i = cursor[1] /\ j = cursor[2]
        BY <1>2, <1>3, <1>4, <1>5, <1>7, <2>3, <3>1 DEF NextSource, NextCol, Passed
      <4>2. j \in FreeSource
        BY <1>3
      <4> QED
        BY <1>1, <2>3, <4>1, <4>2 DEF NextSource, Comparable, Treated
    <3>2. CASE cursor[2] \notin DOMAIN source
      <4>1. i = cursor[1]
        BY <1>2, <1>3, <1>4, <1>5, <1>7, <2>3, <3>2 DEF NextSource, NextRow, Passed
      <4>2. cursor[2] > Len(source)
        BY <1>1, <1>2, <3>2, ListLength DEF InRow, TypeOK
      <4> QED
        BY <1>2, <1>3, <1>4, <1>7, <4>1, <4>2 DEF Passed
    <3> QED
      BY <3>1, <3>2
  <2> QED
    BY <2>1, <2>2, <2>3
<1> QED
  BY <1>6, <1>7

\* The other steps treat nothing and pass nothing that is left over.
LEMMA LoopStepInv == ASSUME TypeOK, CursorInv, LoopInv, [Next]_vars PROVE LoopInv'
<1> USE DEF LoopInv
<1>1. CASE UNCHANGED vars
  BY <1>1 DEF vars, FreeBook, FreeSource, Passed, Treated
<1>2. CASE Check \/ Assign \/ Raise
  BY <1>2 DEF Check, Assign, Raise
<1>3. CASE EndPass
  <2>1. CASE phase' = Semantic
    <3>1. cursor' = <<1, 0>> /\ book' = book /\ source' = source
      BY <1>3, <2>1 DEF EndPass, CursorInv
    <3>2. ASSUME NEW i \in FreeBook', NEW j \in FreeSource' PROVE ~Passed(i, j)'
      <4>1. i \in Nat \ {0} /\ j \in Nat \ {0}
        BY <3>1, ListLength DEF TypeOK, FreeBook, FreeSource
      <4> QED
        BY <3>1, <4>1 DEF Passed
    <3> QED
      BY <2>1, <3>2
  <2>2. CASE phase' = Classifying /\ Gateway
    <3>1. FreeBook = {} \/ FreeSource = {}
      BY <1>3, <2>2 DEF EndPass
    <3> QED
      BY <1>3, <2>2, <3>1 DEF EndPass, FreeBook, FreeSource
  <2> QED
    BY <1>3, <2>1, <2>2 DEF EndPass
<1>4. CASE NextBook
  <2>1. /\ FreeBook' = FreeBook /\ FreeSource' = FreeSource /\ phase' = Semantic
        /\ phase = Semantic /\ \A i, j : Treated(i, j) => Treated(i, j)'
    BY <1>4 DEF NextBook, FreeBook, FreeSource, Treated
  <2>2. cursor[1] \in Nat /\ cursor[2] = 0
    BY <1>4, ListLength DEF NextBook, TypeOK
  <2>3. ASSUME NEW i \in FreeBook, NEW j \in FreeSource, Passed(i, j)' PROVE Passed(i, j)
    <3>1. i \in Nat /\ j \in Nat \ {0}
      BY ListLength DEF TypeOK, FreeBook, FreeSource
    <3> QED
      BY <1>4, <2>2, <2>3, <3>1 DEF NextBook, NextRow, NextCol, Passed
  <2> QED
    BY <2>1, <2>3
<1>5. CASE NextSource \/ Skip \/ Judge \/ Refuse
  BY <1>5, RowStep
<1>6. CASE EndSemantic
  <2>1. cursor[1] \in Nat \ {0} /\ cursor[1] > Len(book)
    BY <1>6, ListLength DEF EndSemantic, TypeOK
  <2>2. \A i \in FreeBook, j \in FreeSource : Passed(i, j)
    BY <2>1, ListLength DEF TypeOK, FreeBook, Passed
  <2> QED
    BY <1>6, <2>2 DEF EndSemantic, FreeBook, FreeSource, Treated
<1>7. CASE Classify
  BY <1>7 DEF Classify, FreeBook, FreeSource, Treated
<1> QED
  BY <1>1, <1>2, <1>3, <1>4, <1>5, <1>6, <1>7 DEF Next

\* The two loops of semantic_match lose no pair, whatever the model says of the
\* others and whichever the injection guard passes over
\* (semantic_match_agent.py:62-98): a pair of one currency and amount that is
\* left over was refused by the model, or never put to it because a field of it
\* looks like an instruction.
THEOREM NoPairLosesItsTurn == Spec => []LeftoversWereAsked
<1>1. Init => LoopInv
  BY DEF Init, LoopInv
<1>2. LoopInv => LeftoversWereAsked
  BY DEF LoopInv, LeftoversWereAsked, Treated
<1> QED
  BY <1>1, <1>2, LoopStepInv, MatchingTypeCorrect, CursorCorrect, PTL DEF Spec

-----------------------------------------------------------------------------
(* Evidence.                                                               *)

\* Distances do not depend on the order, and are natural.
LEMMA DistanceSymmetric ==
    ASSUME NEW x \in Int, NEW y \in Int
    PROVE  Distance(x, y) = Distance(y, x) /\ Distance(x, y) \in Nat
  BY DEF Distance

\* Two leftovers are outside the tolerance tool's limits.
LEMMA LeftoversAreApart ==
    ASSUME IInv, TypeOK, phase = Done, NEW i \in FreeBook, NEW j \in FreeSource
    PROVE  ~Eligible(Tolerance, book[i].txn, source[j].txn)
<1>1. SUFFICES ASSUME Eligible(Tolerance, book[i].txn, source[j].txn) PROVE FALSE
  OBVIOUS
<1>2. <<i, j>> \in Candidates(Tolerance, book, source)
  BY <1>1 DEF Candidates, Pairs, FreeBook, FreeSource
<1>3. PICK m \in matches : m.pair[1] = i \/ m.pair[2] = j
  BY <1>2 DEF IInv, Progress, AllSettled, Settled
<1> QED
  BY <1>3 DEF FreeBook, FreeSource

\* A transaction classified as timing or as a mismatch has its evidence in the
\* pool.
LEMMA ClassEvidence ==
    ASSUME NEW t, NEW pool
    PROVE  /\ ClassOf(t, pool) = "timing" =>
                 \E c \in pool : Near(t, c, 0) /\ Distance(c.date, t.date) <= TimingWindow
           /\ ClassOf(t, pool) = "mismatch" =>
                 \E c \in pool : Near(t, c, MismatchTol) /\ c.date = t.date
  BY DEF ClassOf

\* What evidence amounts to for two transactions the tolerance tool refuses.
LEMMA BeyondTolerance ==
    ASSUME NEW t \in Txns, NEW c \in Txns,
           ~Eligible(Tolerance, t, c) \/ ~Eligible(Tolerance, c, t)
    PROVE  /\ Near(t, c, 0) /\ Distance(c.date, t.date) <= TimingWindow
                 => Near(t, c, 0) /\ Distance(t.date, c.date) \in Window + 1 .. TimingWindow
           /\ Near(t, c, MismatchTol) /\ c.date = t.date
                 => /\ t.currency = c.currency /\ t.date = c.date
                    /\ Distance(t.amount, c.amount) \in Tol + 1 .. MismatchTol
<1>1. /\ t.amount \in Int /\ t.date \in Int /\ c.amount \in Int /\ c.date \in Int
      /\ Tol \in Nat /\ Window \in Nat /\ MismatchTol \in Nat /\ TimingWindow \in Nat
  BY TxnAssumption, ToleranceAssumption DEF TxnAssumption, ToleranceAssumption
<1>2. /\ Distance(t.date, c.date) = Distance(c.date, t.date) /\ Distance(t.date, c.date) \in Nat
      /\ Distance(t.amount, c.amount) = Distance(c.amount, t.amount)
      /\ Distance(t.amount, c.amount) \in Nat
  BY <1>1, DistanceSymmetric
<1>3. t.date = c.date => Distance(t.date, c.date) = 0
  BY <1>1 DEF Distance
<1>4. ~(/\ t.currency = c.currency /\ Distance(t.amount, c.amount) <= Tol
        /\ Distance(t.date, c.date) <= Window)
  BY <1>2 DEF Eligible, Near
<1> HIDE DEF Distance
<1> QED
  BY <1>1, <1>2, <1>3, <1>4 DEF Near

\* Each exception is what exception_agent made of its leftover.
ExceptionsInv ==
    /\ phase # Done => exceptions = {}
    /\ \A e \in exceptions :
          \/ /\ e.side = "book" /\ e.at \in FreeBook
             /\ e.type = ClassOf(book[e.at].txn, {source[j].txn : j \in FreeSource})
          \/ /\ e.side = "source" /\ e.at \in FreeSource
             /\ e.type = ClassOf(source[e.at].txn, {book[i].txn : i \in FreeBook})

\* So it is after a step.
LEMMA ExceptionsStep ==
    ASSUME ExceptionsInv, [Next]_vars
    PROVE  ExceptionsInv'
<1>1. CASE UNCHANGED vars
  <2>1. /\ FreeBook' = FreeBook /\ FreeSource' = FreeSource /\ book' = book
        /\ source' = source /\ phase' = phase /\ exceptions' = exceptions
    BY <1>1 DEF vars, FreeBook, FreeSource
  <2> QED
    BY <2>1 DEF ExceptionsInv
<1>2. CASE Check \/ Assign \/ EndPass \/ Judge \/ LoopStep \/ Raise \/ EndSemantic
  <2>1. exceptions = {} /\ exceptions' = {}
    BY <1>2 DEF Check, Assign, EndPass, Judge, LoopStep, NextBook, NextSource, Skip, Refuse,
       InRow, Raise, EndSemantic, ExceptionsInv
  <2> QED
    BY <2>1 DEF ExceptionsInv
<1>3. CASE Classify
  <2>1. FreeBook' = FreeBook /\ FreeSource' = FreeSource /\ book' = book /\ source' = source
    BY <1>3 DEF Classify, FreeBook, FreeSource
  <2>2. phase' = Done
    BY <1>3 DEF Classify
  <2> DEFINE leftBook   == {book[i].txn : i \in FreeBook}
             leftSource == {source[j].txn : j \in FreeSource}
  <2>3. ASSUME NEW e \in exceptions'
        PROVE  \/ /\ e.side = "book" /\ e.at \in FreeBook
                  /\ e.type = ClassOf(book[e.at].txn, leftSource)
               \/ /\ e.side = "source" /\ e.at \in FreeSource
                  /\ e.type = ClassOf(source[e.at].txn, leftBook)
    <3>1. \/ \E i \in FreeBook :
                e = [side |-> "book", at |-> i, type |-> ClassOf(book[i].txn, leftSource)]
          \/ \E j \in FreeSource :
                e = [side |-> "source", at |-> j, type |-> ClassOf(source[j].txn, leftBook)]
      BY <1>3, <2>3 DEF Classify
    <3> HIDE DEF leftBook, leftSource
    <3> QED
      BY <3>1
  <2> QED
    BY <2>1, <2>2, <2>3 DEF ExceptionsInv
<1> QED
  BY <1>1, <1>2, <1>3 DEF Next, LoopStep

\* A timing difference is one of more days than the tolerance tool allows, a
\* mismatch one of a larger amount (exception_agent.py:62-72): the classes
\* never describe a pair that should have been matched.
THEOREM EvidenceIsReal == Spec => []EvidenceIsBeyondTolerance
<1>1. Init => ExceptionsInv
  BY DEF Init, ExceptionsInv
<1>2. IInv /\ TypeOK /\ ExceptionsInv => EvidenceIsBeyondTolerance
  <2> SUFFICES ASSUME IInv, TypeOK, ExceptionsInv, NEW e \in exceptions,
                      NEW t, NEW other,
                      t = IF e.side = "book" THEN book[e.at].txn ELSE source[e.at].txn,
                      other = IF e.side = "book" THEN {source[j].txn : j \in FreeSource}
                              ELSE {book[i].txn : i \in FreeBook}
               PROVE  /\ e.type = "timing" =>
                            \E c \in other :
                                /\ Near(t, c, 0)
                                /\ Distance(t.date, c.date) \in Window + 1 .. TimingWindow
                      /\ e.type = "mismatch" =>
                            \E c \in other :
                                /\ t.currency = c.currency /\ t.date = c.date
                                /\ Distance(t.amount, c.amount) \in Tol + 1 .. MismatchTol
    BY DEF EvidenceIsBeyondTolerance
  <2>1. phase = Done
    BY DEF ExceptionsInv
  <2>2. e.type = ClassOf(t, other)
    BY DEF ExceptionsInv
  <2>3. t \in Txns
    BY ListTypes DEF ExceptionsInv, TypeOK, FreeBook, FreeSource
  <2>4. ASSUME NEW c \in other
        PROVE  /\ c \in Txns
               /\ ~Eligible(Tolerance, t, c) \/ ~Eligible(Tolerance, c, t)
    <3>1. CASE e.side = "book"
      <4>1. PICK j \in FreeSource : c = source[j].txn
        BY <2>4, <3>1
      <4>2. e.at \in FreeBook /\ t = book[e.at].txn
        BY <3>1 DEF ExceptionsInv
      <4> QED
        BY <2>1, <4>1, <4>2, LeftoversAreApart, ListTypes DEF TypeOK, FreeSource
    <3>2. CASE e.side # "book"
      <4>1. PICK i \in FreeBook : c = book[i].txn
        BY <2>4, <3>2
      <4>2. e.at \in FreeSource /\ t = source[e.at].txn
        BY <3>2 DEF ExceptionsInv
      <4> QED
        BY <2>1, <4>1, <4>2, LeftoversAreApart, ListTypes DEF TypeOK, FreeBook
    <3> QED
      BY <3>1, <3>2
  <2> QED
    BY <2>2, <2>3, <2>4, ClassEvidence, BeyondTolerance
<1> QED
  BY <1>1, <1>2, InitIInv, StepIInv, CursorCorrect, ExceptionsStep, MatchingTypeCorrect, PTL DEF Spec

\* What matching left over.
LeftBook   == {book[i].txn : i \in FreeBook}
LeftSource == {source[j].txn : j \in FreeSource}

\* No leftover is without its exception.
CompleteInv ==
    phase = Done =>
        /\ \A i \in FreeBook : \E e \in exceptions :
              /\ e.side = "book" /\ e.at = i
              /\ e.type = ClassOf(book[i].txn, LeftSource)
        /\ \A j \in FreeSource : \E e \in exceptions :
              /\ e.side = "source" /\ e.at = j
              /\ e.type = ClassOf(source[j].txn, LeftBook)

\* c is evidence of what happened to t.
Points(t, c) ==
    \/ c.amount = t.amount /\ c.currency # t.currency
    \/ Near(t, c, 0) /\ Distance(c.date, t.date) <= TimingWindow
    \/ Near(t, c, MismatchTol) /\ c.date = t.date

Pointed == {"fx", "timing", "mismatch"}

\* A class that points to evidence has some, and evidence is always pointed to.
LEMMA PointedMeansPoints ==
    \A t, pool : ClassOf(t, pool) \in Pointed <=> \E c \in pool : Points(t, c)
  BY DEF ClassOf, Points, Pointed

\* What explains one of two transactions explains the other.
LEMMA PointsBack ==
    ASSUME NEW t \in Txns, NEW c \in Txns, Points(t, c)
    PROVE  Points(c, t)
<1>1. t.amount \in Int /\ t.date \in Int /\ c.amount \in Int /\ c.date \in Int
  BY TxnAssumption DEF TxnAssumption
<1>2. /\ Distance(t.date, c.date) = Distance(c.date, t.date)
      /\ Distance(t.amount, c.amount) = Distance(c.amount, t.amount)
  BY <1>1, DistanceSymmetric
<1> HIDE DEF Distance
<1> QED
  BY <1>2 DEF Points, Near

\* So it is after a step.
LEMMA CompleteStep ==
    ASSUME CompleteInv, [Next]_vars
    PROVE  CompleteInv'
<1>1. CASE UNCHANGED vars
  <2>1. /\ FreeBook' = FreeBook /\ FreeSource' = FreeSource
        /\ book' = book /\ source' = source
    BY <1>1 DEF vars, FreeBook, FreeSource
  <2>2. LeftBook' = LeftBook /\ LeftSource' = LeftSource
    BY <2>1 DEF LeftBook, LeftSource
  <2> QED
    BY <1>1, <2>1, <2>2 DEF vars, CompleteInv
<1>2. CASE Check \/ Assign \/ EndPass \/ Judge \/ LoopStep \/ Raise \/ EndSemantic
  <2>1. phase' # Done
    BY <1>2 DEF Check, Assign, EndPass, Judge, LoopStep, NextBook, NextSource, Skip, Refuse,
       InRow, Raise, EndSemantic
  <2> QED
    BY <2>1 DEF CompleteInv
<1>3. CASE Classify
  <2>1. /\ FreeBook' = FreeBook /\ FreeSource' = FreeSource
        /\ book' = book /\ source' = source
    BY <1>3 DEF Classify, FreeBook, FreeSource
  <2>2. /\ \A i \in FreeBook :
              [side |-> "book", at |-> i, type |-> ClassOf(book[i].txn, LeftSource)] \in exceptions'
        /\ \A j \in FreeSource :
              [side |-> "source", at |-> j, type |-> ClassOf(source[j].txn, LeftBook)] \in exceptions'
    BY <1>3 DEF Classify, LeftBook, LeftSource
  <2>3. LeftBook' = LeftBook /\ LeftSource' = LeftSource
    BY <2>1 DEF LeftBook, LeftSource
  <2>4. /\ \A i \in FreeBook : \E e \in exceptions' :
              e.side = "book" /\ e.at = i /\ e.type = ClassOf(book[i].txn, LeftSource)
        /\ \A j \in FreeSource : \E e \in exceptions' :
              e.side = "source" /\ e.at = j /\ e.type = ClassOf(source[j].txn, LeftBook)
    BY <2>2
  <2> QED
    BY <2>1, <2>3, <2>4 DEF CompleteInv
<1> QED
  BY <1>1, <1>2, <1>3 DEF Next, LoopStep

\* exception_agent classifies both sides against each other
\* (exception_agent.py:131-155), so no side's evidence is without an exception
\* of its own that points back.
THEOREM EvidencePointsBack == Spec => []EvidenceIsMutual
<1>1. Init => ExceptionsInv /\ CompleteInv
  BY DEF Init, ExceptionsInv, CompleteInv
<1>2. TypeOK /\ ExceptionsInv /\ CompleteInv => EvidenceIsMutual
  <2> SUFFICES ASSUME TypeOK, ExceptionsInv, CompleteInv
               PROVE  (\E e \in exceptions : e.type \in Pointed /\ e.side = "book")
                        <=> (\E e \in exceptions : e.type \in Pointed /\ e.side = "source")
    BY DEF EvidenceIsMutual, Pointed
  <2>1. /\ \A i \in FreeBook : book[i].txn \in Txns
        /\ \A j \in FreeSource : source[j].txn \in Txns
    BY ListTypes DEF TypeOK, FreeBook, FreeSource
  <2>2. ASSUME NEW e \in exceptions, e.type \in Pointed, e.side = "book"
        PROVE  \E f \in exceptions : f.type \in Pointed /\ f.side = "source"
    <3>1. /\ e.at \in FreeBook /\ phase = Done
          /\ ClassOf(book[e.at].txn, LeftSource) \in Pointed
      BY <2>2 DEF ExceptionsInv, LeftSource
    <3>2. PICK j \in FreeSource : Points(book[e.at].txn, source[j].txn)
      BY <3>1, PointedMeansPoints DEF LeftSource
    <3>3. Points(source[j].txn, book[e.at].txn)
      BY <2>1, <3>1, <3>2, PointsBack
    <3>4. ClassOf(source[j].txn, LeftBook) \in Pointed
      BY <3>1, <3>3, PointedMeansPoints DEF LeftBook
    <3> QED
      BY <3>1, <3>4 DEF CompleteInv
  <2>3. ASSUME NEW e \in exceptions, e.type \in Pointed, e.side = "source"
        PROVE  \E f \in exceptions : f.type \in Pointed /\ f.side = "book"
    <3>1. /\ e.at \in FreeSource /\ phase = Done
          /\ ClassOf(source[e.at].txn, LeftBook) \in Pointed
      BY <2>3 DEF ExceptionsInv, LeftBook
    <3>2. PICK i \in FreeBook : Points(source[e.at].txn, book[i].txn)
      BY <3>1, PointedMeansPoints DEF LeftBook
    <3>3. Points(book[i].txn, source[e.at].txn)
      BY <2>1, <3>1, <3>2, PointsBack
    <3>4. ClassOf(book[i].txn, LeftSource) \in Pointed
      BY <3>1, <3>3, PointedMeansPoints DEF LeftSource
    <3> QED
      BY <3>1, <3>4 DEF CompleteInv
  <2> QED
    BY <2>2, <2>3
<1> QED
  BY <1>1, <1>2, ExceptionsStep, CompleteStep, MatchingTypeCorrect, PTL DEF Spec

-----------------------------------------------------------------------------
(* Counting.                                                               *)

\* A function that is one-to-one and onto a finite set counts its domain.
LEMMA SameNumber ==
    ASSUME NEW S, NEW T, IsFiniteSet(T), NEW f \in [S -> T],
           \A x, y \in S : f[x] = f[y] => x = y,
           \A t \in T : \E x \in S : f[x] = t
    PROVE  IsFiniteSet(S) /\ Cardinality(S) = Cardinality(T)
<1>1. f \in Injection(S, T) /\ f \in Surjection(S, T)
  BY DEF Injection, IsInjective, Surjection
<1> QED
  BY <1>1, FS_Injection

\* A list has as many positions as its length says, and each is free or not.
LEMMA PositionsOf ==
    ASSUME NEW list \in Lists, NEW free \in SUBSET DOMAIN list
    PROVE  /\ IsFiniteSet(free) /\ IsFiniteSet(DOMAIN list \ free)
           /\ Cardinality(free) \in Nat /\ Cardinality(DOMAIN list \ free) \in Nat
           /\ Cardinality(free) + Cardinality(DOMAIN list \ free) = Len(list)
<1>1. PICK n \in Nat : list \in [1 .. n -> Entries]
  BY BoundAssumption DEF Lists, BoundAssumption
<1>2. DOMAIN list = 1 .. n /\ Len(list) = n
  BY <1>1
<1>3. IsFiniteSet(DOMAIN list) /\ Cardinality(DOMAIN list) = n
  BY <1>2, FS_Interval
<1>4. /\ IsFiniteSet(free) /\ IsFiniteSet(DOMAIN list \ free)
      /\ Cardinality(DOMAIN list \ free)
            = Cardinality(DOMAIN list) - Cardinality(DOMAIN list \cap free)
  BY <1>3, FS_Subset, FS_Difference
<1>5. Cardinality(DOMAIN list \ free) = n - Cardinality(free)
  <2>1. DOMAIN list \cap free = free
    OBVIOUS
  <2> QED
    BY <1>3, <1>4, <2>1
<1>6. Cardinality(free) \in Nat /\ Cardinality(DOMAIN list \ free) \in Nat
  BY <1>4, FS_CardinalityType
<1>7. Cardinality(free) + Cardinality(DOMAIN list \ free) = n
  BY <1>5, <1>6
<1> QED
  BY <1>2, <1>4, <1>6, <1>7

\* Each match takes one position of each side.
LEMMA MatchesAreCounted ==
    ASSUME TypeOK, Accepted(book, source), Sound, OneToOne(matches)
    PROVE  /\ Cardinality(DOMAIN book \ FreeBook) = Cardinality(matches)
           /\ Cardinality(DOMAIN source \ FreeSource) = Cardinality(matches)
<1>1. \A m \in matches : m.pair[1] \in DOMAIN book /\ m.pair[2] \in DOMAIN source
  BY DEF Sound, Candidates, Pairs
<1>2. /\ IsFiniteSet(DOMAIN book \ FreeBook) /\ IsFiniteSet(DOMAIN source \ FreeSource)
  BY PositionsOf DEF TypeOK, FreeBook, FreeSource
<1>3. Cardinality(matches) = Cardinality(DOMAIN book \ FreeBook)
  <2> DEFINE f == [m \in matches |-> m.pair[1]]
  <2>1. f \in [matches -> DOMAIN book \ FreeBook]
    BY <1>1, RetiredByPosition
  <2>2. \A m, n \in matches : f[m] = f[n] => m = n
    BY DEF OneToOne
  <2>3. \A i \in DOMAIN book \ FreeBook : \E m \in matches : f[m] = i
    BY RetiredByPosition
  <2> HIDE DEF f
  <2> QED
    BY <1>2, <2>1, <2>2, <2>3, SameNumber
<1>4. Cardinality(matches) = Cardinality(DOMAIN source \ FreeSource)
  <2> DEFINE f == [m \in matches |-> m.pair[2]]
  <2>1. f \in [matches -> DOMAIN source \ FreeSource]
    BY <1>1, RetiredByPosition
  <2>2. \A m, n \in matches : f[m] = f[n] => m = n
    BY DEF OneToOne
  <2>3. \A j \in DOMAIN source \ FreeSource : \E m \in matches : f[m] = j
    BY RetiredByPosition
  <2> HIDE DEF f
  <2> QED
    BY <1>2, <2>1, <2>2, <2>3, SameNumber
<1> QED
  BY <1>3, <1>4

\* A transaction has one exception at most.
LEMMA OneExceptionEach ==
    ASSUME TypeOK, ExceptionsInv, NEW e \in exceptions, NEW f \in exceptions,
           e.side = f.side, e.at = f.at
    PROVE  e = f
<1>1. e.type = f.type
  BY DEF ExceptionsInv
<1> QED
  BY <1>1 DEF TypeOK

\* The exceptions of one side are as many as its leftovers.
LEMMA ExceptionsAreCounted ==
    ASSUME TypeOK, ExceptionsInv, CompleteInv, phase = Done
    PROVE  /\ IsFiniteSet(exceptions)
           /\ Cardinality(exceptions) = Cardinality(FreeBook) + Cardinality(FreeSource)
<1> DEFINE of(side) == {e \in exceptions : e.side = side}
           f == [e \in of("book") |-> e.at]
           g == [e \in of("source") |-> e.at]
<1>1. /\ IsFiniteSet(FreeBook) /\ Cardinality(FreeBook) \in Nat
      /\ IsFiniteSet(FreeSource) /\ Cardinality(FreeSource) \in Nat
  BY PositionsOf DEF TypeOK, FreeBook, FreeSource
<1>2. IsFiniteSet(of("book")) /\ Cardinality(of("book")) = Cardinality(FreeBook)
  <2>1. f \in [of("book") -> FreeBook]
    BY DEF ExceptionsInv
  <2>2. \A e, d \in of("book") : f[e] = f[d] => e = d
    BY OneExceptionEach
  <2>3. \A i \in FreeBook : \E e \in of("book") : f[e] = i
    BY DEF CompleteInv
  <2> HIDE DEF f, of
  <2> QED
    BY <1>1, <2>1, <2>2, <2>3, SameNumber
<1>3. IsFiniteSet(of("source")) /\ Cardinality(of("source")) = Cardinality(FreeSource)
  <2>1. g \in [of("source") -> FreeSource]
    BY DEF ExceptionsInv
  <2>2. \A e, d \in of("source") : g[e] = g[d] => e = d
    BY OneExceptionEach
  <2>3. \A j \in FreeSource : \E e \in of("source") : g[e] = j
    BY DEF CompleteInv
  <2> HIDE DEF g, of
  <2> QED
    BY <1>1, <2>1, <2>2, <2>3, SameNumber
<1>4. exceptions = of("book") \cup of("source") /\ of("book") \cap of("source") = {}
  BY DEF ExceptionsInv
<1>5. Cardinality(of("book") \cap of("source")) = 0
  BY <1>4, FS_EmptySet
<1> HIDE DEF of
<1>6. /\ IsFiniteSet(of("book") \cup of("source"))
      /\ Cardinality(of("book") \cup of("source"))
            = Cardinality(of("book")) + Cardinality(of("source"))
                 - Cardinality(of("book") \cap of("source"))
  BY <1>2, <1>3, FS_Union
<1> QED
  BY <1>1, <1>2, <1>3, <1>4, <1>5, <1>6

\* No transaction disappears, whatever the size of the batch
\* (match_subgraph.py:58-77): once matching is over each is in one match or has
\* one exception, and the numbers add up.
THEOREM NothingIsLost == Spec => []NothingLost
<1>1. Init => ExceptionsInv /\ CompleteInv
  BY DEF Init, ExceptionsInv, CompleteInv
<1>2. IInv /\ TypeOK /\ ExceptionsInv /\ CompleteInv => NothingLost
  <2> SUFFICES ASSUME IInv, TypeOK, ExceptionsInv, CompleteInv, phase = Done
               PROVE  /\ \A i \in DOMAIN book :
                            i \in FreeBook <=> \E e \in exceptions : e.side = "book" /\ e.at = i
                      /\ \A j \in DOMAIN source :
                            j \in FreeSource <=> \E e \in exceptions : e.side = "source" /\ e.at = j
                      /\ \A e, f \in exceptions : e.side = f.side /\ e.at = f.at => e = f
                      /\ Cardinality(exceptions) + 2 * Cardinality(matches)
                            = Len(book) + Len(source)
    BY DEF NothingLost
  <2>1. Sound /\ OneToOne(matches) /\ Accepted(book, source)
    BY DEF IInv, Entry
  <2>2. \A i \in FreeBook : \E e \in exceptions : e.side = "book" /\ e.at = i
    BY DEF CompleteInv
  <2>3. \A j \in FreeSource : \E e \in exceptions : e.side = "source" /\ e.at = j
    BY DEF CompleteInv
  <2>4. \A e \in exceptions : /\ e.side = "book" => e.at \in FreeBook
                              /\ e.side = "source" => e.at \in FreeSource
    BY DEF ExceptionsInv
  <2>5. \A e, f \in exceptions : e.side = f.side /\ e.at = f.at => e = f
    BY OneExceptionEach
  <2>6. /\ Cardinality(FreeBook) \in Nat /\ Cardinality(DOMAIN book \ FreeBook) \in Nat
        /\ Cardinality(FreeBook) + Cardinality(DOMAIN book \ FreeBook) = Len(book)
    BY PositionsOf DEF TypeOK, FreeBook
  <2>7. /\ Cardinality(FreeSource) \in Nat /\ Cardinality(DOMAIN source \ FreeSource) \in Nat
        /\ Cardinality(FreeSource) + Cardinality(DOMAIN source \ FreeSource) = Len(source)
    BY PositionsOf DEF TypeOK, FreeSource
  <2>8. Cardinality(exceptions) + 2 * Cardinality(matches) = Len(book) + Len(source)
    BY <2>1, <2>6, <2>7, MatchesAreCounted, ExceptionsAreCounted
  <2> QED
    BY <2>2, <2>3, <2>4, <2>5, <2>8
<1> QED
  BY <1>1, <1>2, InitIInv, StepIInv, CursorCorrect, ExceptionsStep, CompleteStep, MatchingTypeCorrect, PTL
     DEF Spec
=============================================================================
