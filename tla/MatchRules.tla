----------------------------- MODULE MatchRules -----------------------------
(***************************************************************************)
(* The rules by which two transactions may be matched, strongest first, and *)
(* by which one left over is classified: reasoning/tools/matching_tools.py, *)
(* semantic_match_agent.py and exception_agent.py, as functions of the      *)
(* transactions.                                                           *)
(*                                                                         *)
(* Amounts are in cents, dates in days, similarities in 1/100000.           *)
(* References are normalized (_norm_ref): two of them are one value when    *)
(* they differ in case and spacing only.                                    *)
(***************************************************************************)
EXTENDS Integers

CONSTANTS
    Txns,          \* what a transaction may hold
    Refs, Blank,   \* references, and the one that normalizes to nothing
    Currencies,
    Suspicious,    \* transactions with a field any_field_looks_like_injection flags
    Ratio,         \* SequenceMatcher's similarity of two references
    Tol, Window,   \* tolerance_tool's amount_tol and date_window
    FuzzyTol, MinRatio,  \* fuzzy_tool's amount_tol and min_ratio
    SemanticTol,   \* semantic_match's amount_tol
    MismatchTol, TimingWindow  \* classify_exception's

ASSUME TxnAssumption ==
    Txns \subseteq [amount : Int, date : Int, currency : Currencies, ref : Refs \cup {Blank}]
ASSUME SuspiciousAssumption == Suspicious \subseteq Txns
ASSUME RatioAssumption == Ratio \in [Refs \X Refs -> 0 .. 100000]
ASSUME ToleranceAssumption ==
    /\ Tol \in Nat /\ Window \in Nat /\ FuzzyTol \in Nat /\ MinRatio \in Nat
    /\ SemanticTol \in Nat /\ MismatchTol \in Nat /\ TimingWindow \in Nat
\* Two tolerance scores apart give confidences apart after their rounding.
ASSUME RoundingAssumption == Tol * Window <= 3500

\* The rules, and the passes of run_match_subgraph, in their order.
Checking == 1  Exact == 2  Tolerance == 3  Fuzzy == 4  Semantic == 5
Classifying == 6  Done == 7  Failed == 0

Deterministic == Exact .. Fuzzy
Rules         == Exact .. Semantic

Distance(x, y) == IF x <= y THEN y - x ELSE x - y

Near(a, b, tol) == a.currency = b.currency /\ Distance(a.amount, b.amount) <= tol

-----------------------------------------------------------------------------
(* Eligibility and preference.  Definitions named X_... are faulty variants *)
(* of X, no part of the specification.                                      *)

\* Whether the pair may be put to the model.
Clean(b, s) == {b, s} \cap Suspicious = {}

\* Whether rule k may match book transaction b and source transaction s.
Eligible(k, b, s) ==
    CASE k = Exact     -> /\ b.currency = s.currency /\ b.amount = s.amount
                          /\ b.date = s.date /\ b.ref = s.ref /\ b.ref # Blank
      [] k = Tolerance -> Near(b, s, Tol) /\ Distance(b.date, s.date) <= Window
      [] k = Fuzzy     -> /\ Near(b, s, FuzzyTol) /\ b.ref # Blank /\ s.ref # Blank
                          /\ Ratio[b.ref, s.ref] >= MinRatio
      [] k = Semantic  -> Near(b, s, SemanticTol) /\ Clean(b, s)

\* The part of a budget a difference leaves; a budget of zero always is whole.
Left(budget, used) == IF budget = 0 THEN 1 ELSE budget - used

\* The order of the confidences a deterministic rule gives, rounded to 4 decimals:
\* 0.5 + 0.45 * ratio ties two similarities that are close enough.
Score(k, b, s) ==
    CASE k = Exact     -> 0
      [] k = Tolerance -> Left(Tol, Distance(b.amount, s.amount))
                             * Left(Window, Distance(b.date, s.date))
      [] k = Fuzzy     -> (45 * Ratio[b.ref, s.ref] + 500) \div 1000

\* _greedy's sort key: confidence, then book id, then source id.  Each side is
\* a list of [id, txn]; a pair is a position in each.
Beats(k, book, source, p, q) ==
    LET x == Score(k, book[p[1]].txn, source[p[2]].txn)
        y == Score(k, book[q[1]].txn, source[q[2]].txn)
    IN  \/ x > y
        \/ x = y /\ book[p[1]].id < book[q[1]].id
        \/ x = y /\ book[p[1]].id = book[q[1]].id /\ source[p[2]].id <= source[q[2]].id

Pairs(book, source) == (DOMAIN book) \X (DOMAIN source)

Candidates(k, book, source) ==
    {p \in Pairs(book, source) : Eligible(k, book[p[1]].txn, source[p[2]].txn)}

\* _assert_unique_ids, which exact_tool reaches when neither side is empty.
UniqueIds(list) == \A i, j \in DOMAIN list : list[i].id = list[j].id => i = j
Accepted(book, source) ==
    DOMAIN book = {} \/ DOMAIN source = {} \/ (UniqueIds(book) /\ UniqueIds(source))

-----------------------------------------------------------------------------
(* What a set of matches owes to the rules.  A match is a pair and a rule.   *)

\* No transaction is in two matches.
OneToOne(matches) ==
    \A m, n \in matches : m.pair[1] = n.pair[1] \/ m.pair[2] = n.pair[2] => m = n

\* A candidate of rule k may complain of nothing: one of its transactions has
\* a match by a stronger rule, or one by this rule that comes before it.
Settled(k, book, source, matches, p) ==
    \E m \in matches :
        /\ m.pair[1] = p[1] \/ m.pair[2] = p[2]
        /\ \/ m.rule < k
           \/ m.rule = k /\ Beats(k, book, source, m.pair, p)

AllSettled(k, book, source, matches) ==
    \A p \in Candidates(k, book, source) : Settled(k, book, source, matches, p)

-----------------------------------------------------------------------------
(* Exceptions.                                                             *)

\* Timing is tried first and forgets the currency.
ClassOf_TimingFirst(t, pool) ==
    IF \E c \in pool : c.amount = t.amount /\ Distance(c.date, t.date) <= TimingWindow
    THEN "timing"
    ELSE IF \E c \in pool : c.amount = t.amount /\ c.currency # t.currency THEN "fx"
    ELSE IF \E c \in pool : Near(t, c, MismatchTol) /\ c.date = t.date THEN "mismatch"
    ELSE IF pool = {} THEN "missing" ELSE "unknown"

\* Days are counted in one direction only.
ClassOf_NoAbs(t, pool) ==
    IF \E c \in pool : c.amount = t.amount /\ c.currency # t.currency THEN "fx"
    ELSE IF \E c \in pool : Near(t, c, 0) /\ c.date - t.date \in 0 .. TimingWindow THEN "timing"
    ELSE IF \E c \in pool : Near(t, c, MismatchTol) /\ c.date = t.date THEN "mismatch"
    ELSE IF pool = {} THEN "missing" ELSE "unknown"

\* classify_exception: why t went unmatched, given the other side's leftovers.
ClassOf(t, pool) ==
    IF \E c \in pool : c.amount = t.amount /\ c.currency # t.currency THEN "fx"
    ELSE IF \E c \in pool : Near(t, c, 0) /\ Distance(c.date, t.date) <= TimingWindow THEN "timing"
    ELSE IF \E c \in pool : Near(t, c, MismatchTol) /\ c.date = t.date THEN "mismatch"
    ELSE IF pool = {} THEN "missing" ELSE "unknown"
=============================================================================
