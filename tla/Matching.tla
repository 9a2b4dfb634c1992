------------------------------ MODULE Matching ------------------------------
(***************************************************************************)
(* run_match_subgraph (reasoning/match_subgraph.py) over one batch: the      *)
(* deterministic tools strongest first, each assigning its candidates       *)
(* greedily; then two nested loops put what is left to the language model,  *)
(* pair by pair; then the classification of the rest.                       *)
(*                                                                         *)
(* One step is one assignment of _greedy, one turn of a loop of             *)
(* semantic_match, or the end of a pass.                                    *)
(***************************************************************************)
EXTENDS MatchRules, Sequences, FiniteSets

CONSTANTS Ids,      \* transaction ids, numbered in their order as strings
          MaxTxns,  \* bound: transactions on one side
          Gateway   \* whether an LLM gateway is at hand

ASSUME IdAssumption      == Ids \subseteq Nat
ASSUME BoundAssumption   == MaxTxns \in Nat
ASSUME GatewayAssumption == Gateway \in BOOLEAN

VARIABLES book, source,  \* the batch, as two lists
          phase,
          cursor,        \* <<i, j>>: the loops of semantic_match are at book[i] and
                         \* source[j], or with j = 0 at the head of the outer one
          matches,
          refused,       \* pairs the model was asked about and did not match
          skipped,       \* pairs the injection guard kept from the model
          exceptions

vars == <<book, source, phase, cursor, matches, refused, skipped, exceptions>>

Entries   == [id : Ids, txn : Txns]
Lists     == UNION {[1 .. n -> Entries] : n \in 0 .. MaxTxns}
Positions == (1 .. MaxTxns) \X (1 .. MaxTxns)
Matches   == [pair : Positions, rule : Rules]
Types     == {"missing", "mismatch", "fx", "timing", "unknown"}

\* Positions left over: a match retires every transaction of its side that has
\* the id.
FreeBook   == {i \in DOMAIN book : \A m \in matches : book[m.pair[1]].id # book[i].id}
FreeSource == {j \in DOMAIN source : \A m \in matches : source[m.pair[2]].id # source[j].id}

\* The candidates of a rule that can still be assigned.
Open(k) == {p \in Candidates(k, book, source) : p[1] \in FreeBook /\ p[2] \in FreeSource}

-----------------------------------------------------------------------------
(* The deterministic tools.                                                *)

Init ==
    /\ book \in Lists /\ source \in Lists
    /\ phase      = Checking
    /\ cursor     = <<1, 0>>
    /\ matches    = {}
    /\ refused    = {}
    /\ skipped    = {}
    /\ exceptions = {}

\* No tool compares ids.
Check_Never ==
    /\ phase = Checking /\ phase' = Exact
    /\ UNCHANGED <<book, source, cursor, matches, refused, skipped, exceptions>>

\* exact_tool compares the ids of each side when neither is empty.
Check ==
    /\ phase = Checking
    /\ phase' = IF Accepted(book, source) THEN Exact ELSE Failed
    /\ UNCHANGED <<book, source, cursor, matches, refused, skipped, exceptions>>

\* Candidates in the order of their discovery.
Assign_AsDiscovered ==
    /\ phase \in Deterministic
    /\ \E p \in Open(phase) : matches' = matches \cup {[pair |-> p, rule |-> phase]}
    /\ UNCHANGED <<book, source, phase, cursor, refused, skipped, exceptions>>

\* _greedy assigns the best candidate with both ends unused.
Assign ==
    /\ phase \in Deterministic
    /\ \E p \in Open(phase) :
          /\ \A q \in Open(phase) : Beats(phase, book, source, p, q)
          /\ matches' = matches \cup {[pair |-> p, rule |-> phase]}
    /\ UNCHANGED <<book, source, phase, cursor, refused, skipped, exceptions>>

\* The tool is done; after the last one the model is asked if there is a
\* gateway and something left on both sides.
EndPass ==
    /\ phase \in Deterministic /\ Open(phase) = {}
    /\ phase' = IF phase # Fuzzy THEN phase + 1
                ELSE IF Gateway /\ FreeBook # {} /\ FreeSource # {} THEN Semantic
                ELSE Classifying
    /\ UNCHANGED <<book, source, cursor, matches, refused, skipped, exceptions>>

-----------------------------------------------------------------------------
(* The two loops of semantic_match.                                        *)

NextRow == <<cursor[1] + 1, 0>>
NextCol == <<cursor[1], cursor[2] + 1>>

InRow == phase = Semantic /\ cursor[2] > 0

\* The head of the outer loop: a book transaction in used_book is passed over.
NextBook ==
    /\ phase = Semantic /\ cursor[2] = 0 /\ cursor[1] \in DOMAIN book
    /\ cursor' = IF cursor[1] \in FreeBook THEN NextCol ELSE NextRow
    /\ UNCHANGED <<book, source, phase, matches, refused, skipped, exceptions>>

\* The pair at the cursor is of one currency and amount, its source unused.
Comparable ==
    /\ cursor[2] \in FreeSource
    /\ Near(book[cursor[1]].txn, source[cursor[2]].txn, SemanticTol)

\* The pair gets past the injection guard.
Asked == Comparable /\ Clean(book[cursor[1]].txn, source[cursor[2]].txn)

\* The head of the inner loop, and its early continues.
NextSource ==
    /\ InRow /\ ~Comparable
    /\ cursor' = IF cursor[2] \in DOMAIN source THEN NextCol ELSE NextRow
    /\ UNCHANGED <<book, source, phase, matches, refused, skipped, exceptions>>

\* A field looks like an instruction: the pair is left to a human.
Skip ==
    /\ InRow /\ Comparable /\ ~Asked
    /\ skipped' = skipped \cup {cursor}
    /\ cursor'  = NextCol
    /\ UNCHANGED <<book, source, phase, matches, refused, exceptions>>

\* The loop goes on after a match.
Judge_NoBreak ==
    /\ InRow /\ Asked
    /\ matches' = matches \cup {[pair |-> cursor, rule |-> Semantic]}
    /\ cursor'  = NextCol
    /\ UNCHANGED <<book, source, phase, refused, skipped, exceptions>>

\* The model says it is a match and is confident enough; break.
Judge ==
    /\ InRow /\ Asked
    /\ matches' = matches \cup {[pair |-> cursor, rule |-> Semantic]}
    /\ cursor'  = NextRow
    /\ UNCHANGED <<book, source, phase, refused, skipped, exceptions>>

\* One refusal ends the inner loop.
Refuse_Breaks ==
    /\ InRow /\ Asked
    /\ refused' = refused \cup {cursor}
    /\ cursor'  = NextRow
    /\ UNCHANGED <<book, source, phase, matches, skipped, exceptions>>

\* It says no, or is not confident enough.
Refuse ==
    /\ InRow /\ Asked
    /\ refused' = refused \cup {cursor}
    /\ cursor'  = NextCol
    /\ UNCHANGED <<book, source, phase, matches, skipped, exceptions>>

\* The gateway raises, or its answers never validate: the exception leaves
\* run_match_subgraph.
Raise ==
    /\ InRow /\ Asked
    /\ phase' = Failed
    /\ UNCHANGED <<book, source, cursor, matches, refused, skipped, exceptions>>

EndSemantic ==
    /\ phase = Semantic /\ cursor[2] = 0 /\ cursor[1] \notin DOMAIN book
    /\ phase' = Classifying
    /\ UNCHANGED <<book, source, cursor, matches, refused, skipped, exceptions>>

-----------------------------------------------------------------------------
\* exception_agent over the leftovers of both sides.
Classify ==
    /\ phase = Classifying
    /\ phase' = Done
    /\ LET leftBook   == {book[i].txn : i \in FreeBook}
           leftSource == {source[j].txn : j \in FreeSource}
       IN  exceptions' =
             {[side |-> "book", at |-> i, type |-> ClassOf(book[i].txn, leftSource)] : i \in FreeBook}
             \cup {[side |-> "source", at |-> j, type |-> ClassOf(source[j].txn, leftBook)] :
                      j \in FreeSource}
    /\ UNCHANGED <<book, source, cursor, matches, refused, skipped>>

Next ==
    \/ Check \/ Assign \/ EndPass
    \/ NextBook \/ NextSource \/ Skip \/ Judge \/ Refuse \/ Raise \/ EndSemantic
    \/ Classify

Spec == Init /\ [][Next]_vars

-----------------------------------------------------------------------------
(* Properties.                                                             *)

\* Every variable has its type.
TypeOK ==
    /\ book \in Lists /\ source \in Lists
    /\ phase \in Failed .. Done
    /\ matches \subseteq Matches
    /\ cursor \in (1 .. MaxTxns + 1) \X (0 .. MaxTxns + 1)
    /\ refused \subseteq Positions /\ skipped \subseteq Positions
    /\ exceptions \subseteq [side : {"book", "source"}, at : 1 .. MaxTxns, type : Types]

Status == IF phase = Failed THEN "failed" ELSE IF phase >= Classifying THEN "done" ELSE "running"
Result == IF phase >= Classifying THEN matches ELSE {}

\* "strongest-first", "greedy, best-first", "deterministic always wins": the
\* passes, the greedy loops and the model together end with a matching that no
\* eligible pair can improve on, and fail only over repeated ids or a model.
Promise     == INSTANCE StableMatching WITH status <- Status, result <- Result
PromiseSpec == Promise!Spec

\* No transaction disappears: when matching is over, each is in a match or
\* has exactly one exception, and not both (match_subgraph.py:58-77).  Matches
\* retire ids, so this needs the ids of a side to be unique.
NothingLost ==
    phase = Done =>
        /\ \A i \in DOMAIN book :
              i \in FreeBook <=> \E e \in exceptions : e.side = "book" /\ e.at = i
        /\ \A j \in DOMAIN source :
              j \in FreeSource <=> \E e \in exceptions : e.side = "source" /\ e.at = j
        /\ \A e, f \in exceptions : e.side = f.side /\ e.at = f.at => e = f
        /\ Cardinality(exceptions) + 2 * Cardinality(matches) = Len(book) + Len(source)

\* A pair of one currency and amount is left over on both sides only after the
\* model refused it or the injection guard kept it from the model, and the guard
\* keeps no other pair from it (semantic_match_agent.py:62-98): no break or
\* continue over one pair costs another its turn.
LeftoversWereAsked ==
    phase = Done /\ Gateway =>
        \A i \in FreeBook, j \in FreeSource :
            Near(book[i].txn, source[j].txn, SemanticTol) =>
                IF Clean(book[i].txn, source[j].txn) THEN <<i, j>> \in refused
                ELSE <<i, j>> \in skipped

\* What an exception points to is real: its evidence is a leftover of the other
\* side outside the tolerance tool's limits, or that tool would have matched
\* them (exception_agent.py:62-72 against matching_tools.py:170-176).
EvidenceIsBeyondTolerance ==
    \A e \in exceptions :
        LET t     == IF e.side = "book" THEN book[e.at].txn ELSE source[e.at].txn
            other == IF e.side = "book" THEN {source[j].txn : j \in FreeSource}
                     ELSE {book[i].txn : i \in FreeBook}
        IN  /\ e.type = "timing" =>
                  \E c \in other : /\ Near(t, c, 0)
                                   /\ Distance(t.date, c.date) \in Window + 1 .. TimingWindow
            /\ e.type = "mismatch" =>
                  \E c \in other : /\ t.currency = c.currency /\ t.date = c.date
                                   /\ Distance(t.amount, c.amount) \in Tol + 1 .. MismatchTol

\* Evidence is mutual (exception_agent.py:131-155 classifies each side against
\* the other): when a leftover of one side points to a counterpart,
\* some leftover of the other side does.
EvidenceIsMutual ==
    LET pointed == {e \in exceptions : e.type \in {"fx", "timing", "mismatch"}}
    IN  (\E e \in pointed : e.side = "book") <=> (\E e \in pointed : e.side = "source")
=============================================================================
