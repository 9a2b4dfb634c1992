----------------------------- MODULE AliasCache -----------------------------
(***************************************************************************)
(* What the alias store promises (datagents/tools/alias_store.py, lines 3   *)
(* to 22): a durable map from counterparty names to canonical names, which  *)
(* records one answer at a time and, as long as every write is whole,       *)
(* forgets none.                                                           *)
(***************************************************************************)
CONSTANTS Names,     \* counterparty names outside the built-in table
          Answers,   \* canonical names the model may give
          NoAnswer

VARIABLES canonical,  \* what a process that starts now would know
          whole       \* no write has been cut short yet

cacheVars == <<canonical, whole>>

Caches == [Names -> Answers \cup {NoAnswer}]

Init == canonical \in Caches /\ whole = TRUE

\* set(name, answer); a second answer for a name takes the place of the first.
Record(n, a) == /\ whole' = whole
                /\ canonical' = [canonical EXCEPT ![n] = a]

\* A write is cut short: from here on nothing is promised.
Damage == whole' = FALSE /\ canonical' \in Caches

Next == (\E n \in Names, a \in Answers : Record(n, a)) \/ Damage

Spec == Init /\ [][Next]_cacheVars
=============================================================================
