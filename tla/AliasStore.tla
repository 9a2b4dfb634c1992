----------------------------- MODULE AliasStore -----------------------------
(***************************************************************************)
(* The alias store (datagents/tools/alias_store.py) under entity_alias_tool *)
(* (datagents/tools/normalization_tools.py): one store per process, shared  *)
(* by the sessions that normalize transactions in it, over an append-only   *)
(* log on disk that outlives the process.                                   *)
(*                                                                         *)
(* Sessions are threads.  A look-up, the model's answer, the assignment to  *)
(* the dictionary and the append to the file are separate steps.            *)
(***************************************************************************)
EXTENDS Naturals, Sequences, FiniteSetsExt

CONSTANTS Names, Answers, NoAnswer,
          Sessions,
          OldCache,    \* what a cache file of the old format holds
          FirstFiles,  \* the files the first process may find; a log is empty
          MaxCuts,     \* bound: writes cut short
          MaxCrashes   \* bound: process crashes

Caches == [Names -> Answers \cup {NoAnswer}]

ASSUME NameAssumption   == IsFiniteSet(Names)
ASSUME AnswerAssumption == NoAnswer \notin Answers
ASSUME OldAssumption    == OldCache \in Caches
ASSUME FileAssumption   == FirstFiles \subseteq {"none", "old", "log"}
ASSUME BoundAssumption  == MaxCuts \in Nat /\ MaxCrashes \in Nat

VARIABLES kind,     \* on disk: no file, one JSON object, or a log
          lines,    \* on disk: the lines of the log
          phase,    \* the process: down, migrating, rewriting, up or failed
          memory,   \* the process: the dictionary of the store
          session,  \* the process: where each session stands
          noted,    \* history: names whose set() has returned
          cuts,     \* history: appends cut short
          raced,    \* history: names two sessions resolved at once
          lost,     \* history: a crash or an error interrupted a migration
          crashes

vars == <<kind, lines, phase, memory, session, noted, raced, cuts, lost, crashes>>

\* A line of the log: a record that parses and ends ("whole"), parses but
\* lacks its newline ("open"), is a piece of one ("cut"), or what became of
\* two records on one line ("junk").
Lines == [name : Names, answer : Answers, form : {"whole", "open", "cut", "junk"}]
Idle  == [step |-> "idle"]
Steps == {Idle} \cup [step : {"asked"}, name : Names]
                \cup [step : {"writing"}, name : Names, answer : Answers]
Empty == [n \in Names |-> NoAnswer]

-----------------------------------------------------------------------------
(* The file format.  Definitions named X_... are faulty variants of X, no    *)
(* part of the specification.                                              *)

Parses(l) == l.form \in {"whole", "open"}

\* Loading keeps the last value of each key and passes over what does not
\* parse.
Replay(log) == [n \in Names |->
    LET at == {i \in DOMAIN log : log[i].name = n /\ Parses(log[i])}
    IN  IF at = {} THEN NoAnswer ELSE log[Max(at)].answer]

\* Without the early return for an empty file.
Loads_NotEmpty(log) == log # <<>> /\ Parses(log[1])

\* A log whose first line does not parse is taken for the old format, which it
\* is not: json.loads raises.
Loads(log) == log = <<>> \/ Parses(log[1])

\* Every write rewrites the file with this one line.
Appended_Rewrites(log, l) == <<l>>

\* What is appended to a line without its end lands on that line.
Appended(log, l) ==
    IF log # <<>> /\ log[Len(log)].form \in {"open", "cut"}
    THEN [log EXCEPT ![Len(log)].form = IF l.form = "whole" THEN "junk" ELSE "cut"]
    ELSE Append(log, l)

\* The log of a cache, in an order of its keys.
LogsOf(cache) ==
    LET known == {n \in Names : cache[n] # NoAnswer}
    IN  {log \in [1 .. Cardinality(known) -> {[name |-> n, answer |-> cache[n], form |-> "whole"] :
                                                 n \in known}] :
            \A n \in known : \E i \in DOMAIN log : log[i].name = n}

\* What there may be of it when its writing is interrupted: some lines, the
\* last of which may lack its end.
Piece(log, k, form) ==
    [i \in 1 .. k |-> IF i = k THEN [log[i] EXCEPT !.form = form] ELSE log[i]]
PiecesOf(cache) ==
    UNION {{Piece(log, k, form) : k \in 0 .. Len(log), form \in {"whole", "open", "cut"}} :
              log \in LogsOf(cache)}

-----------------------------------------------------------------------------
Init ==
    /\ kind    \in FirstFiles
    /\ lines   = <<>>
    /\ phase   = "down"
    /\ memory  = Empty
    /\ session = [s \in Sessions |-> Idle]
    /\ noted   = IF kind = "old" THEN {n \in Names : OldCache[n] # NoAnswer} ELSE {}
    /\ raced   = {}
    /\ cuts    = 0
    /\ lost    = FALSE
    /\ crashes = 0

\* AliasStore(): a log is replayed, an old file read for migration; a log that
\* does not load raises at import.
Start ==
    /\ phase = "down"
    /\ phase'  = CASE kind = "old" -> "migrating"
                   [] kind = "log" /\ ~Loads(lines) -> "failed"
                   [] OTHER -> "up"
    /\ memory' = CASE kind = "old" -> OldCache
                   [] kind = "log" /\ Loads(lines) -> Replay(lines)
                   [] OTHER -> Empty
    /\ UNCHANGED <<kind, lines, session, noted, raced, cuts, lost, crashes>>

\* _migrate_to_ndjson: write_text() truncates the file, then writes it.
Truncate ==
    /\ phase = "migrating"
    /\ phase' = "rewriting"
    /\ kind'  = "log"
    /\ lines' = <<>>
    /\ UNCHANGED <<memory, session, noted, raced, cuts, lost, crashes>>

Rewrite ==
    /\ phase = "rewriting"
    /\ phase' = "up"
    /\ lines' \in LogsOf(memory)
    /\ UNCHANGED <<kind, memory, session, noted, raced, cuts, lost, crashes>>

\* write_text() cannot open the file, or raises while it writes, and with it
\* AliasStore().
MigrationFails ==
    /\ \/ phase = "migrating" /\ UNCHANGED <<lines, lost>>
       \/ phase = "rewriting" /\ lines' \in PiecesOf(memory) /\ lost' = TRUE
    /\ phase'  = "failed"
    /\ memory' = Empty
    /\ UNCHANGED <<kind, session, noted, raced, cuts, crashes>>

\* Some session is between its miss of n and the end of its set().
Resolving(o, n) == session[o] # Idle /\ session[o].name = n

\* entity_alias_tool misses the cache and asks the model.  (A hit, a name in
\* the table, a name the injection guard flags and a run without a gateway
\* change nothing.)
Miss(s, n) ==
    /\ phase = "up" /\ session[s] = Idle
    /\ memory[n] = NoAnswer
    /\ session' = [session EXCEPT ![s] = [step |-> "asked", name |-> n]]
    /\ raced'   = IF \E o \in Sessions : Resolving(o, n) THEN raced \cup {n} ELSE raced
    /\ UNCHANGED <<kind, lines, phase, memory, noted, cuts, lost, crashes>>

\* set() without its assignment to the dictionary.
Answer_NotRemembered(s, a) ==
    /\ session[s].step = "asked"
    /\ session' = [session EXCEPT ![s] =
                      [step |-> "writing", name |-> session[s].name, answer |-> a]]
    /\ UNCHANGED <<kind, lines, phase, memory, noted, raced, cuts, lost, crashes>>

\* An empty answer is recorded as well.
Answer_Unchecked(s, a) ==
    /\ session[s].step = "asked"
    /\ memory'  = [memory EXCEPT ![session[s].name] = NoAnswer]
    /\ session' = [session EXCEPT ![s] =
                      [step |-> "writing", name |-> session[s].name, answer |-> NoAnswer]]
    /\ UNCHANGED <<kind, lines, phase, noted, raced, cuts, lost, crashes>>

\* The model answers and set() updates the dictionary.
Answer(s, a) ==
    /\ session[s].step = "asked"
    /\ memory'  = [memory EXCEPT ![session[s].name] = a]
    /\ session' = [session EXCEPT ![s] =
                      [step |-> "writing", name |-> session[s].name, answer |-> a]]
    /\ UNCHANGED <<kind, lines, phase, noted, raced, cuts, lost, crashes>>

\* generate() raises, out of the normalization: nothing is recorded.
NoReply(s) ==
    /\ session[s].step = "asked"
    /\ session' = [session EXCEPT ![s] = Idle]
    /\ UNCHANGED <<kind, lines, phase, memory, noted, raced, cuts, lost, crashes>>

LineOf(s, form) == [name |-> session[s].name, answer |-> session[s].answer, form |-> form]

\* set() appends its record and returns.
Write(s) ==
    /\ session[s].step = "writing"
    /\ kind'    = "log"
    /\ lines'   = Appended(lines, LineOf(s, "whole"))
    /\ session' = [session EXCEPT ![s] = Idle]
    /\ noted'   = noted \cup {session[s].name}
    /\ UNCHANGED <<phase, memory, raced, cuts, lost, crashes>>

\* The disk is full: part of the record is written, or none of it, and set()
\* raises.
WriteCut(s) ==
    /\ session[s].step = "writing" /\ cuts < MaxCuts
    /\ \/ UNCHANGED <<kind, lines>>
       \/ /\ kind' = "log"
          /\ \E form \in {"open", "cut"} : lines' = Appended(lines, LineOf(s, form))
    /\ session' = [session EXCEPT ![s] = Idle]
    /\ cuts'    = cuts + 1
    /\ UNCHANGED <<phase, memory, noted, raced, lost, crashes>>

\* The process dies.  A migration under way leaves what it had written.
Crash ==
    /\ phase # "down" /\ crashes < MaxCrashes
    /\ phase'   = "down"
    /\ memory'  = Empty
    /\ session' = [s \in Sessions |-> Idle]
    /\ \/ phase # "rewriting" /\ UNCHANGED <<lines, lost>>
       \/ phase = "rewriting" /\ lines' \in PiecesOf(memory) /\ lost' = TRUE
    /\ raced'   = {}
    /\ crashes' = crashes + 1
    /\ UNCHANGED <<kind, noted, cuts>>

Next ==
    \/ Start \/ Truncate \/ Rewrite \/ MigrationFails \/ Crash
    \/ \E s \in Sessions : \/ \E n \in Names : Miss(s, n)
                           \/ \E a \in Answers : Answer(s, a)
                           \/ NoReply(s) \/ Write(s) \/ WriteCut(s)

Spec == Init /\ [][Next]_vars

-----------------------------------------------------------------------------
(* Properties.                                                             *)

\* Every variable has its type.
TypeOK ==
    /\ kind    \in {"none", "old", "log"}
    /\ lines   \in Seq(Lines)
    /\ phase   \in {"down", "migrating", "rewriting", "up", "failed"}
    /\ memory  \in Caches
    /\ session \in [Sessions -> Steps]
    /\ noted   \subseteq Names
    /\ raced   \subseteq Names
    /\ cuts    \in Nat
    /\ lost    \in BOOLEAN
    /\ crashes \in Nat

Whole == cuts = 0 /\ ~lost

\* What a process that starts now would know; a migration under way has it in
\* memory.
Stored == CASE kind = "none"        -> Empty
            [] kind = "old"         -> OldCache
            [] phase = "rewriting"  -> memory
            [] OTHER                -> Replay(lines)

\* The store implements the durable map it promises.
Cache     == INSTANCE AliasCache WITH canonical <- Stored, whole <- Whole
CacheSpec == Cache!Spec

\* "a second run reads the cache instead of calling the LLM again": a miss in
\* memory is a miss on disk, over restarts, cut lines and migrations; the model
\* is not asked about a name the file knows.
MissIsAMiss ==
    phase = "up" => \A n \in Names : memory[n] = NoAnswer => Replay(lines)[n] = NoAnswer

\* A cut append costs the log at most one name whose set() had returned: the
\* one glued to it.
LossIsBounded ==
    ~lost /\ kind = "log" /\ phase # "rewriting"
       => Cardinality({n \in noted : Replay(lines)[n] = NoAnswer}) <= cuts

\* A log always loads, unless some write to it was cut short: an append, or the
\* migration that made it.
LoadsUnlessCut == phase = "failed" /\ kind = "log" => ~Whole

\* "keeping normalization deterministic and idempotent across runs"
\* (alias_store.py:5): a restart changes no answer the process gives.  It may
\* for a name that two sessions missed before either had recorded an answer:
\* the order of their assignments is not that of their lines.
RestartChangesNothing ==
    phase = "up" /\ Whole
       => \A n \in Names \ raced :
             (\A s \in Sessions : ~Resolving(s, n)) => memory[n] = Stored[n]
=============================================================================
