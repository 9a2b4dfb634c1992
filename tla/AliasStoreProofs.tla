-------------------------- MODULE AliasStoreProofs --------------------------
(***************************************************************************)
(* Proofs about AliasStore, for any names, answers, sessions, first files   *)
(* and bounds, and that it implements AliasCache.                           *)
(***************************************************************************)
EXTENDS AliasStore, FiniteSetTheorems, SequenceTheorems, TLAPS

-----------------------------------------------------------------------------
(* What a log says.                                                        *)

\* The lines of a log that tell about a name.
About(log, n) == {i \in DOMAIN log : log[i].name = n /\ Parses(log[i])}

\* Max of a non-empty set of positions is its last element.
LEMMA LastOf ==
    ASSUME NEW k \in Nat, NEW S \in SUBSET (1 .. k), S # {}
    PROVE  Max(S) \in S /\ \A x \in S : x <= Max(S)
<1> DEFINE T == {k - x : x \in S}
<1>1. T \subseteq Nat /\ T # {}
  <2>1. \A x \in 1 .. k : k - x \in Nat
    BY SMT
  <2>2. \A x \in S : k - x \in Nat
    BY <2>1
  <2>3. T \subseteq Nat
    BY <2>2
  <2> QED BY <2>3
<1>2. PICK d \in T : \A y \in T : <<y, d>> \notin OpToRel(<, Nat)
  BY <1>1, NatLessThanWellFounded, WFMin
<1>3. \A y \in T : ~(y < d)
  BY <1>1, <1>2 DEF OpToRel
<1>4. PICK m \in S : d = k - m
  BY <1>2
<1>5. \A x \in S : m >= x
  <2> SUFFICES ASSUME NEW x \in S PROVE m >= x
    OBVIOUS
  <2>1. ~(k - x < k - m)
    BY <1>3, <1>4
  <2>2. x \in Nat /\ m \in Nat
    OBVIOUS
  <2> HIDE DEF T
  <2> QED BY <2>1, <2>2, SMT
<1>6. Max(S) \in S /\ \A y \in S : Max(S) >= y
  BY <1>4, <1>5 DEF Max
<1> HIDE DEF T
<1>7. \A x \in S : x \in Nat
  OBVIOUS
<1> QED BY <1>6, <1>7

\* A name is given the answer of the last line about it.
LEMMA ReplayIs ==
    ASSUME NEW log \in Seq(Lines), NEW n \in Names
    PROVE  \/ About(log, n) = {} /\ Replay(log)[n] = NoAnswer
           \/ \E m \in About(log, n) : /\ \A i \in About(log, n) : i <= m
                                       /\ Replay(log)[n] = log[m].answer
<1>1. Replay(log)[n] = IF About(log, n) = {} THEN NoAnswer ELSE log[Max(About(log, n))].answer
  BY DEF Replay, About
<1>2. About(log, n) \in SUBSET (1 .. Len(log)) /\ Len(log) \in Nat
  BY DEF About
<1> QED BY <1>1, <1>2, LastOf

\* A line of a log has a name and an answer.
LEMMA LineType ==
    ASSUME NEW log \in Seq(Lines), NEW i \in DOMAIN log
    PROVE  log[i] \in Lines /\ log[i].name \in Names /\ log[i].answer \in Answers
<1>1. log[i] \in Lines
  OBVIOUS
<1> QED BY <1>1 DEF Lines

\* Replaying a log gives a cache.
LEMMA ReplayType ==
    ASSUME NEW log \in Seq(Lines)
    PROVE  Replay(log) \in Caches
<1>1. \A n \in Names : Replay(log)[n] \in Answers \cup {NoAnswer}
  BY ReplayIs, LineType DEF About
<1>2. Replay(log) = [n \in Names |-> Replay(log)[n]]
  BY DEF Replay
<1> QED BY <1>1, <1>2 DEF Caches

\* A record at the end of the log settles its name, and no other.
LEMMA ReplayAppend ==
    ASSUME NEW log \in Seq(Lines), NEW l \in Lines, Parses(l)
    PROVE  Replay(Append(log, l)) = [Replay(log) EXCEPT ![l.name] = l.answer]
<1> DEFINE more == Append(log, l)
<1>1. /\ more \in Seq(Lines) /\ Len(log) \in Nat /\ DOMAIN more = 1 .. Len(log) + 1
      /\ more[Len(log) + 1] = l /\ \A i \in DOMAIN log : more[i] = log[i] /\ i <= Len(log)
      /\ DOMAIN log = 1 .. Len(log)
  OBVIOUS
<1> HIDE DEF more
<1>2. SUFFICES ASSUME NEW n \in Names
               PROVE  Replay(more)[n] = IF n = l.name THEN l.answer ELSE Replay(log)[n]
  BY DEF Replay, more
<1>3. CASE n = l.name
  <2>1. Len(log) + 1 \in About(more, n)
    BY <1>1, <1>3 DEF About
  <2>2. PICK m \in About(more, n) : /\ \A i \in About(more, n) : i <= m
                                    /\ Replay(more)[n] = more[m].answer
    BY <1>1, <2>1, ReplayIs
  <2>3. m \in 1 .. Len(log) + 1 /\ Len(log) + 1 <= m
    BY <1>1, <2>1, <2>2 DEF About
  <2>4. m = Len(log) + 1
    BY <1>1, <2>3
  <2> QED BY <1>1, <1>3, <2>2, <2>4
<1>4. CASE n # l.name
  <2>1. \A i \in DOMAIN more : i # Len(log) + 1 => i \in DOMAIN log
    BY <1>1
  <2>2. About(more, n) = About(log, n)
    BY <1>1, <1>4, <2>1 DEF About
  <2>3. CASE About(log, n) = {}
    BY <1>1, <1>4, <2>2, <2>3, ReplayIs
  <2>4. CASE About(log, n) # {}
    <3>1. PICK m \in About(log, n) : /\ \A i \in About(log, n) : i <= m
                                     /\ Replay(log)[n] = log[m].answer
      BY <2>4, ReplayIs
    <3>2. PICK p \in About(log, n) : /\ \A i \in About(log, n) : i <= p
                                     /\ Replay(more)[n] = more[p].answer
      BY <1>1, <2>2, <2>4, ReplayIs
    <3>3. m \in DOMAIN log /\ p \in DOMAIN log /\ m <= p /\ p <= m
      BY <3>1, <3>2 DEF About
    <3>4. m = p
      BY <1>1, <3>3
    <3> QED BY <1>1, <1>4, <3>1, <3>2, <3>3, <3>4
  <2> QED BY <2>3, <2>4
<1> QED BY <1>3, <1>4

\* The log written for a cache says what the cache says.
LEMMA LogsOfSay ==
    ASSUME NEW cache \in Caches, NEW log \in LogsOf(cache)
    PROVE  /\ log \in Seq(Lines) /\ Replay(log) = cache
           /\ \A i \in DOMAIN log : /\ log[i].form = "whole"
                                    /\ cache[log[i].name] # NoAnswer
<1> DEFINE known == {n \in Names : cache[n] # NoAnswer}
           R == {[name |-> n, answer |-> cache[n], form |-> "whole"] : n \in known}
<1>1. Cardinality(known) \in Nat
  BY NameAssumption, FS_Subset, FS_CardinalityType
<1>2. log \in [1 .. Cardinality(known) -> R] /\ \A n \in known : \E i \in DOMAIN log : log[i].name = n
  BY DEF LogsOf
<1>3. R \subseteq Lines
  BY DEF Lines, Caches
<1>4. log \in Seq(Lines)
  <2>1. log \in [1 .. Cardinality(known) -> Lines]
    <3> HIDE DEF R, known
    <3> QED BY <1>2, <1>3
  <2> HIDE DEF known
  <2>2. \A c \in Nat : \A f \in [1 .. c -> Lines] : f \in Seq(Lines)
    OBVIOUS
  <2> QED BY <1>1, <2>1, <2>2
<1>5. \A i \in DOMAIN log : /\ log[i].form = "whole" /\ log[i].name \in known
                            /\ log[i].answer = cache[log[i].name]
  BY <1>2
<1>6. \A n \in Names : Replay(log)[n] = cache[n]
  <2> SUFFICES ASSUME NEW n \in Names PROVE Replay(log)[n] = cache[n]
    OBVIOUS
  <2>1. CASE About(log, n) = {}
    <3>1. n \notin known
      BY <1>2, <1>5, <2>1 DEF About, Parses
    <3> QED BY <1>4, <2>1, <3>1, ReplayIs
  <2>2. CASE About(log, n) # {}
    <3>1. PICK m \in About(log, n) : Replay(log)[n] = log[m].answer
      BY <1>4, <2>2, ReplayIs
    <3> QED BY <1>5, <3>1 DEF About
  <2> QED BY <2>1, <2>2
<1>7. Replay(log) = cache
  BY <1>6 DEF Replay, Caches
<1> QED BY <1>4, <1>5, <1>7

\* A piece of such a log is a log.
LEMMA PiecesAreLogs ==
    ASSUME NEW cache \in Caches, NEW log \in PiecesOf(cache)
    PROVE  log \in Seq(Lines)
<1>0. PICK all \in LogsOf(cache) :
          \E k \in 0 .. Len(all), form \in {"whole", "open", "cut"} : log = Piece(all, k, form)
  BY DEF PiecesOf
<1>1. PICK k \in 0 .. Len(all), form \in {"whole", "open", "cut"} : log = Piece(all, k, form)
  BY <1>0
<1>2. all \in Seq(Lines) /\ Len(all) \in Nat
  BY LogsOfSay
<1>3. \A i \in 1 .. k : all[i] \in Lines
  BY <1>2
<1>4. \A l \in Lines : [l EXCEPT !.form = form] \in Lines
  BY DEF Lines
<1>5. log \in [1 .. k -> Lines]
  BY <1>1, <1>3, <1>4 DEF Piece
<1>6. k \in Nat
  BY <1>2
<1> QED BY <1>5, <1>6

\* Appending keeps a log a log.  What parses afterwards parsed before, or is
\* about the new record's name.
LEMMA AppendedType ==
    ASSUME NEW log \in Seq(Lines), NEW l \in Lines
    PROVE  /\ Appended(log, l) \in Seq(Lines)
           /\ \A i \in DOMAIN Appended(log, l) :
                 Parses(Appended(log, l)[i])
                    => \/ Appended(log, l)[i].name = l.name
                       \/ i \in DOMAIN log /\ log[i] = Appended(log, l)[i]
<1>1. CASE log # <<>> /\ log[Len(log)].form \in {"open", "cut"}
  <2> DEFINE k == Len(log)
             form == IF l.form = "whole" THEN "junk" ELSE "cut"
             more == [log EXCEPT ![k].form = form]
  <2>1. Appended(log, l) = more
    BY <1>1 DEF Appended
  <2>2. k \in DOMAIN log /\ log[k] \in Lines
    BY <1>1
  <2>3. [log[k] EXCEPT !.form = form] \in Lines /\ [log[k] EXCEPT !.form = form].form = form
    BY <2>2 DEF Lines
  <2>4. /\ DOMAIN more = DOMAIN log /\ more \in Seq(Lines)
        /\ \A i \in DOMAIN log : i # k => more[i] = log[i]
        /\ more[k] = [log[k] EXCEPT !.form = form]
    BY <2>2, <2>3
  <2>5. ~Parses(more[k])
    BY <2>3, <2>4 DEF Parses
  <2> QED BY <2>1, <2>4, <2>5
<1>2. CASE ~(log # <<>> /\ log[Len(log)].form \in {"open", "cut"})
  <2>1. Appended(log, l) = Append(log, l)
    BY <1>2 DEF Appended
  <2>2. /\ Append(log, l) \in Seq(Lines)
        /\ \A i \in DOMAIN Append(log, l) : \/ Append(log, l)[i] = l
                                            \/ i \in DOMAIN log /\ Append(log, l)[i] = log[i]
    OBVIOUS
  <2> QED BY <2>1, <2>2
<1> QED BY <1>1, <1>2

\* A log of whole lines has no line to damage.
LEMMA AppendedWhole ==
    ASSUME NEW log \in Seq(Lines), \A i \in DOMAIN log : log[i].form = "whole",
           NEW l \in Lines
    PROVE  Appended(log, l) = Append(log, l)
<1>1. log # <<>> => Len(log) \in DOMAIN log
  OBVIOUS
<1> QED BY <1>1 DEF Appended

-----------------------------------------------------------------------------
(* The invariant.                                                          *)

\* What each phase knows.
Phases ==
    /\ kind # "log" => lines = <<>>
    /\ phase = "migrating" => kind = "old" /\ memory = OldCache
    /\ phase = "rewriting" => kind = "log"
    /\ phase = "up" => kind # "old"
    /\ phase = "failed" /\ kind = "log" => lost \/ ~Loads(lines)
    /\ phase # "up" => \A s \in Sessions : session[s] = Idle

WholeLines == Whole => \A i \in DOMAIN lines : lines[i].form = "whole"

\* What the log knows, the dictionary knows.
LogIsKnown ==
    phase = "up" => \A i \in DOMAIN lines : Parses(lines[i]) => memory[lines[i].name] # NoAnswer

\* A session about to append has what it appends in the dictionary.
WritesAreKnown ==
    \A s \in Sessions : session[s].step = "writing" =>
        /\ memory[session[s].name] # NoAnswer
        /\ session[s].name \notin raced => memory[session[s].name] = session[s].answer

\* Unless two raced for it, a name is resolved by one session at a time.
OneEach ==
    \A n \in Names \ raced : \A s, o \in Sessions : Resolving(s, n) /\ Resolving(o, n) => s = o

\* Dictionary and log agree on every name nobody is about to append.
Pending(n) == \E s \in Sessions : session[s].step = "writing" /\ session[s].name = n
Agree ==
    phase = "up" /\ Whole =>
        \A n \in Names \ raced : ~Pending(n) => memory[n] = Replay(lines)[n]

IInv == TypeOK /\ Phases /\ WholeLines /\ LogIsKnown /\ WritesAreKnown /\ OneEach /\ Agree

-----------------------------------------------------------------------------
(* Sessions.                                                               *)

\* The idle step is a step.
LEMMA IdleIs == Idle.step = "idle" /\ Idle \in Steps
  BY DEF Idle, Steps

\* A session that has asked has a name, and is not idle.
LEMMA AskedIs ==
    ASSUME TypeOK, NEW s \in Sessions, session[s].step = "asked"
    PROVE  session[s].name \in Names /\ session[s] # Idle
<1>1. session[s] \in Steps
  BY DEF TypeOK
<1> QED BY <1>1, IdleIs DEF Steps

\* A session that is writing has a name and an answer, and is not idle.
LEMMA WritingIs ==
    ASSUME TypeOK, NEW s \in Sessions, session[s].step = "writing"
    PROVE  session[s].name \in Names /\ session[s].answer \in Answers /\ session[s] # Idle
<1>1. session[s] \in Steps
  BY DEF TypeOK
<1> QED BY <1>1, IdleIs DEF Steps

\* Only while the store is up do sessions stand anywhere.
LEMMA BusyIsUp ==
    ASSUME TypeOK, Phases, NEW s \in Sessions, session[s] # Idle
    PROVE  phase = "up" /\ kind # "old"
  BY DEF Phases

\* What a session writes is a line with its name and its answer.
LEMMA LineOfType ==
    ASSUME TypeOK, NEW s \in Sessions, session[s].step = "writing",
           NEW form \in {"whole", "open", "cut"}
    PROVE  LineOf(s, form) \in Lines /\ LineOf(s, form).name = session[s].name
           /\ LineOf(s, form).answer = session[s].answer /\ LineOf(s, form).form = form
  BY WritingIs DEF LineOf, Lines

\* An empty log replays to an empty cache.
LEMMA EmptyType == Empty \in Caches /\ <<>> \in Seq(Lines) /\ Replay(<<>>) = Empty
  BY DEF Empty, Caches, Replay

\* The invariant holds before the first process starts.
LEMMA InvInit == Init => IInv
<1> SUFFICES ASSUME Init PROVE IInv
  OBVIOUS
<1>1. TypeOK
  BY FileAssumption, EmptyType, IdleIs DEF Init, TypeOK
<1>2. Phases
  BY DEF Init, Phases
<1>3. WholeLines /\ LogIsKnown /\ Agree
  BY DEF Init, WholeLines, LogIsKnown, Agree
<1>4. WritesAreKnown /\ OneEach
  BY IdleIs DEF Init, WritesAreKnown, OneEach, Resolving
<1> QED BY <1>1, <1>2, <1>3, <1>4 DEF IInv

\* While nobody is in the store, nothing is pending and nobody resolves.
LEMMA QuietInv ==
    ASSUME \A s \in Sessions : session'[s] = Idle
    PROVE  WritesAreKnown' /\ OneEach' /\ \A n : ~Pending(n)'
  BY IdleIs DEF WritesAreKnown, OneEach, Resolving, Pending

\* Starting a process preserves the invariant: it replays the log it finds.
LEMMA InvStart == IInv /\ Start => IInv'
<1> SUFFICES ASSUME IInv, Start PROVE IInv'
  OBVIOUS
<1>1. TypeOK /\ Phases /\ lines \in Seq(Lines)
  BY DEF IInv, TypeOK
<1>2. \A s \in Sessions : session[s] = Idle /\ session'[s] = Idle
  BY <1>1 DEF Phases, Start
<1>3. /\ kind' = kind /\ lines' = lines /\ cuts' = cuts /\ raced' = raced /\ lost' = lost
      /\ kind \in {"none", "old", "log"}
      /\ kind = "old" => phase' = "migrating" /\ memory' = OldCache
      /\ kind = "log" /\ ~Loads(lines) => phase' = "failed" /\ memory' = Empty
      /\ kind = "log" /\ Loads(lines) => phase' = "up" /\ memory' = Replay(lines)
      /\ kind = "none" => phase' = "up" /\ memory' = Empty
  BY <1>1 DEF Start, TypeOK
<1>4. TypeOK'
  <2>1. memory' \in Caches
    BY <1>1, <1>3, OldAssumption, EmptyType, ReplayType
  <2>2. phase' \in {"down", "migrating", "rewriting", "up", "failed"}
    BY <1>3
  <2> QED BY <1>1, <2>1, <2>2 DEF Start, TypeOK
<1>5. phase' = "up" => memory' = Replay(lines)
  BY <1>1, <1>3, EmptyType DEF Phases
<1>6. Phases'
  BY <1>1, <1>2, <1>3 DEF Phases, Loads
<1>7. WholeLines'
  BY <1>3 DEF IInv, WholeLines, Whole
<1>8. LogIsKnown'
  <2> SUFFICES ASSUME phase' = "up", NEW i \in DOMAIN lines, Parses(lines[i])
               PROVE  memory'[lines[i].name] # NoAnswer
    BY <1>3 DEF LogIsKnown
  <2>1. i \in About(lines, lines[i].name) /\ lines[i].name \in Names
    BY <1>1, LineType DEF About
  <2>2. PICK m \in About(lines, lines[i].name) :
           Replay(lines)[lines[i].name] = lines[m].answer
    BY <1>1, <2>1, ReplayIs
  <2>3. lines[m].answer \in Answers
    BY <1>1, LineType DEF About
  <2> QED BY <1>5, <2>2, <2>3, AnswerAssumption
<1>9. Agree'
  BY <1>3, <1>5 DEF Agree
<1> QED BY <1>2, <1>4, <1>6, <1>7, <1>8, <1>9, QuietInv DEF IInv

\* So do both halves of a migration.
LEMMA InvMigrate == IInv /\ (Truncate \/ Rewrite) => IInv'
<1> SUFFICES ASSUME IInv, Truncate \/ Rewrite PROVE IInv'
  OBVIOUS
<1>1. TypeOK /\ Phases
  BY DEF IInv
<1>2. \A s \in Sessions : session'[s] = Idle
  BY <1>1 DEF Phases, Truncate, Rewrite
<1>3. CASE Truncate
  BY <1>1, <1>2, <1>3, QuietInv, EmptyType
  DEF IInv, Truncate, TypeOK, Phases, WholeLines, LogIsKnown, Agree
<1>4. CASE Rewrite
  <2>1. /\ lines' \in LogsOf(memory) /\ memory' = memory /\ memory \in Caches /\ phase' = "up"
        /\ kind' = "log"
    BY <1>1, <1>4 DEF Rewrite, TypeOK, Phases
  <2>2. /\ lines' \in Seq(Lines) /\ Replay(lines') = memory
        /\ \A i \in DOMAIN lines' : /\ lines'[i].form = "whole"
                                    /\ memory[lines'[i].name] # NoAnswer
    BY <2>1, LogsOfSay
  <2>3. TypeOK'
    BY <1>1, <1>4, <2>2 DEF Rewrite, TypeOK
  <2>4. Phases'
    BY <1>2, <2>1 DEF Phases
  <2>5. WholeLines' /\ LogIsKnown' /\ Agree'
    BY <2>1, <2>2 DEF WholeLines, LogIsKnown, Agree
  <2> QED BY <1>2, <2>3, <2>4, <2>5, QuietInv DEF IInv
<1> QED BY <1>3, <1>4

\* So does a migration that fails: the store is not up, and if the file was
\* touched its lines count as damaged.
LEMMA InvMigrationFails == IInv /\ MigrationFails => IInv'
<1> SUFFICES ASSUME IInv, MigrationFails PROVE IInv'
  OBVIOUS
<1>1. TypeOK /\ Phases /\ memory \in Caches
  BY DEF IInv, TypeOK
<1>2. /\ phase \in {"migrating", "rewriting"} /\ phase' = "failed" /\ memory' = Empty
      /\ UNCHANGED <<kind, session, noted, raced, cuts, crashes>>
  BY DEF MigrationFails
<1>3. \A s \in Sessions : session[s] = Idle /\ session'[s] = Idle
  BY <1>1, <1>2 DEF Phases
<1>4. \/ phase = "migrating" /\ UNCHANGED <<lines, lost>>
      \/ phase = "rewriting" /\ lines' \in PiecesOf(memory) /\ lost' = TRUE
  BY DEF MigrationFails
<1>5. lines' \in Seq(Lines) /\ lost' \in BOOLEAN
  BY <1>1, <1>4, PiecesAreLogs DEF TypeOK
<1>6. TypeOK'
  BY <1>1, <1>2, <1>5, EmptyType DEF TypeOK
<1>7. Phases'
  BY <1>1, <1>2, <1>3, <1>4 DEF Phases
<1>8. WholeLines'
  <2>1. CASE UNCHANGED <<lines, lost>>
    BY <1>2, <2>1 DEF IInv, WholeLines, Whole
  <2>2. CASE lost' = TRUE
    BY <2>2 DEF WholeLines, Whole
  <2> QED BY <1>4, <2>1, <2>2
<1>9. LogIsKnown' /\ Agree'
  BY <1>2 DEF LogIsKnown, Agree
<1> QED BY <1>3, <1>6, <1>7, <1>8, <1>9, QuietInv DEF IInv

\* So does a look-up that misses.
LEMMA InvMiss ==
    ASSUME IInv, NEW s \in Sessions, NEW n \in Names, Miss(s, n)
    PROVE  IInv'
<1> DEFINE asked == [step |-> "asked", name |-> n]
<1>1. TypeOK /\ asked \in Steps /\ asked # Idle /\ asked.step = "asked"
  BY IdleIs DEF IInv, Steps
<1>2. /\ phase = "up" /\ session[s] = Idle /\ session' = [session EXCEPT ![s] = asked]
      /\ raced' = IF \E o \in Sessions : Resolving(o, n) THEN raced \cup {n} ELSE raced
      /\ UNCHANGED <<kind, lines, phase, memory, noted, cuts, lost, crashes>>
  BY DEF Miss
<1>3. session'[s] = asked /\ \A o \in Sessions \ {s} : session'[o] = session[o]
  BY <1>1, <1>2 DEF TypeOK
<1> HIDE DEF asked
<1>4. TypeOK'
  BY <1>1, <1>2 DEF TypeOK
<1>5. Phases'
  BY <1>2 DEF IInv, Phases
<1>6. WholeLines' /\ LogIsKnown'
  BY <1>2 DEF IInv, WholeLines, LogIsKnown, Whole
<1>7. WritesAreKnown'
  BY <1>1, <1>2, <1>3 DEF IInv, WritesAreKnown
<1>8. OneEach'
  <2> SUFFICES ASSUME NEW m \in Names \ raced', NEW p \in Sessions, NEW o \in Sessions,
                      Resolving(p, m)', Resolving(o, m)'
               PROVE  p = o
    BY DEF OneEach
  <2>1. m \notin raced
    BY <1>2
  <2>2. asked.name = n
    BY DEF asked
  <2>3. CASE p # s /\ o # s
    BY <1>3, <2>1, <2>3 DEF Resolving, IInv, OneEach
  <2>4. CASE p # s /\ o = s
    <3>1. m = n /\ Resolving(p, n)
      BY <1>3, <2>2, <2>4 DEF Resolving
    <3> QED BY <1>2, <3>1
  <2>5. CASE p = s /\ o # s
    <3>1. m = n /\ Resolving(o, n)
      BY <1>3, <2>2, <2>5 DEF Resolving
    <3> QED BY <1>2, <3>1
  <2> QED BY <2>3, <2>4, <2>5
<1>9. Agree'
  <2>1. \A m : Pending(m)' <=> Pending(m)
    BY <1>1, <1>2, <1>3, IdleIs DEF Pending
  <2> QED BY <1>2, <2>1 DEF IInv, Agree, Whole
<1> QED BY <1>4, <1>5, <1>6, <1>7, <1>8, <1>9 DEF IInv

\* So does an answer, which is in memory before it is in the log.
LEMMA InvAnswer ==
    ASSUME IInv, NEW s \in Sessions, NEW a \in Answers, Answer(s, a)
    PROVE  IInv'
<1>1. TypeOK /\ Phases /\ session[s].name \in Names /\ session[s] # Idle
  BY AskedIs DEF IInv, Answer
<1>0. PICK n \in Names : n = session[s].name
  BY <1>1
<1> DEFINE writing == [step |-> "writing", name |-> n, answer |-> a]
<1>2. writing \in Steps /\ writing # Idle
  BY <1>1, IdleIs DEF Steps
<1>3. /\ memory' = [memory EXCEPT ![n] = a] /\ session' = [session EXCEPT ![s] = writing]
      /\ UNCHANGED <<kind, lines, phase, noted, raced, cuts, lost, crashes>>
  BY <1>0 DEF Answer
<1>4. /\ session'[s] = writing /\ \A o \in Sessions \ {s} : session'[o] = session[o]
      /\ memory'[n] = a /\ \A m \in Names \ {n} : memory'[m] = memory[m]
  BY <1>1, <1>2, <1>3 DEF TypeOK, Caches
<1>5. phase = "up"
  BY <1>1, BusyIsUp
<1>6. writing.name = n /\ writing.answer = a /\ writing.step = "writing"
  OBVIOUS
<1> HIDE DEF writing
<1>7. TypeOK'
  BY <1>1, <1>2, <1>3 DEF TypeOK, Caches
<1>8. Phases'
  BY <1>1, <1>3, <1>5 DEF Phases
<1>9. WholeLines'
  BY <1>3 DEF IInv, WholeLines, Whole
<1>10. LogIsKnown'
  <2> SUFFICES ASSUME NEW i \in DOMAIN lines, Parses(lines[i])
               PROVE  memory'[lines[i].name] # NoAnswer
    BY <1>3 DEF LogIsKnown
  <2>1. lines[i].name \in Names
    BY <1>1, LineType DEF TypeOK
  <2> QED BY <1>4, <1>5, <2>1, AnswerAssumption DEF IInv, LogIsKnown
<1>11. WritesAreKnown'
  <2> SUFFICES ASSUME NEW o \in Sessions, session'[o].step = "writing"
               PROVE  /\ memory'[session'[o].name] # NoAnswer
                      /\ session'[o].name \notin raced
                            => memory'[session'[o].name] = session'[o].answer
    BY <1>3 DEF WritesAreKnown
  <2>1. CASE o = s
    BY <1>4, <1>6, <2>1, AnswerAssumption
  <2>2. CASE o # s
    <3>1. session'[o] = session[o] /\ session[o].name \in Names /\ session[o] # Idle
      BY <1>1, <1>4, <2>2, WritingIs
    <3>2. CASE session[o].name # n
      BY <1>4, <3>1, <3>2 DEF IInv, WritesAreKnown
    <3>3. CASE session[o].name = n
      <4>1. Resolving(o, n) /\ Resolving(s, n)
        BY <1>0, <1>1, <3>1, <3>3 DEF Resolving
      <4>2. n \in raced
        BY <1>1, <2>2, <4>1 DEF IInv, OneEach
      <4> QED BY <1>4, <3>1, <3>3, <4>2, AnswerAssumption
    <3> QED BY <3>2, <3>3
  <2> QED BY <2>1, <2>2
<1>12. OneEach'
  <2>1. \A o \in Sessions, m \in Names : Resolving(o, m)' => Resolving(o, m)
    BY <1>0, <1>1, <1>4, <1>6 DEF Resolving
  <2> QED BY <1>3, <2>1 DEF IInv, OneEach
<1>13. Agree'
  <2>1. \A m \in Names : ~Pending(m)' => m # n /\ ~Pending(m)
    <3>1. Pending(n)'
      BY <1>4, <1>6 DEF Pending
    <3>2. session[s].step # "writing"
      BY DEF Answer
    <3> QED BY <1>4, <3>1, <3>2 DEF Pending
  <2> QED BY <1>3, <1>4, <2>1 DEF IInv, Agree, Whole
<1> QED BY <1>7, <1>8, <1>9, <1>10, <1>11, <1>12, <1>13 DEF IInv

\* A session that leaves the store takes nothing with it.
LEMMA LeaveInv ==
    ASSUME IInv, NEW s \in Sessions, session' = [session EXCEPT ![s] = Idle],
           UNCHANGED <<memory, raced>>
    PROVE  /\ WritesAreKnown' /\ OneEach' /\ session' \in [Sessions -> Steps]
           /\ \A m : Pending(m) /\ m # session[s].name => Pending(m)'
<1>1. session'[s] = Idle /\ \A o \in Sessions \ {s} : session'[o] = session[o]
  BY DEF IInv, TypeOK
<1> QED BY <1>1, IdleIs DEF IInv, TypeOK, WritesAreKnown, OneEach, Resolving, Pending

\* So does a model that raises: the session had nothing pending.
LEMMA InvNoReply ==
    ASSUME IInv, NEW s \in Sessions, NoReply(s)
    PROVE  IInv'
<1>1. /\ session[s].step = "asked" /\ session' = [session EXCEPT ![s] = Idle]
      /\ UNCHANGED <<kind, lines, phase, memory, noted, raced, cuts, lost, crashes>>
  BY DEF NoReply
<1>2. WritesAreKnown' /\ OneEach' /\ session' \in [Sessions -> Steps]
  BY <1>1, LeaveInv
<1>3. TypeOK' /\ Phases'
  BY <1>1, <1>2 DEF IInv, TypeOK, Phases
<1>4. WholeLines' /\ LogIsKnown'
  BY <1>1 DEF IInv, WholeLines, LogIsKnown, Whole
<1>5. \A m : Pending(m) => Pending(m)'
  BY <1>1 DEF Pending, IInv, TypeOK
<1>6. Agree'
  BY <1>1, <1>5 DEF IInv, Agree, Whole
<1> QED BY <1>2, <1>3, <1>4, <1>6 DEF IInv

\* Appending a line whose name memory knows leaves the log known to memory.
LEMMA LogIsKnownAfter ==
    ASSUME IInv, phase = "up", NEW l \in Lines, memory[l.name] # NoAnswer,
           lines' = Appended(lines, l), UNCHANGED <<phase, memory>>
    PROVE  LogIsKnown'
<1> SUFFICES ASSUME NEW i \in DOMAIN lines', Parses(lines'[i])
             PROVE  memory[lines'[i].name] # NoAnswer
  BY DEF LogIsKnown
<1>1. lines'[i].name = l.name \/ (i \in DOMAIN lines /\ lines[i] = lines'[i])
  BY AppendedType DEF IInv, TypeOK
<1> QED BY <1>1 DEF IInv, LogIsKnown

\* A whole append preserves the invariant: the last line of a name is then what
\* memory holds, unless two sessions raced.
LEMMA InvWrite ==
    ASSUME IInv, NEW s \in Sessions, Write(s)
    PROVE  IInv'
<1> DEFINE l == LineOf(s, "whole")
<1>1. TypeOK /\ Phases /\ lines \in Seq(Lines) /\ session[s].step = "writing"
  BY DEF IInv, TypeOK, Write
<1>2. /\ l \in Lines /\ l.name = session[s].name /\ l.answer = session[s].answer
      /\ l.form = "whole" /\ l.name \in Names
  BY <1>1, LineOfType, WritingIs
<1>3. phase = "up"
  BY <1>1, BusyIsUp, WritingIs
<1>4. /\ lines' = Appended(lines, l) /\ kind' = "log" /\ session' = [session EXCEPT ![s] = Idle]
      /\ noted' = noted \cup {session[s].name}
      /\ UNCHANGED <<phase, memory, raced, cuts, lost, crashes>>
  BY DEF Write
<1> HIDE DEF l
<1>5. TypeOK'
  BY <1>1, <1>2, <1>4, AppendedType, LeaveInv DEF TypeOK
<1>6. Phases'
  BY <1>3, <1>4 DEF Phases
<1>7. Whole => lines' = Append(lines, l)
  BY <1>1, <1>2, <1>4, AppendedWhole DEF IInv, WholeLines
<1>8. WholeLines'
  <2>1. \A i \in DOMAIN Append(lines, l) :
           Append(lines, l)[i] = l \/ (i \in DOMAIN lines /\ Append(lines, l)[i] = lines[i])
    BY <1>1
  <2> QED BY <1>2, <1>4, <1>7, <2>1 DEF IInv, WholeLines, Whole
<1>9. LogIsKnown'
  BY <1>1, <1>2, <1>3, <1>4, LogIsKnownAfter DEF IInv, WritesAreKnown
<1>10. Agree'
  <2> SUFFICES ASSUME Whole, NEW m \in Names \ raced, ~Pending(m)'
               PROVE  memory[m] = Replay(lines')[m]
    BY <1>4 DEF Agree, Whole
  <2>1. Replay(lines') = [Replay(lines) EXCEPT ![l.name] = l.answer]
    BY <1>1, <1>2, <1>7, ReplayAppend DEF Parses
  <2>2. Replay(lines) \in Caches
    BY <1>1, ReplayType
  <2>3. CASE m = l.name
    BY <1>1, <1>2, <2>1, <2>2, <2>3 DEF IInv, WritesAreKnown, Caches
  <2>4. CASE m # l.name
    <3>1. ~Pending(m)
      BY <1>2, <1>4, <2>4, LeaveInv
    <3> QED BY <1>3, <2>1, <2>2, <2>4, <3>1 DEF IInv, Agree, Caches
  <2> QED BY <2>3, <2>4
<1> QED BY <1>4, <1>5, <1>6, <1>8, <1>9, <1>10, LeaveInv DEF IInv

\* An append cut short does; from here on the log is not whole.
LEMMA InvWriteCut ==
    ASSUME IInv, NEW s \in Sessions, WriteCut(s)
    PROVE  IInv'
<1>1. TypeOK /\ Phases /\ lines \in Seq(Lines) /\ session[s].step = "writing"
  BY DEF IInv, TypeOK, WriteCut
<1>2. phase = "up" /\ kind # "old"
  BY <1>1, BusyIsUp, WritingIs
<1>3. /\ session' = [session EXCEPT ![s] = Idle] /\ cuts' = cuts + 1 /\ cuts \in Nat
      /\ UNCHANGED <<phase, memory, noted, raced, lost, crashes>>
  BY <1>1 DEF WriteCut, TypeOK
<1>4. cuts' # 0 /\ cuts' \in Nat
  BY <1>3
<1>5. /\ lines' \in Seq(Lines) /\ kind' \in {"none", "log"} /\ (kind' # "log" => lines' = <<>>)
      /\ LogIsKnown'
  <2>1. CASE UNCHANGED <<kind, lines>>
    BY <1>1, <1>2, <1>3, <2>1 DEF IInv, Phases, LogIsKnown, TypeOK
  <2>2. ASSUME NEW form \in {"open", "cut"}, kind' = "log",
               lines' = Appended(lines, LineOf(s, form))
        PROVE  lines' \in Seq(Lines) /\ LogIsKnown'
    <3>1. LineOf(s, form) \in Lines /\ LineOf(s, form).name = session[s].name
      BY <1>1, LineOfType
    <3>2. lines' \in Seq(Lines)
      BY <1>1, <2>2, <3>1, AppendedType
    <3> QED BY <1>1, <1>2, <1>3, <2>2, <3>1, <3>2, LogIsKnownAfter DEF IInv, WritesAreKnown
  <2> QED BY <2>1, <2>2 DEF WriteCut
<1>6. TypeOK'
  BY <1>1, <1>3, <1>4, <1>5, LeaveInv DEF TypeOK
<1>7. Phases'
  BY <1>2, <1>3, <1>5 DEF Phases
<1>8. WholeLines' /\ Agree'
  BY <1>4 DEF WholeLines, Agree, Whole
<1> QED BY <1>3, <1>5, <1>6, <1>7, <1>8, LeaveInv DEF IInv

\* A crash does: nothing of the process is left to disagree with the file.
LEMMA InvCrash == IInv /\ Crash => IInv'
<1> SUFFICES ASSUME IInv, Crash PROVE IInv'
  OBVIOUS
<1>1. TypeOK /\ Phases
  BY DEF IInv
<1>2. /\ phase' = "down" /\ memory' = Empty /\ session' = [s \in Sessions |-> Idle]
      /\ raced' = {} /\ UNCHANGED <<kind, noted, cuts>> /\ crashes' = crashes + 1
  BY DEF Crash
<1>3. /\ lines' \in Seq(Lines) /\ lost' \in BOOLEAN /\ (kind # "log" => lines' = <<>>)
      /\ WholeLines'
  <2>1. CASE UNCHANGED <<lines, lost>>
    BY <1>1, <1>2, <2>1 DEF IInv, TypeOK, Phases, WholeLines, Whole
  <2>2. CASE phase = "rewriting" /\ lines' \in PiecesOf(memory) /\ lost' = TRUE
    BY <1>1, <2>2, PiecesAreLogs DEF TypeOK, Phases, WholeLines, Whole
  <2> QED BY <2>1, <2>2 DEF Crash
<1>4. TypeOK'
  BY <1>1, <1>2, <1>3, EmptyType, IdleIs DEF TypeOK
<1>5. Phases' /\ LogIsKnown' /\ Agree'
  BY <1>2, <1>3 DEF Phases, LogIsKnown, Agree
<1> QED BY <1>2, <1>3, <1>4, <1>5, QuietInv DEF IInv

\* Every step preserves the invariant, one case per action.
LEMMA InvStep == IInv /\ [Next]_vars => IInv'
<1> SUFFICES ASSUME IInv, [Next]_vars PROVE IInv'
  OBVIOUS
<1>1. CASE UNCHANGED vars
  BY <1>1 DEF vars, IInv, TypeOK, Phases, WholeLines, LogIsKnown, WritesAreKnown, OneEach, Agree,
     Resolving, Pending, Whole
<1> QED BY <1>1, InvStart, InvMigrate, InvMigrationFails, InvMiss, InvAnswer, InvNoReply,
           InvWrite, InvWriteCut, InvCrash DEF Next

-----------------------------------------------------------------------------
(* The theorems.                                                           *)

\* What dictionary, log and sessions know of each other in every reachable
\* state; it types every variable too.
THEOREM InvInductive == Spec => []IInv
  BY InvInit, InvStep, PTL DEF Spec

\* []TypeOK for any names, answers and sessions.
THEOREM TypeCorrect == Spec => []TypeOK
<1>1. IInv => TypeOK
  BY DEF IInv
<1> QED BY <1>1, InvInductive, PTL

\* The model is never asked about a name the file knows (AliasStore.get before
\* the gateway in entity_alias_tool), whatever crashes and cuts came before.
THEOREM MissIsAMissHolds == Spec => []MissIsAMiss
<1>1. IInv => MissIsAMiss
  <2> SUFFICES ASSUME IInv, phase = "up", NEW n \in Names, memory[n] = NoAnswer
               PROVE  Replay(lines)[n] = NoAnswer
    BY DEF MissIsAMiss
  <2>1. lines \in Seq(Lines)
    BY DEF IInv, TypeOK
  <2>2. About(lines, n) = {}
    BY DEF IInv, LogIsKnown, About
  <2> QED BY <2>1, <2>2, ReplayIs
<1> QED BY <1>1, InvInductive, PTL

\* AliasStore() raises at import over a log only if some write to it was cut
\* short, an append or the migration (alias_store.py:43-78).
THEOREM LoadsUnlessCutHolds == Spec => []LoadsUnlessCut
<1>1. IInv => LoadsUnlessCut
  <2> SUFFICES ASSUME IInv, phase = "failed", kind = "log", Whole
               PROVE  FALSE
    BY DEF LoadsUnlessCut
  <2>1. ~lost
    BY DEF Whole
  <2>2. lines # <<>> /\ ~Parses(lines[1]) /\ lines \in Seq(Lines)
    BY <2>1 DEF IInv, Phases, Loads, TypeOK
  <2>3. 1 \in DOMAIN lines
    BY <2>2
  <2> QED BY <2>2, <2>3 DEF IInv, WholeLines, Parses
<1> QED BY <1>1, InvInductive, PTL

\* What a start would find, as long as the store is up.
LEMMA StoredIs ==
    ASSUME IInv
    PROVE  /\ kind # "old" /\ phase # "rewriting" => Stored = Replay(lines)
           /\ phase = "rewriting" => Stored = memory
           /\ kind = "old" => Stored = OldCache
           /\ Stored \in Caches
<1>1. kind \in {"none", "old", "log"} /\ lines \in Seq(Lines) /\ memory \in Caches
  BY DEF IInv, TypeOK
<1>2. kind # "log" => lines = <<>>
  BY DEF IInv, Phases
<1>3. phase = "rewriting" => kind = "log"
  BY DEF IInv, Phases
<1> QED BY <1>1, <1>2, <1>3, EmptyType, ReplayType, OldAssumption DEF Stored

\* A restart changes no answer, but for a name two sessions raced for.
THEOREM RestartChangesNothingHolds == Spec => []RestartChangesNothing
<1>1. IInv => RestartChangesNothing
  <2> SUFFICES ASSUME IInv, phase = "up", Whole, NEW n \in Names \ raced,
                      \A s \in Sessions : ~Resolving(s, n)
               PROVE  memory[n] = Stored[n]
    BY DEF RestartChangesNothing
  <2>1. ~Pending(n)
    <3> SUFFICES ASSUME NEW s \in Sessions, session[s].step = "writing", session[s].name = n
                 PROVE  FALSE
      BY DEF Pending
    <3> QED BY WritingIs DEF IInv, Resolving
  <2>2. Stored = Replay(lines)
    BY StoredIs DEF IInv, Phases
  <2> QED BY <2>1, <2>2 DEF IInv, Agree
<1> QED BY <1>1, InvInductive, PTL

-----------------------------------------------------------------------------
(* The refinement.                                                         *)

\* The store starts as the durable map does.
LEMMA CacheInit == Init => Cache!Init
<1> SUFFICES ASSUME Init PROVE Cache!Init
  OBVIOUS
<1>1. Stored \in Caches
  BY InvInit, StoredIs
<1>2. Whole = TRUE
  BY DEF Init, Whole
<1> QED BY <1>1, <1>2 DEF Cache!Init, Caches, Cache!Caches

\* Starting and migrating change nothing a later start would find.
LEMMA CacheStill ==
    ASSUME IInv, IInv', Start \/ Truncate \/ Rewrite
    PROVE  Stored' = Stored /\ Whole' = Whole
<1>1. Whole' = Whole
  BY DEF Start, Truncate, Rewrite, Whole
<1>2. CASE Start
  <2>1. kind' = kind /\ lines' = lines /\ phase # "rewriting" /\ phase' # "rewriting"
    BY <1>2 DEF Start
  <2> QED BY <1>1, <2>1 DEF Stored
<1>3. CASE Truncate
  <2>1. kind = "old" /\ memory = OldCache /\ memory' = memory /\ phase' = "rewriting" /\ kind' = "log"
    BY <1>3 DEF Truncate, IInv, Phases
  <2> QED BY <1>1, <2>1 DEF Stored
<1>4. CASE Rewrite
  <2>1. /\ phase = "rewriting" /\ kind = "log" /\ kind' = "log" /\ phase' = "up"
        /\ lines' \in LogsOf(memory) /\ memory \in Caches
    BY <1>4 DEF Rewrite, IInv, Phases, TypeOK
  <2>2. Replay(lines') = memory
    BY <2>1, LogsOfSay
  <2> QED BY <1>1, <2>1, <2>2 DEF Stored
<1> QED BY <1>2, <1>3, <1>4

\* A whole append records its answer; over a damaged line nothing is promised.
LEMMA CacheWrite ==
    ASSUME IInv, IInv', NEW s \in Sessions, Write(s)
    PROVE  Cache!Next
<1> DEFINE l == LineOf(s, "whole")
<1>1. session[s].step = "writing" /\ lines \in Seq(Lines)
  BY DEF IInv, TypeOK, Write
<1>2. l \in Lines /\ l.name = session[s].name /\ l.answer = session[s].answer /\ l.form = "whole"
      /\ l.name \in Names /\ l.answer \in Answers
  BY <1>1, LineOfType, WritingIs DEF IInv
<1>3. phase = "up" /\ kind # "old"
  BY <1>1, BusyIsUp, WritingIs DEF IInv
<1>4. lines' = Appended(lines, l) /\ kind' = "log" /\ UNCHANGED <<phase, cuts, lost>>
  BY DEF Write
<1> HIDE DEF l
<1>5. Whole' = Whole /\ Stored = Replay(lines) /\ Stored' = Replay(lines')
  BY <1>3, <1>4, StoredIs DEF Whole, Stored
<1>6. CASE Whole
  <2>1. lines' = Append(lines, l)
    BY <1>1, <1>2, <1>4, <1>6, AppendedWhole DEF IInv, WholeLines, Whole
  <2>2. Stored' = [Stored EXCEPT ![l.name] = l.answer]
    BY <1>1, <1>2, <1>5, <2>1, ReplayAppend DEF Parses
  <2> QED BY <1>2, <1>5, <2>2 DEF Cache!Next, Cache!Record
<1>7. CASE ~Whole
  <2>1. Stored' \in Caches
    <3>1. lines' \in Seq(Lines)
      BY DEF IInv, TypeOK
    <3> QED BY <1>5, <3>1, ReplayType
  <2>2. Whole' = FALSE
    BY <1>5, <1>7 DEF Whole
  <2> QED BY <2>1, <2>2 DEF Cache!Next, Cache!Damage, Caches, Cache!Caches
<1> QED BY <1>6, <1>7

\* Every step of the store is one record, one damage or a stutter of the map.
LEMMA CacheStep == IInv /\ IInv' /\ [Next]_vars => [Cache!Next]_(Cache!cacheVars)
<1> SUFFICES ASSUME IInv, IInv', [Next]_vars
             PROVE  Cache!Next \/ (Stored' = Stored /\ Whole' = Whole)
  BY DEF Cache!cacheVars
<1>1. Stored' \in Caches
  <2>1. lines' \in Seq(Lines) /\ memory' \in Caches
    BY DEF IInv, TypeOK
  <2> QED BY <2>1, EmptyType, ReplayType, OldAssumption DEF Stored
<1>2. ASSUME NEW s \in Sessions, NEW n \in Names, Miss(s, n)
      PROVE  Stored' = Stored /\ Whole' = Whole
  BY <1>2 DEF Miss, Stored, Whole
<1>3. ASSUME NEW s \in Sessions, NEW a \in Answers, Answer(s, a)
      PROVE  Stored' = Stored /\ Whole' = Whole
  <2>1. phase = "up"
    BY <1>3, AskedIs, BusyIsUp DEF IInv, Answer
  <2> QED BY <1>3, <2>1 DEF Answer, Stored, Whole
<1>4. ASSUME NEW s \in Sessions, WriteCut(s) PROVE Cache!Next
  <2>1. cuts' = cuts + 1 /\ cuts \in Nat
    BY <1>4 DEF WriteCut, IInv, TypeOK
  <2>2. Whole' = FALSE
    BY <2>1 DEF Whole
  <2> QED BY <1>1, <2>2 DEF Cache!Next, Cache!Damage, Caches, Cache!Caches
<1>5. CASE Crash
  <2>1. CASE phase = "rewriting"
    <3>1. Whole' = FALSE
      BY <1>5, <2>1 DEF Crash, Whole
    <3> QED BY <1>1, <3>1 DEF Cache!Next, Cache!Damage, Caches, Cache!Caches
  <2>2. CASE phase # "rewriting"
    BY <1>5, <2>2 DEF Crash, Stored, Whole
  <2> QED BY <2>1, <2>2
<1>6. CASE UNCHANGED vars
  BY <1>6 DEF vars, Stored, Whole
<1>7. CASE MigrationFails
  <2>1. CASE phase = "rewriting"
    <3>1. Whole' = FALSE
      BY <1>7, <2>1 DEF MigrationFails, Whole
    <3> QED BY <1>1, <3>1 DEF Cache!Next, Cache!Damage, Caches, Cache!Caches
  <2>2. CASE phase = "migrating"
    BY <1>7, <2>2 DEF MigrationFails, Stored, Whole, IInv, Phases
  <2> QED BY <1>7, <2>1, <2>2 DEF MigrationFails
<1>8. ASSUME NEW s \in Sessions, NoReply(s) PROVE Stored' = Stored /\ Whole' = Whole
  BY <1>8 DEF NoReply, Stored, Whole
<1> QED BY <1>2, <1>3, <1>4, <1>5, <1>6, <1>7, <1>8, CacheStill, CacheWrite DEF Next

\* The store implements AliasCache: one answer at a time, none forgotten while
\* every write is whole.
THEOREM CacheSpecHolds == Spec => CacheSpec
  BY CacheInit, CacheStep, InvInductive, PTL DEF Spec, CacheSpec, Cache!Spec

-----------------------------------------------------------------------------
(* What cut lines cost.                                                    *)

\* A log says something of a name for good: no later append can damage it.
Sure(log, n) == \E i \in DOMAIN log : log[i].name = n /\ log[i].form = "whole"

\* The next record will land on the last line.
Torn(log) == log # <<>> /\ log[Len(log)].form \in {"open", "cut"}

\* Names that were recorded and of which the log may say nothing, or no more
\* after the next append.
Unsure == {n \in noted : ~Sure(lines, n)}

\* Each of them was paid for by a cut append, and so is a torn last line.  A
\* file of the old format holds all that was recorded until it is rewritten.
LossInv ==
    ~lost => /\ kind # "old" /\ phase # "rewriting"
                  => Cardinality(Unsure) + (IF Torn(lines) THEN 1 ELSE 0) <= cuts
             /\ kind = "old" \/ phase = "rewriting" => \A n \in noted : OldCache[n] # NoAnswer
             /\ phase = "rewriting" => memory = OldCache

\* Appending keeps every whole line; a whole record ends a torn log, and is
\* there for good unless it landed on a torn line.
LEMMA AppendedSure ==
    ASSUME NEW log \in Seq(Lines), NEW l \in Lines
    PROVE  /\ \A n : Sure(log, n) => Sure(Appended(log, l), n)
           /\ l.form = "whole" => ~Torn(Appended(log, l))
           /\ l.form = "whole" /\ ~Torn(log) => Sure(Appended(log, l), l.name)
<1>1. CASE Torn(log)
  <2> DEFINE k == Len(log)
             form == IF l.form = "whole" THEN "junk" ELSE "cut"
             more == [log EXCEPT ![k].form = form]
  <2>1. Appended(log, l) = more
    BY <1>1 DEF Appended, Torn
  <2>2. k \in DOMAIN log /\ log[k] \in Lines
    BY <1>1 DEF Torn
  <2>3. [log[k] EXCEPT !.form = form] \in Lines /\ [log[k] EXCEPT !.form = form].form = form
    BY <2>2 DEF Lines
  <2>4. /\ DOMAIN more = DOMAIN log /\ Len(more) = k
        /\ \A i \in DOMAIN log : i # k => more[i] = log[i]
        /\ more[k].form = form
    <3> DEFINE torn == [log[k] EXCEPT !.form = form]
    <3>1. more = [log EXCEPT ![k] = torn] /\ torn \in Lines /\ torn.form = form
      BY <2>3
    <3>2. k \in 1 .. Len(log) /\ DOMAIN log = 1 .. Len(log)
      BY <2>2
    <3> HIDE DEF form, torn, more, k
    <3>3. /\ more \in Seq(Lines) /\ Len(more) = Len(log)
          /\ \A j \in 1 .. Len(log) : more[j] = IF j = k THEN torn ELSE log[j]
      BY <3>1, <3>2, ExceptSeq
    <3>4. DOMAIN more = 1 .. Len(more)
      BY <3>3
    <3> QED BY <3>1, <3>2, <3>3, <3>4 DEF k
  <2>5. \A i \in DOMAIN log : log[i].form = "whole" => i # k
    BY <1>1 DEF Torn
  <2>6. \A n : Sure(log, n) => Sure(more, n)
    <3> HIDE DEF more, k
    <3> QED BY <2>4, <2>5 DEF Sure
  <2>7. l.form = "whole" => ~Torn(more)
    <3>1. l.form = "whole" => form = "junk"
      OBVIOUS
    <3> HIDE DEF more, form
    <3> QED BY <2>4, <3>1 DEF Torn
  <2> QED BY <1>1, <2>1, <2>6, <2>7
<1>2. CASE ~Torn(log)
  <2> DEFINE more == Append(log, l)
  <2>1. Appended(log, l) = more
    BY <1>2 DEF Appended, Torn
  <2>2. /\ Len(more) = Len(log) + 1 /\ Len(log) + 1 \in DOMAIN more
        /\ more[Len(log) + 1] = l
        /\ \A i \in DOMAIN log : i \in DOMAIN more /\ more[i] = log[i]
    OBVIOUS
  <2> HIDE DEF more
  <2>3. \A n : Sure(log, n) => Sure(more, n)
    BY <2>2 DEF Sure
  <2> QED BY <2>1, <2>2, <2>3 DEF Sure, Torn
<1> QED BY <1>1, <1>2

\* The names are finitely many, and so are those among them that are unsure.
LEMMA UnsureIsFinite ==
    ASSUME TypeOK, NEW S \in SUBSET noted
    PROVE  IsFiniteSet(S) /\ Cardinality(S) \in Nat
<1>1. S \in SUBSET Names
  BY DEF TypeOK
<1> QED BY <1>1, NameAssumption, FS_Subset, FS_CardinalityType

\* Nothing is lost when all that was recorded is known to a log of whole lines.
LEMMA RewriteLosesNothing ==
    ASSUME IInv, LossInv, Rewrite
    PROVE  LossInv'
<1>1. /\ phase = "rewriting" /\ lines' \in LogsOf(memory) /\ phase' = "up" /\ kind = "log"
      /\ UNCHANGED <<kind, memory, noted, cuts, lost>>
      /\ memory \in Caches /\ cuts \in Nat /\ noted \subseteq Names
  BY DEF Rewrite, IInv, TypeOK, Phases
<1>2. /\ lines' \in Seq(Lines) /\ Replay(lines') = memory
      /\ \A i \in DOMAIN lines' : lines'[i].form = "whole"
  BY <1>1, LogsOfSay
<1>3. SUFFICES ASSUME ~lost
               PROVE  Cardinality(Unsure') + (IF Torn(lines') THEN 1 ELSE 0) <= cuts
  BY <1>1 DEF LossInv
<1>4. ~Torn(lines')
  <2>1. lines' # <<>> => Len(lines') \in DOMAIN lines'
    BY <1>2
  <2> QED BY <1>2, <2>1 DEF Torn
<1>5. \A n \in noted : Sure(lines', n)
  <2> SUFFICES ASSUME NEW n \in noted PROVE Sure(lines', n)
    OBVIOUS
  <2>1. n \in Names /\ Replay(lines')[n] # NoAnswer
    BY <1>1, <1>2, <1>3 DEF LossInv
  <2>2. PICK i \in DOMAIN lines' : lines'[i].name = n
    BY <1>2, <2>1, ReplayIs DEF About
  <2> QED BY <1>2, <2>2 DEF Sure
<1>6. Unsure' = {}
  BY <1>1, <1>5 DEF Unsure
<1> QED BY <1>1, <1>4, <1>6, FS_EmptySet

\* A record loses its own name at most, and then it ended a torn line.
LEMMA WriteLosesOne ==
    ASSUME IInv, LossInv, NEW s \in Sessions, Write(s)
    PROVE  LossInv'
<1> DEFINE l == LineOf(s, "whole")
<1>1. TypeOK /\ Phases /\ lines \in Seq(Lines) /\ session[s].step = "writing" /\ cuts \in Nat
  BY DEF IInv, TypeOK, Write
<1>2. l \in Lines /\ l.name = session[s].name /\ l.form = "whole"
  BY <1>1, LineOfType
<1>3. phase = "up" /\ kind # "old"
  BY <1>1, BusyIsUp, WritingIs
<1>4. /\ lines' = Appended(lines, l) /\ kind' = "log" /\ noted' = noted \cup {l.name}
      /\ UNCHANGED <<phase, memory, cuts, lost>>
  BY <1>2 DEF Write
<1> HIDE DEF l
<1>5. SUFFICES ASSUME ~lost
               PROVE  Cardinality(Unsure') + (IF Torn(lines') THEN 1 ELSE 0) <= cuts
  BY <1>3, <1>4 DEF LossInv
<1>6. Cardinality(Unsure) + (IF Torn(lines) THEN 1 ELSE 0) <= cuts
  BY <1>3, <1>5 DEF LossInv
<1>7. IsFiniteSet(Unsure) /\ Cardinality(Unsure) \in Nat
  BY <1>1, UnsureIsFinite DEF Unsure
<1>8. ~Torn(lines') /\ \A n : Sure(lines, n) => Sure(lines', n)
  BY <1>1, <1>2, <1>4, AppendedSure
<1>9. CASE ~Torn(lines)
  <2>1. Unsure' \in SUBSET Unsure
    BY <1>1, <1>2, <1>4, <1>8, <1>9, AppendedSure DEF Unsure
  <2>2. Cardinality(Unsure') <= Cardinality(Unsure) /\ Cardinality(Unsure') \in Nat
    BY <1>7, <2>1, FS_Subset, FS_CardinalityType
  <2> QED BY <1>1, <1>6, <1>7, <1>8, <1>9, <2>2
<1>10. CASE Torn(lines)
  <2>1. Unsure' \in SUBSET (Unsure \cup {l.name})
    BY <1>4, <1>8 DEF Unsure
  <2>2. IsFiniteSet(Unsure \cup {l.name})
        /\ Cardinality(Unsure \cup {l.name}) <= Cardinality(Unsure) + 1
    BY <1>7, FS_AddElement
  <2>3. /\ Cardinality(Unsure') <= Cardinality(Unsure \cup {l.name})
        /\ Cardinality(Unsure') \in Nat /\ Cardinality(Unsure \cup {l.name}) \in Nat
    BY <2>1, <2>2, FS_Subset, FS_CardinalityType
  <2> QED BY <1>1, <1>6, <1>7, <1>8, <1>10, <2>2, <2>3
<1> QED BY <1>9, <1>10

\* A cut append may leave a torn line, and is counted.
LEMMA CutIsCounted ==
    ASSUME IInv, LossInv, NEW s \in Sessions, WriteCut(s)
    PROVE  LossInv'
<1>1. TypeOK /\ Phases /\ lines \in Seq(Lines) /\ session[s].step = "writing" /\ cuts \in Nat
  BY DEF IInv, TypeOK, WriteCut
<1>2. phase = "up" /\ kind # "old"
  BY <1>1, BusyIsUp, WritingIs
<1>3. /\ cuts' = cuts + 1 /\ kind' # "old" /\ UNCHANGED <<phase, memory, noted, lost>>
  BY <1>2 DEF WriteCut
<1>4. SUFFICES ASSUME ~lost
               PROVE  Cardinality(Unsure') + (IF Torn(lines') THEN 1 ELSE 0) <= cuts + 1
  BY <1>2, <1>3 DEF LossInv
<1>5. Cardinality(Unsure) + (IF Torn(lines) THEN 1 ELSE 0) <= cuts
  BY <1>2, <1>4 DEF LossInv
<1>6. IsFiniteSet(Unsure) /\ Cardinality(Unsure) \in Nat
  BY <1>1, UnsureIsFinite DEF Unsure
<1>7. \A n : Sure(lines, n) => Sure(lines', n)
  <2>1. ASSUME NEW form \in {"open", "cut"}, lines' = Appended(lines, LineOf(s, form))
        PROVE  \A n : Sure(lines, n) => Sure(lines', n)
    BY <1>1, <2>1, LineOfType, AppendedSure
  <2> QED BY <2>1 DEF WriteCut
<1>8. Unsure' \in SUBSET Unsure
  BY <1>3, <1>7 DEF Unsure
<1>9. Cardinality(Unsure') <= Cardinality(Unsure) /\ Cardinality(Unsure') \in Nat
  BY <1>6, <1>8, FS_Subset, FS_CardinalityType
<1> QED BY <1>1, <1>5, <1>6, <1>9

\* A migration starts from all that was recorded.
LEMMA LossInvInit == Init => LossInv
<1> SUFFICES ASSUME Init PROVE LossInv
  OBVIOUS
<1>1. lines = <<>> /\ cuts = 0 /\ phase = "down" /\ ~Torn(lines)
  BY DEF Init, Torn
<1>2. kind # "old" => Unsure = {}
  BY DEF Init, Unsure
<1>3. kind = "old" => \A n \in noted : OldCache[n] # NoAnswer
  BY DEF Init
<1> QED BY <1>1, <1>2, <1>3, FS_EmptySet DEF LossInv

\* Every step keeps the account.
LEMMA LossInvStep == IInv /\ LossInv /\ [Next]_vars => LossInv'
<1> SUFFICES ASSUME IInv, LossInv, [Next]_vars PROVE LossInv'
  OBVIOUS
<1>1. CASE UNCHANGED vars
  BY <1>1 DEF vars, LossInv, Unsure
<1>2. CASE Start
  <2>1. /\ UNCHANGED <<kind, lines, noted, cuts, lost>> /\ phase = "down"
        /\ phase' \in {"migrating", "failed", "up"}
    BY <1>2 DEF Start
  <2> QED BY <2>1 DEF LossInv, Unsure
<1>3. CASE Truncate
  BY <1>3 DEF Truncate, LossInv, IInv, Phases
<1>4. ASSUME NEW s \in Sessions, NEW n \in Names, Miss(s, n) PROVE LossInv'
  BY <1>4 DEF Miss, LossInv, Unsure
<1>5. ASSUME NEW s \in Sessions, NEW a \in Answers, Answer(s, a) PROVE LossInv'
  <2>1. phase = "up"
    BY <1>5, AskedIs, BusyIsUp DEF IInv, Answer
  <2> QED BY <1>5, <2>1 DEF Answer, LossInv, Unsure
<1>6. CASE Crash
  <2>1. CASE phase = "rewriting"
    BY <1>6, <2>1 DEF Crash, LossInv
  <2>2. CASE phase # "rewriting"
    <3>1. UNCHANGED <<kind, lines, noted, cuts, lost>> /\ phase' = "down"
      BY <1>6, <2>2 DEF Crash
    <3> QED BY <2>2, <3>1 DEF LossInv, Unsure
  <2> QED BY <2>1, <2>2
<1>7. CASE MigrationFails
  <2>1. CASE phase = "rewriting"
    BY <1>7, <2>1 DEF MigrationFails, LossInv
  <2>2. CASE phase = "migrating"
    <3>1. UNCHANGED <<kind, lines, noted, cuts, lost>> /\ phase' = "failed" /\ kind = "old"
      BY <1>7, <2>2 DEF MigrationFails, IInv, Phases
    <3> QED BY <3>1 DEF LossInv
  <2> QED BY <1>7, <2>1, <2>2 DEF MigrationFails
<1>8. ASSUME NEW s \in Sessions, NoReply(s) PROVE LossInv'
  BY <1>8 DEF NoReply, LossInv, Unsure
<1> QED BY <1>1, <1>2, <1>3, <1>4, <1>5, <1>6, <1>7, <1>8,
           RewriteLosesNothing, WriteLosesOne, CutIsCounted
        DEF Next

\* An append cut short costs one recorded name at most, however many sessions,
\* restarts and cut appends there are (alias_store.py:43-88): the name whose
\* record lands on the torn line.
THEOREM LossIsBoundedHolds == Spec => []LossIsBounded
<1>1. IInv /\ LossInv => LossIsBounded
  <2> SUFFICES ASSUME IInv, LossInv, ~lost, kind = "log", phase # "rewriting"
               PROVE  Cardinality({n \in noted : Replay(lines)[n] = NoAnswer}) <= cuts
    BY DEF LossIsBounded
  <2> DEFINE missing == {n \in noted : Replay(lines)[n] = NoAnswer}
  <2>1. TypeOK /\ lines \in Seq(Lines) /\ cuts \in Nat /\ noted \subseteq Names
    BY DEF IInv, TypeOK
  <2>2. \A n \in missing : ~Sure(lines, n)
    <3> SUFFICES ASSUME NEW n \in noted, Replay(lines)[n] = NoAnswer, Sure(lines, n) PROVE FALSE
      OBVIOUS
    <3>1. n \in Names /\ About(lines, n) # {}
      BY <2>1 DEF Sure, About, Parses
    <3>2. PICK m \in About(lines, n) : Replay(lines)[n] = lines[m].answer
      BY <2>1, <3>1, ReplayIs
    <3>3. lines[m].answer \in Answers
      BY <2>1, <3>2, LineType DEF About
    <3> QED BY <3>2, <3>3, AnswerAssumption
  <2>3. missing \in SUBSET Unsure
    BY <2>2 DEF Unsure
  <2>4. IsFiniteSet(Unsure) /\ Cardinality(Unsure) \in Nat
    BY <2>1, UnsureIsFinite DEF Unsure
  <2>5. Cardinality(missing) <= Cardinality(Unsure) /\ Cardinality(missing) \in Nat
    BY <2>3, <2>4, FS_Subset, FS_CardinalityType
  <2>6. Cardinality(Unsure) <= cuts
    BY <2>1, <2>4 DEF LossInv
  <2>7. Cardinality(missing) <= cuts
    <3> HIDE DEF missing
    <3> QED BY <2>1, <2>4, <2>5, <2>6
  <2> QED BY <2>7
<1> QED BY <1>1, LossInvInit, LossInvStep, InvInductive, PTL DEF Spec
=============================================================================
