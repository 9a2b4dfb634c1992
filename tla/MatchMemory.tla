---------------------------- MODULE MatchMemory ----------------------------
(***************************************************************************)
(* The memory of confirmed matches (reasoning/memory/match_memory.py), the  *)
(* confidences calibrated against it (agents/calibrated_matcher.py) and     *)
(* their order in run_match_subgraph.                                       *)
(*                                                                         *)
(* One memory serves every run of a process, and is gone with the process.  *)
(* Matching itself is the module of that name: here an attempt starts with  *)
(* the pairs it matched.  A run is what one run id names, however often it  *)
(* comes to matching: an attempt that raises leaves the node pending, and   *)
(* run_pipeline goes on there (checkpointer.py:69-71), over the same        *)
(* transactions and, in the same process, the same memory.  Confidences and *)
(* distances are in hundredths.                                             *)
(***************************************************************************)
EXTENDS Integers, Sequences, FiniteSets

CONSTANTS
    Runs,        \* runs of one process
    Keys,        \* pair ids, book_id:source_id
    Texts,       \* what _pair_text makes of two transactions
    Distance,    \* how far apart the embeddings of two texts are
    Raw,         \* confidences a tool or the model gives
    NoText,
    MaxBatch,    \* bound: matches of one attempt
    MaxAttempts  \* bound: attempts at matching per run, of all its passes

ASSUME DistanceAssumption == Distance \in [Texts -> [Texts -> Nat]]
ASSUME RawAssumption      == Raw \subseteq 0 .. 100
ASSUME NoTextAssumption   == NoText \notin Texts
ASSUME BoundAssumption    == MaxBatch \in Nat /\ MaxAttempts \in Nat

SUPPORT_DISTANCE == 15  \* _SUPPORT_DISTANCE_THRESHOLD
MAX_BOOST        == 15  \* _MAX_MEMORY_BOOST

\* One-to-one matches: no two of an attempt have the same key.
Matches == [key : Keys, raw : Raw]
Batches == {b \in UNION {[1 .. n -> Matches] : n \in 1 .. MaxBatch} :
               \A i, j \in DOMAIN b : b[i].key = b[j].key => i = j}

VARIABLES
    memory,   \* the collection: the text stored under each key
    node,     \* the matching node of each run: its step, matches and confidences
    pairs,    \* each run's transactions: the text every pair of them has
    attempt,  \* history: attempts each run has begun
    writer,   \* history: the run and attempt that stored what a key holds
    left,     \* history: runs that ended an attempt with matches stored
    seen,     \* history: per text, the smallest distance it was ever found at
    reused    \* history: whether a key was given another text

vars == <<memory, node, pairs, attempt, writer, left, seen, reused>>

\* Idle: matching is not the run's next node.  Pending: it is, and an attempt
\* at it did not return.
Idle    == [step |-> "idle", batch |-> <<>>, out |-> <<>>, stored |-> 0]
Pending == [Idle EXCEPT !.step = "pending"]
Far  == SUPPORT_DISTANCE + 1   \* stands for every distance that gives no support

Init ==
    /\ memory = [k \in Keys |-> NoText]
    /\ node = [r \in Runs |-> Idle]
    /\ pairs \in [Runs -> [Keys -> Texts]]
    /\ attempt = [r \in Runs |-> 0]
    /\ writer = [k \in Keys |-> <<>>]
    /\ left = {}
    /\ seen = [t \in Texts |-> Far]
    /\ reused = FALSE

-----------------------------------------------------------------------------
Stored == {k \in Keys : memory[k] # NoText}

\* The keys whose text is nearest to t, and how near that is.
Hits(t)    == {k \in Stored : \A l \in Stored :
                  Distance[t][memory[k]] <= Distance[t][memory[l]]}
Nearest(t) ==
    LET near == {Distance[t][memory[k]] : k \in Hits(t)}
    IN  IF \E d \in near : d <= SUPPORT_DISTANCE THEN CHOOSE d \in near : TRUE ELSE Far

\* calibrate_confidence.
Calibrated(raw, nearest) ==
    IF nearest > SUPPORT_DISTANCE THEN raw
    ELSE LET boosted == raw + MAX_BOOST - nearest
         IN  IF boosted > 100 THEN 100 ELSE boosted

\* run_match_subgraph has its matches and takes them to calibrate_matches.
Attempt(r) ==
    /\ attempt[r] < MaxAttempts
    /\ \E b \in Batches : node' = [node EXCEPT ![r].step = "calibrate", ![r].batch = b]
    /\ attempt' = [attempt EXCEPT ![r] = @ + 1]
    /\ UNCHANGED <<memory, writer, left, seen, reused>>

\* A pass of the run comes to matching, with transactions as then normalized.
Match(r) ==
    /\ node[r].step = "idle" /\ Attempt(r)
    /\ \E p \in [Keys -> Texts] : pairs' = [pairs EXCEPT ![r] = p]

\* The run is resumed at the node that raised.  The transactions are those of
\* the checkpoint; the matches need not be, as rules and the model may differ.
Resume(r) == node[r].step = "pending" /\ Attempt(r) /\ UNCHANGED pairs

Here(r) == pairs[r][node[r].batch[Len(node[r].out) + 1].key]

\* The next match is given its confidence.
Calibrate(r) ==
    /\ node[r].step = "calibrate" /\ Len(node[r].out) < Len(node[r].batch)
    /\ LET d   == Nearest(Here(r))
           raw == node[r].batch[Len(node[r].out) + 1].raw
       IN  /\ node' = [node EXCEPT ![r].out = Append(@,
                  [confidence |-> Calibrated(raw, d),
                   from |-> IF d = Far THEN {} ELSE {writer[k] : k \in Hits(Here(r))}])]
           /\ seen' = [seen EXCEPT ![Here(r)] = IF d < @ THEN d ELSE @]
    /\ UNCHANGED <<memory, pairs, attempt, writer, left, reused>>

\* upsert_match: a key that is there already gets the new text.
Upsert(r, k) ==
    /\ memory' = [memory EXCEPT ![k] = pairs[r][k]]
    /\ writer' = [writer EXCEPT ![k] = <<r, attempt[r]>>]
    /\ reused' = (reused \/ memory[k] \notin {NoText, pairs[r][k]})

\* The next match not stored yet is.
StoreNext(r) ==
    /\ Upsert(r, node[r].batch[node[r].stored + 1].key)
    /\ node' = [node EXCEPT ![r].stored = @ + 1]
    /\ UNCHANGED <<pairs, attempt, left, seen>>

\* Definitions named X_... are faulty variants of X, no part of the
\* specification.

\* Matches are stored as soon as they are calibrated.
Store_AtOnce(r) ==
    node[r].step = "calibrate" /\ node[r].stored < Len(node[r].out) /\ StoreNext(r)

\* When all are calibrated, they are stored one by one.
Store(r) ==
    /\ node[r].step = "calibrate"
    /\ Len(node[r].out) = Len(node[r].batch) /\ node[r].stored < Len(node[r].batch)
    /\ StoreNext(r)

LeavesMatches(r) == left' = IF node[r].stored > 0 THEN left \cup {r} ELSE left

\* The node returns, and its result is checkpointed.
Return(r) ==
    /\ node[r].step = "calibrate" /\ node[r].stored = Len(node[r].batch)
    /\ node' = [node EXCEPT ![r] = Idle]
    /\ LeavesMatches(r)
    /\ UNCHANGED <<memory, pairs, attempt, writer, seen, reused>>

\* What the attempt had stored is taken out again.
Raise_Undoes(r) ==
    /\ node[r].step = "calibrate"
    /\ memory' = [k \in Keys |-> IF \E i \in 1 .. node[r].stored : node[r].batch[i].key = k
                                 THEN NoText ELSE memory[k]]
    /\ node' = [node EXCEPT ![r] = Pending]
    /\ LeavesMatches(r)
    /\ UNCHANGED <<pairs, attempt, writer, seen, reused>>

\* Chroma, a caller or the checkpointer raises; what was stored so far stays,
\* and the node is still to be done.
Raise(r) ==
    /\ node[r].step = "calibrate"
    /\ node' = [node EXCEPT ![r] = Pending]
    /\ LeavesMatches(r)
    /\ UNCHANGED <<memory, pairs, attempt, writer, seen, reused>>

\* The process goes, and the memory with it; checkpoints stay.
Restart ==
    /\ memory' = [k \in Keys |-> NoText]
    /\ node'   = [r \in Runs |-> IF node[r].step = "idle" THEN Idle ELSE Pending]
    /\ writer' = [k \in Keys |-> <<>>]
    /\ left'   = {}
    /\ seen'   = [t \in Texts |-> Far]
    /\ reused' = FALSE
    /\ UNCHANGED <<pairs, attempt>>

Step(r) == Match(r) \/ Resume(r) \/ Calibrate(r) \/ Store(r) \/ Return(r) \/ Raise(r)
Next    == (\E r \in Runs : Step(r)) \/ Restart

Spec == Init /\ [][Next]_vars

-----------------------------------------------------------------------------
(* Properties.                                                             *)

\* The runs and attempts that lift the confidence of a match of run r.
Supporters(r) == UNION {node[r].out[i].from : i \in DOMAIN node[r].out}

\* No match supports itself or another of its attempt, however the runs of a
\* process interleave on the one memory.  A run is lifted by itself only if an
\* attempt of its, in this process, ended before and left matches behind: by
\* raising half-way through the store loop, or in an earlier pass.
SupportIsEarlier ==
    \A r \in Runs : \A w \in Supporters(r) : w[1] = r => w[2] < attempt[r] /\ r \in left

\* reasoning/README.md:117-119: the memory "never influences the same run's own
\* matches, only future ones".  Not so when the run comes to matching again.
SupportIsOthers == \A r \in Runs : \A w \in Supporters(r) : w[1] # r

\* Support is not lost while the process lives: a pair that found support finds
\* as much when it comes again, whatever failed or was stored twice meanwhile,
\* unless some pair of ids was given another text.
SupportLasts == ~reused => \A t \in Texts : Nearest(t) <= seen[t]
=============================================================================
