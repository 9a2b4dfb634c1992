-------------------------- MODULE MatchMemoryProofs --------------------------
(***************************************************************************)
(* Proofs about MatchMemory, for any runs, pair ids, texts and distances.   *)
(*                                                                         *)
(* SupportIsEarlier needs to know that nothing a run stored carries its      *)
(* present attempt before all of that is calibrated, and that a run whose    *)
(* attempt is over has left what it stored; SupportLasts, that some stored   *)
(* text is as near as anything ever found.                                   *)
(***************************************************************************)
EXTENDS MatchMemory, TLAPS

\* Types.
Writers    == {<<>>} \cup (Runs \X Nat)
Outcomes   == [confidence : Int, from : SUBSET Writers]
NodeStates == [step : {"idle", "calibrate", "pending"}, batch : Seq(Matches),
               out : Seq(Outcomes), stored : Nat]
TypeOK ==
    /\ memory  \in [Keys -> Texts \cup {NoText}]
    /\ node    \in [Runs -> NodeStates]
    /\ pairs   \in [Runs -> [Keys -> Texts]]
    /\ attempt \in [Runs -> Nat]
    /\ writer  \in [Keys -> Writers]
    /\ left    \in SUBSET Runs
    /\ seen    \in [Texts -> 0 .. Far]
    /\ reused  \in BOOLEAN

\* Nothing is stored by an attempt to come, or by one that still calibrates;
\* what an attempt has stored it counts, and leaves when it ends.
Known(r, m) ==
    /\ m <= attempt[r]
    /\ Len(node[r].out) < Len(node[r].batch) => m # attempt[r]
    /\ r \in left \/ (m = attempt[r] /\ node[r].step = "calibrate" /\ node[r].stored > 0)
WritersAreEarlier ==
    \A r \in Runs, k \in Keys, m \in Nat : writer[k] = <<r, m>> => Known(r, m)

\* A node that has nothing under way holds nothing.
Resting == \A r \in Runs : node[r].step # "calibrate" => node[r] \in {Idle, Pending}

\* What is stored somebody stored.
StoredAreWritten == \A k \in Stored : writer[k] \in Runs \X Nat

\* What was seen is still there.
SeenIsStored ==
    ~reused => \A t \in Texts :
        seen[t] # Far => \E k \in Stored : Distance[t][memory[k]] <= seen[t]

\* Who stored what, and who was lifted by whom.
Origins == Resting /\ StoredAreWritten /\ WritersAreEarlier /\ SupportIsEarlier

IInv == TypeOK /\ Origins /\ SeenIsStored

-----------------------------------------------------------------------------
(* What calibration finds.                                                 *)

\* Distances are natural numbers.
LEMMA DistanceType == \A t, u \in Texts : Distance[t][u] \in Nat
  BY DistanceAssumption

\* Stored keys hold a text.
LEMMA StoredText ==
    ASSUME TypeOK, NEW k \in Stored
    PROVE  k \in Keys /\ memory[k] \in Texts
  BY DEF TypeOK, Stored

\* The order on numbers is transitive.
LEMMA Between == \A a, b, c \in Nat : a <= b /\ b <= c => a <= c
  BY SMT

\* Naturals of which one is small have a least one.
LEMMA LeastOf ==
    ASSUME NEW S \in SUBSET Nat, NEW e \in S, e <= 15
    PROVE  \E d \in S : \A x \in S : d <= x
  BY SMTT(60)

\* A text near enough to one that is stored has a hit, and that is as near.
LEMMA SomeHit ==
    ASSUME TypeOK, NEW t \in Texts, NEW k \in Stored,
           Distance[t][memory[k]] <= SUPPORT_DISTANCE
    PROVE  \E h \in Hits(t) : h \in Stored /\ Distance[t][memory[h]] <= Distance[t][memory[k]]
<1> DEFINE S == {Distance[t][memory[l]] : l \in Stored}
<1>1. S \in SUBSET Nat /\ Distance[t][memory[k]] \in S
  BY StoredText, DistanceType
<1>2. PICK d \in S : \A x \in S : d <= x
  <2> HIDE DEF S
  <2> QED BY <1>1, LeastOf DEF SUPPORT_DISTANCE
<1>3. PICK h \in Stored : d = Distance[t][memory[h]]
  BY <1>2
<1>4. h \in Keys /\ \A l \in Stored : Distance[t][memory[h]] <= Distance[t][memory[l]]
  BY <1>2, <1>3, StoredText
<1> QED BY <1>3, <1>4 DEF Hits

\* All hits are equally near, and no further than anything stored.
LEMMA NearestBound ==
    ASSUME TypeOK, NEW t \in Texts
    PROVE  /\ Nearest(t) \in 0 .. Far
           /\ \A k \in Stored : Distance[t][memory[k]] <= SUPPORT_DISTANCE
                                   => Nearest(t) <= Distance[t][memory[k]]
           /\ Nearest(t) # Far => \E k \in Stored : Distance[t][memory[k]] = Nearest(t)
<1> DEFINE near == {Distance[t][memory[k]] : k \in Hits(t)}
<1>1. \A h \in Hits(t) : /\ h \in Stored
                         /\ \A l \in Stored : Distance[t][memory[h]] <= Distance[t][memory[l]]
  BY DEF Hits, Stored
<1>2. \A d \in near : d \in Nat /\ \A l \in Stored : d <= Distance[t][memory[l]]
  BY <1>1, StoredText, DistanceType
<1>3. CASE \E d \in near : d <= SUPPORT_DISTANCE
  <2> DEFINE c == CHOOSE d \in near : TRUE
  <2>1. c \in near
    BY <1>3
  <2>2. Nearest(t) = c
    BY <1>3 DEF Nearest
  <2>3. PICK h \in Hits(t) : c = Distance[t][memory[h]]
    BY <2>1
  <2>4. PICK d \in near : d <= SUPPORT_DISTANCE
    BY <1>3
  <2>5. PICK g \in Hits(t) : d = Distance[t][memory[g]]
    BY <2>4
  <2>6. c <= d /\ c \in Nat /\ d \in Nat
    BY <1>1, <1>2, <2>1, <2>4, <2>5
  <2>7. c \in 0 .. Far /\ c # Far
    <3> HIDE DEF near, c
    <3> QED BY <2>4, <2>6 DEF Far, SUPPORT_DISTANCE
  <2>8. \A k \in Stored : c <= Distance[t][memory[k]]
    BY <1>2, <2>1
  <2>9. h \in Stored
    BY <1>1, <2>3
  <2> HIDE DEF c
  <2> QED BY <2>2, <2>3, <2>7, <2>8, <2>9
<1>4. CASE ~ \E d \in near : d <= SUPPORT_DISTANCE
  <2>1. Nearest(t) = Far
    BY <1>4 DEF Nearest
  <2>2. ASSUME NEW k \in Stored, Distance[t][memory[k]] <= SUPPORT_DISTANCE PROVE FALSE
    <3>1. PICK h \in Hits(t) : h \in Stored /\ Distance[t][memory[h]] <= Distance[t][memory[k]]
      BY <2>2, SomeHit
    <3>2. Distance[t][memory[h]] \in near
      BY <3>1
    <3>3. Distance[t][memory[h]] \in Nat /\ Distance[t][memory[k]] \in Nat
      BY <3>1, StoredText, DistanceType
    <3>4. Distance[t][memory[h]] <= SUPPORT_DISTANCE
      <4>1. SUPPORT_DISTANCE \in Nat
        BY DEF SUPPORT_DISTANCE
      <4> HIDE DEF near
      <4> QED BY ONLY <2>2, <3>1, <3>3, <4>1, Between
    <3> QED BY <1>4, <3>2, <3>4
  <2>3. Far \in 0 .. Far
    BY DEF Far, SUPPORT_DISTANCE
  <2> QED BY <2>1, <2>2, <2>3
<1> QED BY <1>3, <1>4

\* What was seen is stored, so it is found again.
LEMMA SeenIsFound == TypeOK /\ SeenIsStored => SupportLasts
<1> SUFFICES ASSUME TypeOK, SeenIsStored, ~reused, NEW t \in Texts
             PROVE  Nearest(t) <= seen[t]
  BY DEF SupportLasts
<1>1. seen[t] \in 0 .. Far /\ Nearest(t) \in 0 .. Far
  BY NearestBound DEF TypeOK
<1>2. CASE seen[t] = Far
  BY <1>1, <1>2 DEF Far, SUPPORT_DISTANCE
<1>3. CASE seen[t] # Far
  <2>1. PICK k \in Stored : Distance[t][memory[k]] <= seen[t]
    BY <1>3 DEF SeenIsStored
  <2>2. PICK d \in Nat : d = Distance[t][memory[k]]
    BY StoredText, DistanceType
  <2>3. seen[t] \in 0 .. 16 /\ seen[t] # 16
    BY <1>1, <1>3 DEF Far, SUPPORT_DISTANCE
  <2>4. PICK c \in Nat : c = Nearest(t)
    BY <1>1 DEF Far, SUPPORT_DISTANCE
  <2>5. d <= 15 => c <= d
    BY <2>2, <2>4, NearestBound DEF SUPPORT_DISTANCE
  <2>6. d <= seen[t]
    BY <2>1, <2>2
  <2>7. d <= 15
    <3>1. \A a \in Nat, b \in 0 .. 16 : a <= b /\ b # 16 => a <= 15
      BY SMT
    <3> QED BY <2>2, <2>3, <2>6, <3>1
  <2>8. c <= seen[t]
    <3>1. seen[t] \in Nat
      BY <2>3
    <3> QED BY <2>2, <2>4, <2>5, <2>6, <2>7, <3>1, Between
  <2> QED BY <2>4, <2>8
<1> QED BY <1>2, <1>3

-----------------------------------------------------------------------------
(* Types.                                                                  *)

\* The parts of a node have their types.
LEMMA NodeType ==
    ASSUME TypeOK, NEW r \in Runs
    PROVE  /\ node[r] \in NodeStates /\ node[r].step \in {"idle", "calibrate", "pending"}
           /\ node[r].batch \in Seq(Matches) /\ Len(node[r].batch) \in Nat
           /\ node[r].out \in Seq(Outcomes) /\ Len(node[r].out) \in Nat
           /\ node[r].stored \in Nat
<1>1. node[r] \in NodeStates
  BY DEF TypeOK
<1> QED BY <1>1 DEF NodeStates

\* A node with nothing under way is one.
LEMMA RestType ==
    /\ Idle \in NodeStates /\ Pending \in NodeStates
    /\ \A n \in {Idle, Pending} : n.out = <<>> /\ n.batch = <<>> /\ n.stored = 0
<1>1. /\ Idle.out = <<>> /\ Idle.batch = <<>> /\ Idle.stored = 0
      /\ Pending.out = <<>> /\ Pending.batch = <<>> /\ Pending.stored = 0
  BY DEF Idle, Pending
<1>2. <<>> \in Seq(Matches) /\ <<>> \in Seq(Outcomes) /\ 0 \in Nat
  OBVIOUS
<1>3. Idle \in NodeStates
  BY <1>2 DEF Idle, NodeStates
<1>4. Pending = [step |-> "pending", batch |-> <<>>, out |-> <<>>, stored |-> 0]
  BY DEF Idle, Pending
<1>5. Pending \in NodeStates
  BY <1>2, <1>4 DEF NodeStates
<1> QED BY <1>1, <1>3, <1>5

\* A batch is a sequence of matches.
LEMMA BatchType ==
    ASSUME NEW b \in Batches
    PROVE  b \in Seq(Matches) /\ Len(b) \in Nat
  BY BoundAssumption DEF Batches

\* Members of a batch are matches, with a text.
LEMMA MemberType ==
    ASSUME TypeOK, NEW r \in Runs, NEW i \in Nat, i < Len(node[r].batch)
    PROVE  /\ node[r].batch[i + 1].key \in Keys /\ node[r].batch[i + 1].raw \in 0 .. 100
           /\ pairs[r][node[r].batch[i + 1].key] \in Texts
<1>1. node[r].batch \in Seq(Matches)
  BY NodeType
<1>2. node[r].batch[i + 1] \in Matches
  BY <1>1
<1> QED BY <1>2, RawAssumption DEF Matches, TypeOK

\* The match to be calibrated next has a text.
LEMMA HereType ==
    ASSUME TypeOK, NEW r \in Runs, Len(node[r].out) < Len(node[r].batch)
    PROVE  Here(r) \in Texts
  BY MemberType, NodeType DEF Here

\* The types hold of an empty memory.
LEMMA TypeInit == Init => TypeOK
<1> SUFFICES ASSUME Init PROVE TypeOK
  OBVIOUS
<1>1. \A r \in Runs : node[r] \in NodeStates
  BY RestType DEF Init
<1>2. Far \in 0 .. Far
  BY DEF Far, SUPPORT_DISTANCE
<1> QED BY <1>1, <1>2 DEF Init, TypeOK, Writers

\* A new attempt, of either kind.
LEMMA AttemptStep ==
    ASSUME TypeOK, NEW r \in Runs, Attempt(r)
    PROVE  /\ node' \in [Runs -> NodeStates] /\ attempt' \in [Runs -> Nat]
           /\ attempt'[r] = attempt[r] + 1 /\ attempt[r] \in Nat
           /\ node'[r].step = "calibrate" /\ node'[r].out = node[r].out
           /\ \A o \in Runs \ {r} : node'[o] = node[o] /\ attempt'[o] = attempt[o]
           /\ UNCHANGED <<memory, writer, left, seen, reused>>
<1>1. PICK b \in Batches :
          node' = [node EXCEPT ![r].step = "calibrate", ![r].batch = b]
  BY DEF Attempt
<1>2. [node[r] EXCEPT !.step = "calibrate", !.batch = b] \in NodeStates
  BY NodeType, BatchType DEF NodeStates
<1>3. node' = [node EXCEPT ![r] = [node[r] EXCEPT !.step = "calibrate", !.batch = b]]
  BY <1>1 DEF TypeOK
<1>4. node'[r] = [node[r] EXCEPT !.step = "calibrate", !.batch = b]
  BY <1>3 DEF TypeOK
<1>5. node'[r].step = "calibrate" /\ node'[r].out = node[r].out
  BY <1>4, NodeType DEF NodeStates
<1>6. /\ attempt' = [attempt EXCEPT ![r] = @ + 1]
      /\ UNCHANGED <<memory, writer, left, seen, reused>>
  BY DEF Attempt
<1>7. /\ attempt' \in [Runs -> Nat] /\ attempt'[r] = attempt[r] + 1 /\ attempt[r] \in Nat
      /\ \A o \in Runs \ {r} : attempt'[o] = attempt[o]
  BY <1>6 DEF TypeOK
<1>8. \A o \in Runs \ {r} : node'[o] = node[o]
  BY <1>3 DEF TypeOK
<1>9. node' \in [Runs -> NodeStates]
  BY <1>2, <1>3 DEF TypeOK
<1> QED BY <1>5, <1>6, <1>7, <1>8, <1>9

\* A new attempt keeps the types.
LEMMA TypeAttempt ==
    ASSUME TypeOK, NEW r \in Runs, Match(r) \/ Resume(r)
    PROVE  TypeOK'
<1>1. Attempt(r)
  BY DEF Match, Resume
<1>2. pairs' \in [Runs -> [Keys -> Texts]]
  BY DEF Match, Resume, TypeOK
<1> QED BY <1>1, <1>2, AttemptStep DEF TypeOK

\* Calibrating a match keeps the types.
LEMMA TypeCalibrate ==
    ASSUME TypeOK, NEW r \in Runs, Calibrate(r)
    PROVE  TypeOK'
<1> DEFINE d   == Nearest(Here(r))
           raw == node[r].batch[Len(node[r].out) + 1].raw
           o   == [confidence |-> Calibrated(raw, d),
                   from |-> IF d = Far THEN {} ELSE {writer[k] : k \in Hits(Here(r))}]
<1>1. Here(r) \in Texts /\ raw \in 0 .. 100
  BY HereType, MemberType, NodeType DEF Calibrate
<1>2. d \in 0 .. Far
  BY <1>1, NearestBound
<1>3. o.confidence \in Int
  <2>1. \A a \in 0 .. 100 : \A e \in 0 .. Far : Calibrated(a, e) \in Int
    BY SMT DEF Calibrated, Far, SUPPORT_DISTANCE, MAX_BOOST
  <2> HIDE DEF d, raw
  <2> QED BY <1>1, <1>2, <2>1
<1>4. o.from \in SUBSET Writers
  BY DEF Hits, Stored, TypeOK
<1>5. o \in Outcomes
  BY <1>3, <1>4 DEF Outcomes
<1> HIDE DEF o
<1>6. [node[r] EXCEPT !.out = Append(@, o)] \in NodeStates
  <2>1. Append(node[r].out, o) \in Seq(Outcomes)
    BY ONLY <1>5, NodeType, TypeOK, r \in Runs
  <2> QED BY ONLY <2>1, NodeType, TypeOK, r \in Runs DEF NodeStates
<1>7. node' = [node EXCEPT ![r].out = Append(@, o)]
  BY DEF Calibrate, o
<1>8. node' \in [Runs -> NodeStates]
  BY <1>6, <1>7 DEF TypeOK
<1>9. seen' \in [Texts -> 0 .. Far]
  <2>1. seen' = [seen EXCEPT ![Here(r)] = IF d < @ THEN d ELSE @]
    BY DEF Calibrate
  <2> HIDE DEF d
  <2> QED BY <1>1, <1>2, <2>1 DEF TypeOK
<1> QED BY <1>8, <1>9 DEF Calibrate, TypeOK

\* What storing a match does.
LEMMA StoreStep ==
    ASSUME TypeOK, NEW r \in Runs, Store(r)
    PROVE  \E k \in Keys :
              /\ Upsert(r, k) /\ pairs[r][k] \in Texts
              /\ node' = [node EXCEPT ![r] = [node[r] EXCEPT !.stored = @ + 1]]
              /\ UNCHANGED <<pairs, attempt, left, seen>>
<1>1. node[r].stored \in Nat /\ node[r].stored < Len(node[r].batch)
  BY NodeType DEF Store
<1>2. node' = [node EXCEPT ![r] = [node[r] EXCEPT !.stored = @ + 1]]
  BY DEF Store, StoreNext, TypeOK
<1> QED BY <1>1, <1>2, MemberType DEF Store, StoreNext

\* Storing a match keeps the types.
LEMMA TypeStore ==
    ASSUME TypeOK, NEW r \in Runs, Store(r)
    PROVE  TypeOK'
<1>1. PICK k \in Keys :
          /\ Upsert(r, k) /\ pairs[r][k] \in Texts
          /\ node' = [node EXCEPT ![r] = [node[r] EXCEPT !.stored = @ + 1]]
          /\ UNCHANGED <<pairs, attempt, left, seen>>
  BY StoreStep
<1>2. memory' \in [Keys -> Texts \cup {NoText}] /\ reused' \in BOOLEAN
  BY <1>1 DEF Upsert, TypeOK
<1>3. writer' \in [Keys -> Writers]
  <2>1. <<r, attempt[r]>> \in Writers
    BY DEF TypeOK, Writers
  <2> QED BY <1>1, <2>1 DEF Upsert, TypeOK
<1>4. [node[r] EXCEPT !.stored = @ + 1] \in NodeStates
  BY NodeType DEF NodeStates
<1>5. node' \in [Runs -> NodeStates]
  BY <1>1, <1>4 DEF TypeOK
<1> QED BY <1>1, <1>2, <1>3, <1>5 DEF TypeOK

\* Every step keeps the types.
LEMMA TypeStep == TypeOK /\ [Next]_vars => TypeOK'
<1> SUFFICES ASSUME TypeOK, [Next]_vars PROVE TypeOK'
  OBVIOUS
<1>1. ASSUME NEW r \in Runs, Return(r) \/ Raise(r) PROVE TypeOK'
  BY <1>1, RestType DEF Return, Raise, LeavesMatches, TypeOK
<1>2. CASE Restart
  <2>1. Far \in 0 .. Far
    BY DEF Far, SUPPORT_DISTANCE
  <2> QED BY <1>2, <2>1, RestType DEF Restart, TypeOK, Writers
<1>3. CASE UNCHANGED vars
  BY <1>3 DEF vars, TypeOK
<1> QED BY <1>1, <1>2, <1>3, TypeAttempt, TypeCalibrate, TypeStore DEF Next, Step

-----------------------------------------------------------------------------
(* Support comes from earlier attempts and from other runs.                *)

\* Nothing is known of keys that nobody wrote.
LEMMA NoWriter ==
    ASSUME NEW w, w = <<>>
    PROVE  \A r \in Runs, m \in Nat : w # <<r, m>>
<1> SUFFICES ASSUME NEW r \in Runs, NEW m \in Nat, <<>> = <<r, m>> PROVE FALSE
  OBVIOUS
<1>1. Len(<<>>) = 0 /\ Len(<<r, m>>) = 2
  OBVIOUS
<1> QED BY <1>1

\* A run without outcomes is lifted by nobody.
LEMMA NoSupport ==
    ASSUME NEW r \in Runs, node[r].out = <<>>
    PROVE  Supporters(r) = {}
<1>1. DOMAIN node[r].out = {}
  OBVIOUS
<1> QED BY <1>1 DEF Supporters

\* Nothing changes for the origins.
LEMMA OriginsKept ==
    ASSUME Origins, UNCHANGED vars
    PROVE  Origins'
<1>1. \A r \in Runs : Supporters(r)' = Supporters(r)
  BY DEF vars, Supporters
<1> QED BY <1>1 DEF vars, Origins, Resting, StoredAreWritten, Stored, WritersAreEarlier, Known,
               SupportIsEarlier

\* An attempt ends, with or without a result: what it stored it leaves.
LEMMA OriginsEnd ==
    ASSUME TypeOK, Origins, NEW r \in Runs, Return(r) \/ Raise(r)
    PROVE  Origins'
<1>1. /\ node[r].step = "calibrate" /\ LeavesMatches(r)
      /\ UNCHANGED <<memory, pairs, attempt, writer, seen, reused>>
  BY DEF Return, Raise
<1>2. \A o \in Runs \ {r} : node'[o] = node[o]
  BY DEF Return, Raise, TypeOK
<1>3. node'[r].out = <<>> /\ node'[r].batch = <<>> /\ node'[r].stored = 0
  BY RestType DEF Return, Raise, TypeOK
<1>4. left \subseteq left' /\ (node[r].stored > 0 => r \in left')
  BY <1>1 DEF LeavesMatches
<1>5. Len(node'[r].out) = 0 /\ Len(node'[r].batch) = 0
  BY <1>3
<1>6. WritersAreEarlier'
  <2> SUFFICES ASSUME NEW o \in Runs, NEW k \in Keys, NEW m \in Nat, writer[k] = <<o, m>>
               PROVE  Known(o, m)'
    BY <1>1 DEF WritersAreEarlier
  <2>1. Known(o, m)
    BY DEF Origins, WritersAreEarlier
  <2>2. CASE o = r
    BY <1>1, <1>4, <1>5, <2>1, <2>2 DEF Known
  <2>3. CASE o # r
    BY <1>1, <1>2, <1>4, <2>1, <2>3 DEF Known
  <2> QED BY <2>2, <2>3
<1>7. Resting' /\ StoredAreWritten'
  BY <1>1, <1>2 DEF Return, Raise, Origins, Resting, StoredAreWritten, Stored, TypeOK
<1>8. SupportIsEarlier'
  <2> SUFFICES ASSUME NEW o \in Runs, NEW w \in Supporters(o)', w[1] = o
               PROVE  w[2] < attempt[o] /\ o \in left'
    BY <1>1 DEF SupportIsEarlier
  <2>1. o # r
    BY <1>3 DEF Supporters
  <2>2. Supporters(o)' = Supporters(o)
    BY <1>2, <2>1 DEF Supporters
  <2> QED BY <1>4, <2>2 DEF Origins, SupportIsEarlier
<1> QED BY <1>6, <1>7, <1>8 DEF Origins

\* An attempt begins with a number of its own, for which nothing is stored.
LEMMA OriginsAttempt ==
    ASSUME TypeOK, Origins, NEW r \in Runs, Match(r) \/ Resume(r)
    PROVE  Origins'
<1>1. /\ Attempt(r) /\ node[r].step # "calibrate"
      /\ node[r].out = <<>> /\ node[r].stored = 0
  BY RestType DEF Match, Resume, Origins, Resting
<1>2. /\ attempt'[r] = attempt[r] + 1 /\ attempt[r] \in Nat
      /\ node'[r].out = <<>> /\ node'[r].step = "calibrate"
      /\ \A o \in Runs \ {r} : node'[o] = node[o] /\ attempt'[o] = attempt[o]
      /\ writer' = writer /\ left' = left /\ memory' = memory
  BY <1>1, AttemptStep
<1>3. WritersAreEarlier'
  <2> SUFFICES ASSUME NEW o \in Runs, NEW k \in Keys, NEW m \in Nat, writer[k] = <<o, m>>
               PROVE  Known(o, m)'
    BY <1>2 DEF WritersAreEarlier
  <2>1. Known(o, m)
    BY DEF Origins, WritersAreEarlier
  <2>2. CASE o = r
    <3>1. m <= attempt[r] /\ r \in left
      BY <1>1, <2>1, <2>2 DEF Known
    <3>2. m <= attempt'[r] /\ m # attempt'[r]
      BY <1>2, <3>1
    <3> QED BY <1>2, <2>2, <3>1, <3>2 DEF Known
  <2>3. CASE o # r
    BY <1>2, <2>1, <2>3 DEF Known
  <2> QED BY <2>2, <2>3
<1>4. Resting' /\ StoredAreWritten'
  BY <1>2 DEF Origins, Resting, StoredAreWritten, Stored
<1>5. SupportIsEarlier'
  <2> SUFFICES ASSUME NEW o \in Runs, NEW w \in Supporters(o)', w[1] = o
               PROVE  w[2] < attempt'[o] /\ o \in left
    BY <1>2 DEF SupportIsEarlier
  <2>1. o # r
    BY <1>2 DEF Supporters
  <2>2. Supporters(o)' = Supporters(o)
    BY <1>2, <2>1 DEF Supporters
  <2> QED BY <1>2, <2>1, <2>2 DEF Origins, SupportIsEarlier
<1> QED BY <1>3, <1>4, <1>5 DEF Origins

\* What is found before all is calibrated carries another attempt, and if that
\* is the run's own, the run has left it.
LEMMA OriginsCalibrate ==
    ASSUME TypeOK, Origins, NEW r \in Runs, Calibrate(r)
    PROVE  Origins'
<1>1. PICK o : /\ node' = [node EXCEPT ![r].out = Append(@, o)]
               /\ o.from \subseteq {writer[k] : k \in Stored}
  <2> DEFINE d   == Nearest(Here(r))
             raw == node[r].batch[Len(node[r].out) + 1].raw
             o   == [confidence |-> Calibrated(raw, d),
                     from |-> IF d = Far THEN {} ELSE {writer[k] : k \in Hits(Here(r))}]
  <2>1. node' = [node EXCEPT ![r].out = Append(@, o)]
    BY DEF Calibrate
  <2>2. Hits(Here(r)) \subseteq Stored
    BY DEF Hits
  <2>3. o.from \subseteq {writer[k] : k \in Stored}
    BY <2>2
  <2> HIDE DEF o
  <2> QED BY <2>1, <2>3
<1>2. \A m \in Runs \ {r} : node'[m] = node[m]
  BY <1>1 DEF TypeOK
<1>3. /\ node'[r].out = Append(node[r].out, o) /\ node'[r].batch = node[r].batch
      /\ node'[r].stored = node[r].stored /\ node'[r].step = node[r].step
  BY <1>1, NodeType DEF TypeOK, NodeStates
<1>4. /\ writer' = writer /\ attempt' = attempt /\ left' = left /\ memory' = memory
      /\ node[r].step = "calibrate" /\ Len(node[r].out) < Len(node[r].batch)
  BY DEF Calibrate
<1>5. Len(node'[r].out) = Len(node[r].out) + 1
  BY <1>3, NodeType
<1>6. WritersAreEarlier'
  <2> SUFFICES ASSUME NEW c \in Runs, NEW k \in Keys, NEW m \in Nat, writer[k] = <<c, m>>
               PROVE  Known(c, m)'
    BY <1>4 DEF WritersAreEarlier
  <2>1. Known(c, m)
    BY DEF Origins, WritersAreEarlier
  <2>2. CASE c = r
    BY <1>3, <1>4, <2>1, <2>2 DEF Known
  <2>3. CASE c # r
    BY <1>2, <1>4, <2>1, <2>3 DEF Known
  <2> QED BY <2>2, <2>3
<1>7. Resting' /\ StoredAreWritten'
  BY <1>2, <1>3, <1>4 DEF Origins, Resting, StoredAreWritten, Stored
<1>8. \A w \in o.from : w[1] = r => w[2] < attempt[r] /\ r \in left
  <2> SUFFICES ASSUME NEW k \in Stored, writer[k][1] = r
               PROVE  writer[k][2] < attempt[r] /\ r \in left
    BY <1>1
  <2>1. PICK c \in Runs, m \in Nat : writer[k] = <<c, m>>
    BY DEF Origins, StoredAreWritten
  <2>2. c = r /\ writer[k][2] = m
    BY <2>1
  <2>3. Known(r, m) /\ attempt[r] \in Nat
    BY <2>1, <2>2 DEF Origins, WritersAreEarlier, TypeOK, Stored
  <2>4. m # attempt[r] /\ m <= attempt[r] /\ r \in left
    BY <1>4, <2>3 DEF Known
  <2> QED BY <2>2, <2>3, <2>4
<1>9. SupportIsEarlier'
  <2> SUFFICES ASSUME NEW c \in Runs, NEW w \in Supporters(c)', w[1] = c
               PROVE  w[2] < attempt[c] /\ c \in left
    BY <1>4 DEF SupportIsEarlier
  <2>1. CASE c # r
    <3>1. Supporters(c)' = Supporters(c)
      BY <1>2, <2>1 DEF Supporters
    <3> QED BY <3>1 DEF Origins, SupportIsEarlier
  <2>2. CASE c = r
    <3>1. PICK i \in DOMAIN node'[r].out : w \in node'[r].out[i].from
      BY <2>2 DEF Supporters
    <3>2. \/ i \in DOMAIN node[r].out /\ node'[r].out[i] = node[r].out[i]
          \/ node'[r].out[i] = o
      BY <1>3, <3>1, NodeType
    <3>3. CASE w \in o.from
      BY <1>8, <2>2, <3>3
    <3>4. CASE i \in DOMAIN node[r].out /\ node'[r].out[i] = node[r].out[i]
      <4>1. w \in Supporters(r)
        BY <3>1, <3>4 DEF Supporters
      <4> QED BY <2>2, <4>1 DEF Origins, SupportIsEarlier
    <3> QED BY <3>1, <3>2, <3>3, <3>4
  <2> QED BY <2>1, <2>2
<1> QED BY <1>6, <1>7, <1>9 DEF Origins

\* A run that stores has nothing left to calibrate.
LEMMA OriginsStore ==
    ASSUME TypeOK, Origins, NEW r \in Runs, Store(r)
    PROVE  Origins'
<1>1. PICK l \in Keys :
          /\ Upsert(r, l)
          /\ node' = [node EXCEPT ![r] = [node[r] EXCEPT !.stored = @ + 1]]
          /\ UNCHANGED <<pairs, attempt, left, seen>>
  BY StoreStep
<1>2. \A m \in Runs \ {r} : node'[m] = node[m]
  BY <1>1 DEF TypeOK
<1>3. /\ node'[r].out = node[r].out /\ node'[r].batch = node[r].batch
      /\ node'[r].step = node[r].step /\ node'[r].stored = node[r].stored + 1
  BY <1>1, NodeType DEF TypeOK, NodeStates
<1>4. node[r].step = "calibrate" /\ Len(node[r].out) = Len(node[r].batch)
  BY DEF Store
<1>5. \A k \in Keys : writer'[k] = writer[k] \/ writer'[k] = <<r, attempt[r]>>
  BY <1>1 DEF Upsert, TypeOK
<1>6. \A m \in Runs : Supporters(m)' = Supporters(m)
  <2>1. \A m \in Runs : node'[m].out = node[m].out
    BY <1>2, <1>3
  <2> QED BY <2>1 DEF Supporters
<1>7. WritersAreEarlier'
  <2> SUFFICES ASSUME NEW c \in Runs, NEW k \in Keys, NEW m \in Nat, writer'[k] = <<c, m>>
               PROVE  Known(c, m)'
    BY DEF WritersAreEarlier
  <2>1. CASE writer'[k] = writer[k]
    <3>1. Known(c, m)
      BY <2>1 DEF Origins, WritersAreEarlier
    <3>2. CASE c = r
      <4>1. node[r].stored > 0 => node'[r].stored > 0
        BY <1>3, NodeType
      <4> QED BY <1>1, <1>3, <3>1, <3>2, <4>1 DEF Known
    <3>3. CASE c # r
      BY <1>1, <1>2, <3>1, <3>3 DEF Known
    <3> QED BY <3>2, <3>3
  <2>2. CASE writer'[k] = <<r, attempt[r]>>
    <3>1. c = r /\ m = attempt[r]
      BY <2>2
    <3>2. node'[r].stored > 0
      BY <1>3, NodeType
    <3>3. ~(Len(node'[r].out) < Len(node'[r].batch))
      BY <1>3, <1>4, NodeType
    <3> QED BY <1>1, <1>3, <1>4, <3>1, <3>2, <3>3 DEF Known
  <2> QED BY <1>5, <2>1, <2>2
<1>8. Resting' /\ StoredAreWritten'
  <2>1. Resting'
    BY <1>2, <1>3, <1>4 DEF Origins, Resting
  <2>2. \A k \in Stored' : k = l \/ k \in Stored
    BY <1>1 DEF Upsert, Stored, TypeOK
  <2>3. <<r, attempt[r]>> \in Runs \X Nat /\ writer'[l] = <<r, attempt[r]>>
    BY <1>1 DEF Upsert, TypeOK
  <2>4. StoredAreWritten'
    BY <1>1, <2>2, <2>3 DEF Origins, StoredAreWritten, Stored, Upsert, TypeOK
  <2> QED BY <2>1, <2>4
<1>9. SupportIsEarlier'
  BY <1>1, <1>6 DEF Origins, SupportIsEarlier
<1> QED BY <1>7, <1>8, <1>9 DEF Origins

\* A restart forgets who stored what, and with it every claim about it.
LEMMA OriginsRestart ==
    ASSUME TypeOK, Origins, Restart
    PROVE  Origins'
<1>1. \A r \in Runs : node'[r].out = <<>> /\ node'[r].batch = <<>> /\ node'[r].stored = 0
  BY RestType DEF Restart
<1>2. WritersAreEarlier'
  BY NoWriter DEF Restart, WritersAreEarlier
<1>3. Resting' /\ StoredAreWritten'
  BY DEF Restart, Resting, StoredAreWritten, Stored, TypeOK, Idle, Pending
<1>4. \A r \in Runs : Supporters(r)' = {}
  BY <1>1 DEF Supporters
<1> QED BY <1>2, <1>3, <1>4 DEF Origins, SupportIsEarlier

-----------------------------------------------------------------------------
(* What was seen stays.                                                    *)

\* Calibrating finds no nearer support than the memory holds.
LEMMA SeenCalibrate ==
    ASSUME TypeOK, SeenIsStored, NEW r \in Runs, Calibrate(r)
    PROVE  SeenIsStored'
<1> DEFINE h == Here(r)
           d == Nearest(h)
<1>1. h \in Texts
  BY HereType DEF Calibrate
<1>2. seen' = [seen EXCEPT ![h] = IF d < @ THEN d ELSE @] /\ UNCHANGED <<memory, reused>>
  BY DEF Calibrate
<1>3. Stored' = Stored
  BY <1>2 DEF Stored
<1>4. d # Far => \E k \in Stored : Distance[h][memory[k]] = d
  BY <1>1, NearestBound
<1>5. d \in Nat
  <2>1. d \in 0 .. Far
    BY <1>1, NearestBound
  <2> HIDE DEF d
  <2> QED BY <2>1
<1> HIDE DEF d, h
<1> SUFFICES ASSUME ~reused, NEW t \in Texts, seen'[t] # Far
             PROVE  \E k \in Stored : Distance[t][memory[k]] <= seen'[t]
  BY <1>2, <1>3 DEF SeenIsStored
<1>6. CASE seen'[t] = seen[t]
  BY <1>6 DEF SeenIsStored
<1>7. CASE t = h /\ seen'[t] = d
  <2>1. PICK k \in Stored : Distance[t][memory[k]] = d
    BY <1>4, <1>7
  <2>2. d <= d
    BY <1>5
  <2> QED BY <1>7, <2>1, <2>2
<1> QED BY <1>1, <1>2, <1>6, <1>7 DEF TypeOK

\* Storing takes no support away, unless a key is given another text.
LEMMA SeenStore ==
    ASSUME TypeOK, SeenIsStored, NEW r \in Runs, Store(r)
    PROVE  SeenIsStored'
<1>1. PICK l \in Keys : Upsert(r, l) /\ pairs[r][l] \in Texts /\ seen' = seen
  BY StoreStep
<1> SUFFICES ASSUME ~reused', NEW t \in Texts, seen[t] # Far
             PROVE  \E k \in Stored' : Distance[t][memory'[k]] <= seen[t]
  BY <1>1 DEF SeenIsStored
<1>2. ~reused /\ memory[l] \in {NoText, pairs[r][l]}
  BY <1>1 DEF Upsert
<1>3. PICK k \in Stored : Distance[t][memory[k]] <= seen[t]
  BY <1>2 DEF SeenIsStored
<1>4. k \in Keys /\ memory'[k] = memory[k]
  BY <1>1, <1>2, <1>3, StoredText DEF Upsert, TypeOK, Stored
<1>5. k \in Stored'
  BY <1>3, <1>4 DEF Stored
<1> QED BY <1>3, <1>4, <1>5

-----------------------------------------------------------------------------
(* The theorems.                                                           *)

\* The invariant holds of an empty memory.
LEMMA InvInit == Init => IInv
<1> SUFFICES ASSUME Init PROVE IInv
  OBVIOUS
<1>1. WritersAreEarlier
  BY NoWriter DEF Init, WritersAreEarlier
<1>2. Resting /\ StoredAreWritten
  BY DEF Init, Resting, StoredAreWritten, Stored
<1>3. SupportIsEarlier
  BY RestType, NoSupport DEF Init, SupportIsEarlier
<1>4. SeenIsStored
  BY DEF Init, SeenIsStored
<1> QED BY <1>1, <1>2, <1>3, <1>4, TypeInit DEF IInv, Origins

\* Every step preserves the invariant.
LEMMA InvStep == IInv /\ [Next]_vars => IInv'
<1> SUFFICES ASSUME IInv, [Next]_vars PROVE IInv'
  OBVIOUS
<1> USE DEF IInv
<1>1. TypeOK'
  BY TypeStep
<1>2. ASSUME NEW r \in Runs, Match(r) \/ Resume(r) PROVE Origins' /\ SeenIsStored'
  <2>1. UNCHANGED <<memory, seen, reused>>
    BY <1>2 DEF Match, Resume, Attempt
  <2> QED BY <1>2, <2>1, OriginsAttempt DEF SeenIsStored, Stored
<1>3. ASSUME NEW r \in Runs, Calibrate(r) PROVE Origins' /\ SeenIsStored'
  BY <1>3, OriginsCalibrate, SeenCalibrate
<1>4. ASSUME NEW r \in Runs, Store(r) PROVE Origins' /\ SeenIsStored'
  BY <1>4, OriginsStore, SeenStore
<1>5. ASSUME NEW r \in Runs, Return(r) \/ Raise(r) PROVE Origins' /\ SeenIsStored'
  <2>1. UNCHANGED <<memory, seen, reused>>
    BY <1>5 DEF Return, Raise
  <2> QED BY <1>5, <2>1, OriginsEnd DEF SeenIsStored, Stored
<1>6. CASE Restart
  <2>1. \A t \in Texts : seen'[t] = Far
    BY <1>6 DEF Restart
  <2>2. Far' = Far
    BY DEF Far
  <2> QED BY <1>1, <1>6, <2>1, <2>2, OriginsRestart DEF SeenIsStored
<1>7. CASE UNCHANGED vars
  <2>1. UNCHANGED <<memory, seen, reused>>
    BY <1>7 DEF vars
  <2> QED BY <1>1, <1>7, <2>1, OriginsKept DEF SeenIsStored, Stored
<1> QED BY <1>1, <1>2, <1>3, <1>4, <1>5, <1>6, <1>7 DEF Next, Step

\* The inductive invariant, which types every variable too.
THEOREM InvInductive == Spec => []IInv
  BY InvInit, InvStep, PTL DEF Spec

\* No match is its own support or that of another match of its attempt, and a
\* run supports itself only by what an ended attempt left in this process
\* (run_match_subgraph calibrates all matches before it stores any).
THEOREM SupportIsEarlierHolds == Spec => []SupportIsEarlier
<1>1. IInv => SupportIsEarlier
  BY DEF IInv, Origins
<1> QED BY <1>1, InvInductive, PTL

\* A pair that found support in the memory finds as much when it comes again,
\* while the process lives and no pair of ids changes its text (upsert_match).
THEOREM SupportLastsHolds == Spec => []SupportLasts
<1>1. IInv => SupportLasts
  BY SeenIsFound DEF IInv
<1> QED BY <1>1, InvInductive, PTL
=============================================================================
