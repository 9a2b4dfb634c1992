-------------------------- MODULE SelectionProofs --------------------------
(***************************************************************************)
(* What selecting from a list returns, keeps and drops.                     *)
(***************************************************************************)
EXTENDS Selection, Integers, SequenceTheorems, WellFoundedInduction, TLAPS

-----------------------------------------------------------------------------
(* Induction.                                                              *)

\* A set of numbers that has 0 and the successor of each of its members has
\* them all: the least number outside would have a predecessor inside.
LEMMA AllNumbers ==
    ASSUME NEW S, 0 \in S, \A n \in Nat : n \in S => n + 1 \in S
    PROVE  Nat \subseteq S
<1> DEFINE T == Nat \ S
<1>1. SUFFICES ASSUME T # {} PROVE FALSE
  OBVIOUS
<1>2. PICK m \in T : \A n \in T : <<n, m>> \notin OpToRel(<, Nat)
  BY <1>1, NatLessThanWellFounded, WFMin
<1>3. \A n \in T : ~(n < m)
  BY <1>2 DEF OpToRel
<1>4. m \in Nat /\ m \notin S /\ m # 0
  BY <1>2
<1>5. m - 1 \in Nat /\ m - 1 < m /\ (m - 1) + 1 = m
  BY <1>4
<1>6. m - 1 \in S
  BY <1>3, <1>5
<1> QED
  BY <1>4, <1>5, <1>6

-----------------------------------------------------------------------------
(* The definition.                                                         *)

\* kept is what has been kept of the first i elements, for every i.
Keeps(kept, s, S, n) ==
    kept = [i \in 0 .. n |-> IF i = 0 THEN <<>>
                             ELSE IF s[i] \in S THEN Append(kept[i - 1], s[i])
                             ELSE kept[i - 1]]

\* There is such a function for every bound.
LEMMA KeepsExists ==
    ASSUME NEW s, NEW S, NEW n \in Nat
    PROVE  \E kept : Keeps(kept, s, S, n)
<1> DEFINE Good == {k \in Nat : \E kept : Keeps(kept, s, S, k)}
<1>1. 0 \in Good
  <2> DEFINE kept == [i \in 0 .. 0 |-> <<>>]
  <2>1. Keeps(kept, s, S, 0)
    BY DEF Keeps
  <2> HIDE DEF kept
  <2> QED
    BY <2>1
<1>2. ASSUME NEW k \in Nat, k \in Good PROVE k + 1 \in Good
  <2>1. PICK old : Keeps(old, s, S, k)
    BY <1>2
  <2> DEFINE last == IF s[k + 1] \in S THEN Append(old[k], s[k + 1]) ELSE old[k]
             kept == [i \in 0 .. k + 1 |-> IF i = k + 1 THEN last ELSE old[i]]
  <2>2. \A i \in 0 .. k : old[i] = IF i = 0 THEN <<>>
                                   ELSE IF s[i] \in S THEN Append(old[i - 1], s[i])
                                   ELSE old[i - 1]
    BY <2>1 DEF Keeps
  <2>3. \A i \in 0 .. k + 1 : kept[i] = IF i = 0 THEN <<>>
                                        ELSE IF s[i] \in S THEN Append(kept[i - 1], s[i])
                                        ELSE kept[i - 1]
    <3> SUFFICES ASSUME NEW i \in 0 .. k + 1
                 PROVE  kept[i] = IF i = 0 THEN <<>>
                                  ELSE IF s[i] \in S THEN Append(kept[i - 1], s[i])
                                  ELSE kept[i - 1]
      OBVIOUS
    <3>1. i = 0 \/ i - 1 \in 0 .. k
      OBVIOUS
    <3>2. i # 0 => kept[i - 1] = old[i - 1]
      BY <3>1
    <3>3. CASE i = k + 1
      BY <3>2, <3>3
    <3>4. CASE i # k + 1
      <4>1. i \in 0 .. k /\ kept[i] = old[i]
        BY <3>4
      <4> HIDE DEF kept
      <4> QED
        BY <2>2, <3>2, <4>1
    <3> QED
      BY <3>3, <3>4
  <2>4. kept = [i \in 0 .. k + 1 |-> kept[i]]
    OBVIOUS
  <2> HIDE DEF kept
  <2>5. Keeps(kept, s, S, k + 1)
    BY <2>3, <2>4 DEF Keeps
  <2> QED
    BY <2>5
<1> HIDE DEF Good
<1>3. Nat \subseteq Good
  BY <1>1, <1>2, AllNumbers
<1> QED
  BY <1>3 DEF Good

\* Among takes the last value of such a function.
LEMMA AmongIs ==
    ASSUME NEW s, NEW S, Len(s) \in Nat
    PROVE  \E kept : Keeps(kept, s, S, Len(s)) /\ Among(s, S) = kept[Len(s)]
<1>1. Among(s, S) = (CHOOSE kept : Keeps(kept, s, S, Len(s)))[Len(s)]
  BY DEF Among, Keeps
<1>2. Keeps(CHOOSE kept : Keeps(kept, s, S, Len(s)), s, S, Len(s))
  BY KeepsExists
<1> QED
  BY <1>1, <1>2

\* Lists that agree on their first elements keep the same of them.
LEMMA KeepsAgree ==
    ASSUME NEW s, NEW t, NEW S, NEW n \in Nat, NEW m \in Nat, n <= m,
           \A i \in 1 .. n : s[i] = t[i],
           NEW a, NEW b, Keeps(a, s, S, n), Keeps(b, t, S, m)
    PROVE  \A i \in 0 .. n : a[i] = b[i]
<1> DEFINE Good == {i \in Nat : i <= n => a[i] = b[i]}
<1>1. \A i \in 0 .. n : a[i] = IF i = 0 THEN <<>>
                               ELSE IF s[i] \in S THEN Append(a[i - 1], s[i]) ELSE a[i - 1]
  BY DEF Keeps
<1>2. \A i \in 0 .. m : b[i] = IF i = 0 THEN <<>>
                               ELSE IF t[i] \in S THEN Append(b[i - 1], t[i]) ELSE b[i - 1]
  BY DEF Keeps
<1>3. 0 \in Good
  BY <1>1, <1>2
<1>4. ASSUME NEW i \in Nat, i \in Good PROVE i + 1 \in Good
  <2>1. SUFFICES ASSUME i + 1 <= n PROVE a[i + 1] = b[i + 1]
    OBVIOUS
  <2>2. /\ i + 1 \in 0 .. n /\ i + 1 \in 0 .. m /\ i + 1 \in 1 .. n
        /\ i + 1 # 0 /\ (i + 1) - 1 = i /\ a[i] = b[i]
    BY <1>4, <2>1
  <2> QED
    BY <1>1, <1>2, <2>2
<1> HIDE DEF Good
<1>5. Nat \subseteq Good
  BY <1>3, <1>4, AllNumbers
<1> QED
  BY <1>5 DEF Good

\* Nothing is kept of nothing.
LEMMA AmongEmpty == \A S : Among(<<>>, S) = <<>>
<1> SUFFICES ASSUME NEW S PROVE Among(<<>>, S) = <<>>
  OBVIOUS
<1>1. PICK kept : Keeps(kept, <<>>, S, 0) /\ Among(<<>>, S) = kept[0]
  BY AmongIs
<1> QED
  BY <1>1 DEF Keeps

\* One more element is kept or not, after those before it.
LEMMA AmongAppend ==
    ASSUME NEW T, NEW s \in Seq(T), NEW x \in T, NEW S
    PROVE  Among(Append(s, x), S) = IF x \in S THEN Append(Among(s, S), x) ELSE Among(s, S)
<1> DEFINE n == Len(s)
           t == Append(s, x)
<1>1. /\ n \in Nat /\ Len(t) = n + 1 /\ t[n + 1] = x
      /\ \A i \in 1 .. n : s[i] = t[i]
  OBVIOUS
<1> HIDE DEF n, t
<1>2. PICK a : Keeps(a, s, S, n) /\ Among(s, S) = a[n]
  BY <1>1, AmongIs DEF n
<1>3. PICK b : Keeps(b, t, S, n + 1) /\ Among(t, S) = b[n + 1]
  BY <1>1, AmongIs
<1>4. a[n] = b[n]
  <2>1. n \in Nat /\ n + 1 \in Nat /\ n <= n + 1 /\ n \in 0 .. n
    BY <1>1
  <2>2. Keeps(a, s, S, n) /\ Keeps(b, t, S, n + 1) /\ \A i \in 1 .. n : s[i] = t[i]
    BY <1>1, <1>2, <1>3
  <2>3. ASSUME NEW k \in Nat, NEW l \in Nat, k <= l, \A i \in 1 .. k : s[i] = t[i],
               Keeps(a, s, S, k), Keeps(b, t, S, l)
        PROVE  \A i \in 0 .. k : a[i] = b[i]
    BY <2>3, KeepsAgree
  <2>4. \A i \in 0 .. n : a[i] = b[i]
    BY <2>1, <2>2, <2>3
  <2> QED
    BY <2>1, <2>4
<1>5. b[n + 1] = IF t[n + 1] \in S THEN Append(b[n], t[n + 1]) ELSE b[n]
  <2>1. n + 1 \in 0 .. n + 1 /\ n + 1 # 0 /\ (n + 1) - 1 = n
    BY <1>1
  <2> QED
    BY <1>3, <2>1 DEF Keeps
<1> QED
  BY <1>1, <1>2, <1>3, <1>4, <1>5 DEF t

-----------------------------------------------------------------------------
(* What it does.                                                           *)

\* A set of lists that has the empty one and with each list its extensions has
\* them all.
LEMMA AllSequences ==
    ASSUME NEW T, NEW P, <<>> \in P,
           \A s \in Seq(T) : \A x \in T : s \in P => Append(s, x) \in P
    PROVE  Seq(T) \subseteq P
<1> DEFINE Good == {n \in Nat : \A s \in Seq(T) : Len(s) = n => s \in P}
<1>1. 0 \in Good
  BY EmptySeq
<1>2. ASSUME NEW n \in Nat, n \in Good PROVE n + 1 \in Good
  <2> SUFFICES ASSUME NEW s \in Seq(T), Len(s) = n + 1 PROVE s \in P
    OBVIOUS
  <2>1. s # <<>>
    BY EmptySeq
  <2>2. PICK front \in Seq(T), x \in T : s = Append(front, x)
    BY <2>1, SequenceEmptyOrAppend
  <2>3. Len(front) = n
    BY <2>2
  <2> QED
    BY <1>2, <2>2, <2>3
<1> HIDE DEF Good
<1>3. Nat \subseteq Good
  BY <1>1, <1>2, AllNumbers
<1> QED
  BY <1>3, LenProperties DEF Good

\* What is kept is a list of elements that are in the set.
LEMMA AmongType ==
    ASSUME NEW T, NEW S, NEW s \in Seq(T)
    PROVE  Among(s, S) \in Seq(T \cap S)
<1> DEFINE P == {q \in Seq(T) : Among(q, S) \in Seq(T \cap S)}
<1>1. <<>> \in P
  BY AmongEmpty, EmptySeq
<1>2. ASSUME NEW q \in Seq(T), NEW x \in T, q \in P PROVE Append(q, x) \in P
  <2>1. Append(q, x) \in Seq(T)
    OBVIOUS
  <2>2. CASE x \in S
    <3>1. Among(Append(q, x), S) = Append(Among(q, S), x)
      BY <2>2, AmongAppend
    <3>2. x \in T \cap S /\ Among(q, S) \in Seq(T \cap S)
      BY <1>2, <2>2
    <3>3. Append(Among(q, S), x) \in Seq(T \cap S)
      BY <3>2, AppendProperties
    <3> QED
      BY <2>1, <3>1, <3>3
  <2>3. CASE x \notin S
    BY <1>2, <2>1, <2>3, AmongAppend
  <2> QED
    BY <2>2, <2>3
<1> HIDE DEF P
<1>3. Seq(T) \subseteq P
  BY <1>1, <1>2, AllSequences
<1> QED
  BY <1>3 DEF P

\* Of a list of elements of the set everything is kept.
LEMMA AmongAll ==
    ASSUME NEW T, NEW S, T \subseteq S, NEW s \in Seq(T)
    PROVE  Among(s, S) = s
<1> DEFINE P == {q \in Seq(T) : Among(q, S) = q}
<1>1. <<>> \in P
  BY AmongEmpty, EmptySeq
<1>2. ASSUME NEW q \in Seq(T), NEW x \in T, q \in P PROVE Append(q, x) \in P
  <2>1. Append(q, x) \in Seq(T)
    OBVIOUS
  <2> QED
    BY <1>2, <2>1, AmongAppend
<1> HIDE DEF P
<1>3. Seq(T) \subseteq P
  BY <1>1, <1>2, AllSequences
<1> QED
  BY <1>3 DEF P

\* Of a list of others nothing is.
LEMMA AmongNone ==
    ASSUME NEW T, NEW S, T \cap S = {}, NEW s \in Seq(T)
    PROVE  Among(s, S) = <<>>
<1> DEFINE P == {q \in Seq(T) : Among(q, S) = <<>>}
<1>1. <<>> \in P
  BY AmongEmpty, EmptySeq
<1>2. ASSUME NEW q \in Seq(T), NEW x \in T, q \in P PROVE Append(q, x) \in P
  <2>1. Append(q, x) \in Seq(T) /\ x \notin S
    OBVIOUS
  <2> QED
    BY <1>2, <2>1, AmongAppend
<1> HIDE DEF P
<1>3. Seq(T) \subseteq P
  BY <1>1, <1>2, AllSequences
<1> QED
  BY <1>3 DEF P

\* Selecting from two lists one after the other is selecting from both.
LEMMA AmongConcat ==
    ASSUME NEW T, NEW S, NEW s \in Seq(T), NEW t \in Seq(T)
    PROVE  Among(s \o t, S) = Among(s, S) \o Among(t, S)
<1> DEFINE P == {q \in Seq(T) : Among(s \o q, S) = Among(s, S) \o Among(q, S)}
<1>1. <<>> \in P
  <2>1. s \o <<>> = s /\ Among(s, S) \o <<>> = Among(s, S)
    BY AmongType, ConcatEmptySeq
  <2> QED
    BY <2>1, AmongEmpty, EmptySeq
<1>2. ASSUME NEW q \in Seq(T), NEW x \in T, q \in P PROVE Append(q, x) \in P
  <2>1. Append(q, x) \in Seq(T) /\ s \o q \in Seq(T) /\ s \o Append(q, x) = Append(s \o q, x)
    OBVIOUS
  <2>2. Among(s, S) \in Seq(T \cap S) /\ Among(q, S) \in Seq(T \cap S)
    BY AmongType
  <2>3. Among(s \o q, S) = Among(s, S) \o Among(q, S)
    BY <1>2
  <2>4. CASE x \in S
    <3>1. Among(Append(s \o q, x), S) = Append(Among(s \o q, S), x)
      BY <2>1, <2>4, AmongAppend
    <3>2. Among(Append(q, x), S) = Append(Among(q, S), x)
      BY <2>4, AmongAppend
    <3>3. x \in T \cap S
      BY <2>4
    <3>4. Append(Among(s, S) \o Among(q, S), x) = Among(s, S) \o Append(Among(q, S), x)
      <4> DEFINE K == T \cap S
                 a == Among(s, S)
                 b == Among(q, S)
      <4>1. a \in Seq(K) /\ b \in Seq(K) /\ x \in K
        BY <2>2, <3>3
      <4> HIDE DEF K, a, b
      <4>2. a \o b \in Seq(K) /\ <<x>> \in Seq(K)
        BY <4>1
      <4>3. Append(a \o b, x) = (a \o b) \o <<x>>
        BY <4>1, <4>2, AppendIsConcat
      <4>4. Append(b, x) = b \o <<x>>
        BY <4>1, AppendIsConcat
      <4>5. (a \o b) \o <<x>> = a \o (b \o <<x>>)
        BY <4>1, <4>2, ConcatAssociative
      <4> QED
        BY <4>3, <4>4, <4>5 DEF a, b
    <3> QED
      BY <2>1, <2>3, <3>1, <3>2, <3>4
  <2>5. CASE x \notin S
    <3>1. /\ Among(Append(s \o q, x), S) = Among(s \o q, S)
          /\ Among(Append(q, x), S) = Among(q, S)
      BY <2>1, <2>5, AmongAppend
    <3> QED
      BY <2>1, <2>3, <3>1
  <2> QED
    BY <2>4, <2>5
<1> HIDE DEF P
<1>3. Seq(T) \subseteq P
  BY <1>1, <1>2, AllSequences
<1> QED
  BY <1>3 DEF P

\* One list after the other, by a name: the provers expand the operator \o where
\* it stands in an equation, and would not find the facts below.
Joined(s, t) == s \o t

\* What is added to a list is selected as a whole, or not at all, when all of it is
\* of the kind that is selected, or of another.
LEMMA AmongAdded ==
    ASSUME NEW T, NEW S, NEW A, A \subseteq T, NEW s \in Seq(T), NEW t \in Seq(A)
    PROVE  /\ A \subseteq S   => Among(Joined(s, t), S) = Joined(Among(s, S), t)
           /\ A \cap S = {} => Among(Joined(s, t), S) = Among(s, S)
<1>1. t \in Seq(T)
  BY SeqMonotonic
<1>2. Among(s \o t, S) = Among(s, S) \o Among(t, S)
  BY <1>1, AmongConcat
<1>3. A \subseteq S => Among(t, S) = t
  BY AmongAll
<1>4. A \cap S = {} => Among(t, S) = <<>>
  BY AmongNone
<1>5. Among(s, S) \in Seq(T \cap S)
  BY AmongType
<1>6. Among(s, S) \o <<>> = Among(s, S)
  BY <1>5, ConcatEmptySeq
<1> QED
  BY <1>2, <1>3, <1>4, <1>6 DEF Joined

\* What occurs in a list.
In(s) == {s[i] : i \in 1 .. Len(s)}

\* What occurs in two lists is what occurs in one or the other.
LEMMA InJoined ==
    ASSUME NEW T, NEW s \in Seq(T), NEW t \in Seq(T)
    PROVE  In(Joined(s, t)) = In(s) \cup In(t)
<1> DEFINE l == s \o t
           m == Len(s)
           n == Len(t)
<1>1. /\ m \in Nat /\ n \in Nat /\ Len(l) = m + n
      /\ \A i \in 1 .. m + n : l[i] = IF i <= m THEN s[i] ELSE t[i - m]
  OBVIOUS
<1> HIDE DEF l, m, n
<1>2. \A i \in 1 .. m : i \in 1 .. m + n /\ l[i] = s[i]
  BY <1>1
<1>3. \A i \in 1 .. n : i + m \in 1 .. m + n /\ l[i + m] = t[i]
  BY <1>1
<1>4. \A i \in 1 .. m + n : l[i] \in {s[j] : j \in 1 .. m} \cup {t[j] : j \in 1 .. n}
  <2> SUFFICES ASSUME NEW i \in 1 .. m + n
               PROVE  l[i] \in {s[j] : j \in 1 .. m} \cup {t[j] : j \in 1 .. n}
    OBVIOUS
  <2>1. CASE i <= m
    BY <1>1, <2>1
  <2>2. CASE ~(i <= m)
    <3>1. i - m \in 1 .. n /\ l[i] = t[i - m]
      BY <1>1, <2>2
    <3> QED
      BY <3>1
  <2> QED
    BY <2>1, <2>2
<1>5. {l[i] : i \in 1 .. m + n} = {s[j] : j \in 1 .. m} \cup {t[j] : j \in 1 .. n}
  BY <1>2, <1>3, <1>4
<1>6. In(l) = {l[i] : i \in 1 .. m + n} /\ Joined(s, t) = l
  BY <1>1 DEF In, Joined, l
<1> QED
  BY <1>5, <1>6 DEF In, m, n

\* Nothing of the set is left out, and nothing is made up.
LEMMA AmongKeeps ==
    ASSUME NEW T, NEW S, NEW s \in Seq(T)
    PROVE  In(Among(s, S)) = In(s) \cap S
<1> DEFINE P == {q \in Seq(T) : In(Among(q, S)) = In(q) \cap S}
<1>1. \A q \in Seq(T) : \A x \in T : In(Append(q, x)) = In(q) \cup {x}
  <2> SUFFICES ASSUME NEW q \in Seq(T), NEW x \in T PROVE In(Append(q, x)) = In(q) \cup {x}
    OBVIOUS
  <2>1. /\ Len(q) \in Nat /\ Len(Append(q, x)) = Len(q) + 1 /\ Append(q, x)[Len(q) + 1] = x
        /\ \A i \in 1 .. Len(q) : Append(q, x)[i] = q[i]
    OBVIOUS
  <2>2. \A n \in Nat : 1 .. n + 1 = (1 .. n) \cup {n + 1}
    OBVIOUS
  <2> QED
    BY <2>1, <2>2 DEF In
<1>2. In(<<>>) = {}
  BY DEF In
<1>3. <<>> \in P
  BY <1>2, AmongEmpty, EmptySeq
<1>4. ASSUME NEW q \in Seq(T), NEW x \in T, q \in P PROVE Append(q, x) \in P
  <2>1. Append(q, x) \in Seq(T) /\ Among(q, S) \in Seq(T \cap S)
    BY AmongType
  <2>2. Among(q, S) \in Seq(T)
    BY <2>1, SeqMonotonic
  <2>3. In(Append(q, x)) = In(q) \cup {x} /\ In(Among(q, S)) = In(q) \cap S
    BY <1>1, <1>4
  <2>4. CASE x \in S
    <3>1. Among(Append(q, x), S) = Append(Among(q, S), x)
      BY <2>4, AmongAppend
    <3>2. In(Append(Among(q, S), x)) = In(Among(q, S)) \cup {x}
      BY <1>1, <2>2
    <3> QED
      BY <2>1, <2>3, <2>4, <3>1, <3>2
  <2>5. CASE x \notin S
    <3>1. Among(Append(q, x), S) = Among(q, S)
      BY <2>5, AmongAppend
    <3> QED
      BY <2>1, <2>3, <2>5, <3>1
  <2> QED
    BY <2>4, <2>5
<1> HIDE DEF P
<1>5. Seq(T) \subseteq P
  BY <1>3, <1>4, AllSequences
<1> QED
  BY <1>5 DEF P

\* A list in which no element occurs twice.
Distinct(s) == \A i, j \in 1 .. Len(s) : s[i] = s[j] => i = j

\* Its head does not occur in its tail, and nothing else is lost.
LEMMA DistinctTail ==
    ASSUME NEW T, NEW s \in Seq(T), s # <<>>, Distinct(s)
    PROVE  /\ Head(s) \in In(s) /\ Head(s) \in T /\ Tail(s) \in Seq(T)
           /\ In(Tail(s)) = In(s) \ {Head(s)} /\ Distinct(Tail(s))
<1> DEFINE n == Len(s)
           t == Tail(s)
<1>1. /\ n \in Nat /\ n >= 1 /\ Head(s) = s[1] /\ t \in Seq(T) /\ Len(t) = n - 1
      /\ \A i \in 1 .. n - 1 : t[i] = s[i + 1]
  OBVIOUS
<1>2. 1 \in 1 .. n /\ s[1] \in T
  BY <1>1
<1> HIDE DEF n, t
<1>3. \A i, j \in 1 .. n : s[i] = s[j] => i = j
  BY DEF Distinct, n
<1>4. In(s) = {s[i] : i \in 1 .. n} /\ In(t) = {t[i] : i \in 1 .. n - 1}
  BY <1>1 DEF In, n
<1>5. \A i \in 1 .. n - 1 : i + 1 \in 1 .. n /\ i + 1 # 1
  BY <1>1
<1>6. \A x : x \in In(t) => x \in In(s) /\ x # s[1]
  BY <1>1, <1>2, <1>3, <1>4, <1>5
<1>7. ASSUME NEW x \in In(s), x # s[1] PROVE x \in In(t)
  <2>1. PICK i \in 1 .. n : x = s[i]
    BY <1>4
  <2>2. i - 1 \in 1 .. n - 1 /\ (i - 1) + 1 = i
    BY <1>1, <1>7, <2>1
  <2>3. x = t[i - 1]
    BY <1>1, <2>1, <2>2
  <2> QED
    BY <1>4, <2>2, <2>3
<1>8. Distinct(t)
  <2> SUFFICES ASSUME NEW i \in 1 .. n - 1, NEW j \in 1 .. n - 1, t[i] = t[j] PROVE i = j
    BY <1>1 DEF Distinct
  <2>1. i + 1 = j + 1
    BY <1>1, <1>3, <1>5
  <2> QED
    BY <1>1, <2>1
<1> QED
  BY <1>1, <1>2, <1>4, <1>6, <1>7, <1>8 DEF t

\* What is kept of such a list is such a list.
LEMMA AmongDistinct ==
    ASSUME NEW T, NEW S, NEW s \in Seq(T), Distinct(s)
    PROVE  Distinct(Among(s, S))
<1> DEFINE P == {q \in Seq(T) : Distinct(q) => Distinct(Among(q, S))}
<1>1. \A q \in Seq(T) : \A x \in T : Distinct(Append(q, x)) <=> Distinct(q) /\ x \notin In(q)
  <2> SUFFICES ASSUME NEW q \in Seq(T), NEW x \in T
               PROVE  Distinct(Append(q, x)) <=> Distinct(q) /\ x \notin In(q)
    OBVIOUS
  <2> DEFINE n == Len(q)
             l == Append(q, x)
  <2>1. /\ n \in Nat /\ Len(l) = n + 1 /\ l[n + 1] = x
        /\ \A i \in 1 .. n : l[i] = q[i]
    OBVIOUS
  <2> HIDE DEF n, l
  <2>2. \A i \in 1 .. n + 1 : i \in 1 .. n \/ i = n + 1
    BY <2>1
  <2>3. \A i \in 1 .. n : i \in 1 .. n + 1 /\ i # n + 1
    BY <2>1
  <2>4. n + 1 \in 1 .. n + 1
    BY <2>1
  <2>5. Distinct(l) => Distinct(q) /\ x \notin In(q)
    BY <2>1, <2>3, <2>4 DEF Distinct, In, n
  <2>6. Distinct(q) /\ x \notin In(q) => Distinct(l)
    BY <2>1, <2>2 DEF Distinct, In, n
  <2> QED
    BY <2>5, <2>6 DEF l
<1>2. <<>> \in P
  BY AmongEmpty, EmptySeq
<1>3. ASSUME NEW q \in Seq(T), NEW x \in T, q \in P PROVE Append(q, x) \in P
  <2>1. Append(q, x) \in Seq(T) /\ Among(q, S) \in Seq(T \cap S)
    BY AmongType
  <2>2. Among(q, S) \in Seq(T) /\ In(Among(q, S)) = In(q) \cap S
    BY <2>1, SeqMonotonic, AmongKeeps
  <2> SUFFICES ASSUME Distinct(Append(q, x)) PROVE Distinct(Among(Append(q, x), S))
    BY <2>1
  <2>3. Distinct(Among(q, S)) /\ x \notin In(Among(q, S))
    BY <1>1, <1>3, <2>2
  <2>4. CASE x \in S
    <3>1. Among(Append(q, x), S) = Append(Among(q, S), x)
      BY <2>4, AmongAppend
    <3> QED
      BY <1>1, <2>2, <2>3, <3>1
  <2>5. CASE x \notin S
    <3>1. Among(Append(q, x), S) = Among(q, S)
      BY <2>5, AmongAppend
    <3> QED
      BY <2>3, <3>1
  <2> QED
    BY <2>4, <2>5
<1> HIDE DEF P
<1>4. Seq(T) \subseteq P
  BY <1>2, <1>3, AllSequences
<1> QED
  BY <1>4 DEF P
=============================================================================
