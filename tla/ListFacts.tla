------------------------------ MODULE ListFacts ------------------------------
(***************************************************************************)
(* Facts about sequences and numbers that the proofs share.                *)
(***************************************************************************)
EXTENDS Integers, Sequences, SequenceTheorems, FiniteSetTheorems, WellFoundedInduction, TLAPS

\* A set of natural numbers has a least element.
LEMMA LeastNumber ==
  ASSUME NEW S \in SUBSET Nat, S # {}
  PROVE  \E i \in S : \A j \in S : i <= j
<1> DEFINE R == OpToRel(<, Nat)
<1>1. \A i, j \in Nat : <<i, j>> \in R <=> i < j
  BY DEF OpToRel
<1>2. IsWellFoundedOn(R, Nat)
  BY NatLessThanWellFounded
<1> HIDE DEF R
<1>3. PICK i \in S : \A j \in S : ~ (<<j, i>> \in R)
  BY <1>2, WFMin
<1>4. \A j \in S : i \in Nat /\ j \in Nat /\ ~ (j < i)
  BY <1>1, <1>3
<1> QED BY <1>4

-----------------------------------------------------------------------------
\* Facts about sequences whose elements have no common type.

IsList(s) == s \in Seq({s[i] : i \in DOMAIN s})

\* The domain of a list is 1 .. Len.
LEMMA ListDomain ==
  ASSUME NEW s, IsList(s)
  PROVE  Len(s) \in Nat /\ DOMAIN s = 1 .. Len(s)
BY DEF IsList

\* Every sequence over some set is a list.
LEMMA SeqIsList ==
  ASSUME NEW S, NEW s \in Seq(S)
  PROVE  IsList(s)
<1> DEFINE T == {s[i] : i \in DOMAIN s}
<1>1. Len(s) \in Nat /\ DOMAIN s = 1 .. Len(s) /\ s \in [1 .. Len(s) -> S]
  BY LenProperties
<1>2. \A i \in DOMAIN s : s[i] \in T
  OBVIOUS
<1>3. s \in [1 .. Len(s) -> T]
  BY <1>1, <1>2
<1> QED BY <1>1, <1>3, SeqDef DEF IsList

\* Append adds one position and leaves the others alone.
LEMMA AppendList ==
  ASSUME NEW s, IsList(s), NEW x
  PROVE  /\ IsList(Append(s, x))
         /\ DOMAIN Append(s, x) = DOMAIN s \cup {Len(s) + 1}
         /\ Len(Append(s, x)) = Len(s) + 1
         /\ \A i \in DOMAIN s : Append(s, x)[i] = s[i]
         /\ Append(s, x)[Len(s) + 1] = x
<1> DEFINE S == {s[i] : i \in DOMAIN s} \cup {x}
           t == Append(s, x)
<1>1. s \in Seq(S) /\ x \in S
  BY SeqMonotonic DEF IsList
<1>2. /\ t \in Seq(S) /\ Len(t) = Len(s) + 1
      /\ \A i \in 1 .. Len(s) : t[i] = s[i]
      /\ t[Len(s) + 1] = x
  BY <1>1
<1>3. /\ Len(s) \in Nat /\ DOMAIN s = 1 .. Len(s)
      /\ DOMAIN t = 1 .. Len(s) + 1
  BY <1>1, <1>2
<1>4. IsList(t)
  BY <1>2, SeqIsList
<1> QED BY <1>2, <1>3, <1>4

\* Tail drops the first element and moves the others down by one.
LEMMA TailList ==
  ASSUME NEW s, IsList(s), s # <<>>
  PROVE  /\ Head(s) = s[1] /\ 1 \in DOMAIN s
         /\ IsList(Tail(s))
         /\ \A i \in DOMAIN Tail(s) : i + 1 \in DOMAIN s /\ Tail(s)[i] = s[i + 1]
<1> DEFINE S == {s[i] : i \in DOMAIN s}
           t == Tail(s)
<1>1. s \in Seq(S) /\ Len(s) \in Nat \ {0} /\ DOMAIN s = 1 .. Len(s)
  BY EmptySeq DEF IsList
<1>2. /\ t \in Seq(S) /\ Len(t) = Len(s) - 1
      /\ \A i \in 1 .. Len(t) : t[i] = s[i + 1]
  BY <1>1, HeadTailProperties
<1>3. DOMAIN t = 1 .. Len(t) /\ Len(t) \in Nat
  BY <1>2
<1>4. IsList(t)
  BY <1>2, SeqIsList
<1>5. Head(s) = s[1]
  BY <1>1
<1> QED BY <1>1, <1>2, <1>3, <1>4, <1>5

\* Two lists that agree up to n have the same beginning of that length.
LEMMA SamePrefixes ==
  ASSUME NEW s, IsList(s), NEW t, IsList(t), NEW n \in Nat,
         n <= Len(s), n <= Len(t), \A i \in 1 .. n : s[i] = t[i]
  PROVE  SubSeq(s, 1, n) = SubSeq(t, 1, n)
<1> DEFINE S == {s[i] : i \in DOMAIN s} \cup {t[i] : i \in DOMAIN t}
           u == SubSeq(s, 1, n)
           v == SubSeq(t, 1, n)
<1>1. /\ Len(s) \in Nat /\ DOMAIN s = 1 .. Len(s)
      /\ Len(t) \in Nat /\ DOMAIN t = 1 .. Len(t)
  BY ListDomain
<1>2. /\ u \in Seq(S) /\ Len(u) = n /\ \A i \in 1 .. n : u[i] = s[i]
  BY <1>1, SubSeqProperties
<1>3. /\ v \in Seq(S) /\ Len(v) = n /\ \A i \in 1 .. n : v[i] = t[i]
  BY <1>1, SubSeqProperties
<1> HIDE DEF u, v
<1>4. u = v
  BY <1>2, <1>3, SeqEqual
<1> QED BY <1>4 DEF u, v

\* A list is the beginning of every list that agrees with it.
LEMMA SamePrefix ==
  ASSUME NEW s, IsList(s), NEW t, IsList(t), Len(t) <= Len(s),
         \A i \in 1 .. Len(t) : s[i] = t[i]
  PROVE  SubSeq(s, 1, Len(t)) = t
<1>1. Len(t) \in Nat /\ SubSeq(t, 1, Len(t)) = t
  BY SubSeqFull DEF IsList
<1> QED BY <1>1, SamePrefixes

\* What holds of 0 and, up to n, of the successor of what it holds of.
LEMMA UpTo ==
  ASSUME NEW n \in Nat, NEW S, 0 \in S, \A i \in 0 .. n - 1 : i \in S => i + 1 \in S
  PROVE  \A i \in 0 .. n : i \in S
<1> DEFINE T == {i \in 0 .. n : i \notin S}
<1>1. ASSUME T # {} PROVE FALSE
  <2>1. T \in SUBSET Nat
    OBVIOUS
  <2> HIDE DEF T
  <2>2. PICK i \in T : \A j \in T : i <= j
    BY <1>1, <2>1, LeastNumber
  <2> USE DEF T
  <2>3. i \in 0 .. n /\ i # 0 /\ i - 1 \in 0 .. n - 1 /\ (i - 1) + 1 = i
    OBVIOUS
  <2>4. i - 1 \notin T
    BY <2>2, <2>3
  <2> QED BY <2>3, <2>4
<1> QED BY <1>1

\* f is determined by its first value and its steps.
Recursive(f, S, a, n, step) ==
  f \in [0 .. n -> S] /\ f[0] = a /\ \A i \in 1 .. n : f[i] = step[i][f[i - 1]]

\* There is such a function.
LEMMA Recursion ==
  ASSUME NEW S, NEW a \in S, NEW n \in Nat, NEW step \in [1 .. n -> [S -> S]]
  PROVE  \E f : Recursive(f, S, a, n, step)
<1> DEFINE Holds(m, f) == f[0] = a /\ \A i \in 1 .. m : f[i] = step[i][f[i - 1]]
           T == {m \in 0 .. n : \E f \in [0 .. m -> S] : Holds(m, f)}
<1>1. 0 \in T
  <2> DEFINE f == [i \in 0 .. 0 |-> a]
  <2>1. f \in [0 .. 0 -> S]
    OBVIOUS
  <2>2. f[0] = a
    OBVIOUS
  <2>3. 1 .. 0 = {} /\ 0 \in 0 .. n
    OBVIOUS
  <2> HIDE DEF f
  <2>4. Holds(0, f)
    BY <2>2, <2>3
  <2> HIDE DEF Holds
  <2> QED BY <2>1, <2>3, <2>4
<1>2. ASSUME NEW m \in 0 .. n - 1, m \in T PROVE m + 1 \in T
  <2>1. PICK f \in [0 .. m -> S] : Holds(m, f)
    BY <1>2
  <2> DEFINE g == [i \in 0 .. m + 1 |-> IF i = m + 1 THEN step[m + 1][f[m]] ELSE f[i]]
  <2>2. f[m] \in S /\ m + 1 \in 1 .. n /\ m + 1 \in 0 .. n /\ m \in Nat
    OBVIOUS
  <2>3. step[m + 1][f[m]] \in S
    BY <2>2
  <2>4. g \in [0 .. m + 1 -> S]
    BY <2>3
  <2>5. ASSUME NEW i \in 1 .. m + 1 PROVE g[i] = step[i][g[i - 1]]
    <3>1. CASE i = m + 1
      BY <2>2, <3>1
    <3>2. CASE i # m + 1
      <4>1. i \in 1 .. m /\ g[i] = f[i] /\ g[i - 1] = f[i - 1]
        BY <3>2
      <4> QED BY <2>1, <4>1
    <3> QED BY <3>1, <3>2
  <2>6. g[0] = a
    BY <2>1, <2>2
  <2> HIDE DEF g
  <2> QED BY <2>2, <2>4, <2>5, <2>6
<1>3. n \in T
  <2> HIDE DEF T
  <2>1. n \in 0 .. n
    OBVIOUS
  <2> QED BY <1>1, <1>2, <2>1, UpTo
<1> QED BY <1>3 DEF Recursive

\* A total and transitive order sorts every list of keys (by insertion of the last).
LEMMA SortingExists ==
  ASSUME NEW T, NEW Q,
         \A x, y \in T : <<x, y>> \in Q \/ <<y, x>> \in Q,
         \A x, y, z \in T : <<x, y>> \in Q /\ <<y, z>> \in Q => <<x, z>> \in Q,
         NEW n \in Nat, NEW keys \in [1 .. n -> T]
  PROVE  \E p \in Bijection(1 .. n, 1 .. n) :
           \A i, j \in 1 .. n : i < j => <<keys[p[i]], keys[p[j]]>> \in Q
<1> DEFINE Sorts(m, p) == /\ \A i, j \in 1 .. m : p[i] = p[j] => i = j
                          /\ \A v \in 1 .. m : \E i \in 1 .. m : p[i] = v
                          /\ \A i, j \in 1 .. m : i < j => <<keys[p[i]], keys[p[j]]>> \in Q
           M == {m \in 0 .. n : \E p \in [1 .. m -> 1 .. m] : Sorts(m, p)}
<1>1. 0 \in M
  <2>1. 1 .. 0 = {} /\ 0 \in 0 .. n
    OBVIOUS
  <2>2. [i \in 1 .. 0 |-> i] \in [1 .. 0 -> 1 .. 0]
    OBVIOUS
  <2>3. Sorts(0, [i \in 1 .. 0 |-> i])
    BY <2>1
  <2> HIDE DEF Sorts
  <2> QED BY <2>1, <2>2, <2>3
<1>2. ASSUME NEW m \in 0 .. n - 1, m \in M PROVE m + 1 \in M
  <2>1. PICK p \in [1 .. m -> 1 .. m] : Sorts(m, p)
    BY <1>2
  <2> DEFINE K == {i \in 1 .. m : <<keys[m + 1], keys[p[i]]>> \in Q} \cup {m + 1}
  <2>2. PICK k \in K : \A i \in K : k <= i
    <3>1. K \in SUBSET Nat /\ K # {}
      OBVIOUS
    <3> HIDE DEF K
    <3> QED BY <3>1, LeastNumber
  <2>3. k \in 1 .. m + 1 /\ m \in Nat /\ m + 1 \in 1 .. n /\ m + 1 \in 0 .. n
    OBVIOUS
  <2>0. \A i, j \in 1 .. m : i < j => p[i] # p[j] /\ <<keys[p[i]], keys[p[j]]>> \in Q
    <3>1. \A i, j \in 1 .. m : p[i] = p[j] => i = j
      BY <2>1
    <3>2. \A i, j \in 1 .. m : i < j => i # j
      BY <2>3
    <3>3. \A i, j \in 1 .. m : i < j => <<keys[p[i]], keys[p[j]]>> \in Q
      BY <2>1
    <3> QED BY <3>1, <3>2, <3>3
  <2>4. \A i \in 1 .. m : p[i] \in 1 .. m /\ p[i] \in 1 .. n /\ keys[p[i]] \in T
    BY <2>3
  <2>5. keys[m + 1] \in T
    BY <2>3
  <2>6. ASSUME NEW i \in 1 .. m, i < k PROVE <<keys[p[i]], keys[m + 1]>> \in Q
    <3>1. i \notin K
      BY <2>2, <2>3, <2>6
    <3> QED BY <2>4, <2>5, <3>1
  <2>7. ASSUME NEW i \in 1 .. m, k <= i PROVE <<keys[m + 1], keys[p[i]]>> \in Q
    <3>1. k \in 1 .. m /\ <<keys[m + 1], keys[p[k]]>> \in Q
      BY <2>2, <2>3, <2>7
    <3>2. CASE k = i
      BY <3>1, <3>2
    <3>3. CASE k < i
      <4>1. <<keys[p[k]], keys[p[i]]>> \in Q
        BY <2>1, <3>1, <3>3
      <4> QED BY <2>4, <2>5, <3>1, <4>1
    <3> QED BY <2>3, <2>7, <3>2, <3>3
  <2> DEFINE q == [i \in 1 .. m + 1 |->
                     IF i < k THEN p[i] ELSE IF i = k THEN m + 1 ELSE p[i - 1]]
  <2>8. \A i \in 1 .. m + 1 : /\ i < k => i \in 1 .. m /\ q[i] = p[i]
                              /\ i = k => q[i] = m + 1
                              /\ i > k => i - 1 \in 1 .. m /\ q[i] = p[i - 1]
    BY <2>3
  <2>9. q \in [1 .. m + 1 -> 1 .. m + 1]
    <3>1. ASSUME NEW i \in 1 .. m + 1
          PROVE  (IF i < k THEN p[i] ELSE IF i = k THEN m + 1 ELSE p[i - 1]) \in 1 .. m + 1
      <4>1. CASE i < k
        BY <2>3, <2>4, <4>1
      <4>2. CASE i = k
        BY <2>3, <4>2
      <4>3. CASE i > k
        <5>1. i - 1 \in 1 .. m
          BY <2>3, <4>3
        <5> QED BY <2>3, <2>4, <4>3, <5>1
      <4> QED BY <2>3, <4>1, <4>2, <4>3
    <3> QED BY <3>1
  <2> HIDE DEF q, K
  <2>10. ASSUME NEW i \in 1 .. m + 1, NEW j \in 1 .. m + 1, i < j
         PROVE  q[i] # q[j] /\ <<keys[q[i]], keys[q[j]]>> \in Q
    <3>1. CASE j < k
      <4>1. i \in 1 .. m /\ j \in 1 .. m /\ q[i] = p[i] /\ q[j] = p[j]
        BY <2>3, <2>8, <2>10, <3>1
      <4> QED BY <2>0, <2>10, <4>1
    <3>2. CASE j = k
      <4>1. q[j] = m + 1 /\ i \in 1 .. m /\ i < k /\ q[i] = p[i]
        BY <2>3, <2>8, <2>10, <3>2
      <4> QED BY <2>3, <2>4, <2>6, <4>1
    <3>3. CASE j > k /\ i < k
      <4>1. i \in 1 .. m /\ j - 1 \in 1 .. m /\ i < j - 1 /\ q[i] = p[i] /\ q[j] = p[j - 1]
        BY <2>3, <2>8, <3>3
      <4> QED BY <2>0, <4>1
    <3>4. CASE j > k /\ i = k
      <4>1. j - 1 \in 1 .. m /\ k <= j - 1 /\ q[i] = m + 1 /\ q[j] = p[j - 1]
        BY <2>3, <2>8, <3>4
      <4>2. p[j - 1] \in 1 .. m
        BY <2>4, <4>1
      <4> QED BY <2>3, <2>7, <4>1, <4>2
    <3>5. CASE j > k /\ i > k
      <4>1. i - 1 \in 1 .. m /\ j - 1 \in 1 .. m /\ i - 1 < j - 1
            /\ q[i] = p[i - 1] /\ q[j] = p[j - 1]
        BY <2>3, <2>8, <2>10, <3>5
      <4> QED BY <2>0, <4>1
    <3> QED BY <2>3, <3>1, <3>2, <3>3, <3>4, <3>5
  <2>11. ASSUME NEW v \in 1 .. m + 1 PROVE \E i \in 1 .. m + 1 : q[i] = v
    <3>1. CASE v = m + 1
      BY <2>3, <2>8, <3>1
    <3>2. CASE v # m + 1
      <4>1. v \in 1 .. m
        BY <2>3, <3>2
      <4>2. PICK i \in 1 .. m : p[i] = v
        BY <2>1, <4>1
      <4>3. CASE i < k
        <5>1. i \in 1 .. m + 1 /\ q[i] = p[i]
          BY <2>3, <2>8, <4>3
        <5> QED BY <4>2, <5>1
      <4>4. CASE i >= k
        <5>1. i + 1 \in 1 .. m + 1 /\ i + 1 > k /\ (i + 1) - 1 = i
          BY <2>3, <4>4
        <5> QED BY <2>8, <4>2, <5>1
      <4> QED BY <2>3, <4>3, <4>4
    <3> QED BY <3>1, <3>2
  <2>12. Sorts(m + 1, q)
    <3>1. \A i, j \in 1 .. m + 1 : q[i] = q[j] => i = j
      <4>1. \A i, j \in 1 .. m + 1 : i < j \/ i = j \/ j < i
        BY <2>3
      <4> QED BY <2>10, <4>1
    <3> QED BY <2>10, <2>11, <3>1
  <2> HIDE DEF Sorts
  <2> QED BY <2>3, <2>9, <2>12
<1>3. n \in M
  <2> HIDE DEF M
  <2>1. n \in 0 .. n
    OBVIOUS
  <2> QED BY <1>1, <1>2, <2>1, UpTo
<1>4. PICK p \in [1 .. n -> 1 .. n] : Sorts(n, p)
  BY <1>3
<1>5. p \in Bijection(1 .. n, 1 .. n)
  BY <1>4 DEF Bijection, Injection, Surjection, IsInjective
<1> QED BY <1>4, <1>5

\* A finite set of numbers can be listed in increasing order, and such a list of
\* the length of the set has all of it.
LEMMA IncreasingListExists ==
  ASSUME NEW S \in SUBSET Int, IsFiniteSet(S)
  PROVE  \E t \in [1 .. Cardinality(S) -> S] :
           \A i, j \in 1 .. Cardinality(S) : i < j => t[i] < t[j]
<1> DEFINE n == Cardinality(S)
           Q == {x \in S \X S : x[1] <= x[2]}
<1>1. n \in Nat /\ ExistsBijection(1 .. n, S)
  BY FS_CardinalityType
<1> HIDE DEF n
<1>2. PICK b \in [1 .. n -> S] : \A i, j \in 1 .. n : b[i] = b[j] => i = j
  BY <1>1 DEF ExistsBijection, Bijection, Injection, IsInjective
<1>3. \A x, y \in S : <<x, y>> \in Q <=> x <= y
  OBVIOUS
<1>4. /\ \A x, y \in S : <<x, y>> \in Q \/ <<y, x>> \in Q
      /\ \A x, y, z \in S : <<x, y>> \in Q /\ <<y, z>> \in Q => <<x, z>> \in Q
  <2>1. \A x \in S : x \in Int
    OBVIOUS
  <2> HIDE DEF Q
  <2> QED BY <1>3, <2>1
<1> HIDE DEF Q
<1>5. PICK p \in Bijection(1 .. n, 1 .. n) :
        \A i, j \in 1 .. n : i < j => <<b[p[i]], b[p[j]]>> \in Q
  <2>1. n \in Nat /\ b \in [1 .. n -> S]
    BY <1>1, <1>2
  <2> QED BY ONLY <1>4, <2>1, SortingExists, Zenon
<1>6. /\ p \in [1 .. n -> 1 .. n]
      /\ \A i, j \in 1 .. n : p[i] = p[j] => i = j
  BY DEF Bijection, Injection, IsInjective
<1> DEFINE t == [i \in 1 .. n |-> b[p[i]]]
<1>7. t \in [1 .. n -> S]
  BY <1>2, <1>6
<1>8. ASSUME NEW i \in 1 .. n, NEW j \in 1 .. n, i < j PROVE t[i] < t[j]
  <2>1. b[p[i]] \in S /\ b[p[j]] \in S /\ b[p[i]] # b[p[j]]
    BY <1>2, <1>6, <1>8
  <2>2. b[p[i]] <= b[p[j]]
    BY <1>3, <1>5, <1>8, <2>1
  <2>3. b[p[i]] \in Int /\ b[p[j]] \in Int
    BY <2>1
  <2> QED BY <2>1, <2>2, <2>3
<1> HIDE DEF t
<1> QED BY <1>7, <1>8 DEF n

\* A list in increasing order, as long as a set has elements, has all of them.
LEMMA IncreasingListIsAll ==
  ASSUME NEW S \in SUBSET Int, IsFiniteSet(S), NEW t \in [1 .. Cardinality(S) -> S],
         \A i, j \in 1 .. Cardinality(S) : i < j => t[i] < t[j]
  PROVE  \A x \in S : \E i \in 1 .. Cardinality(S) : t[i] = x
<1> DEFINE n == Cardinality(S)
<1>1. n \in Nat
  BY FS_CardinalityType
<1> HIDE DEF n
<1>2. \A i, j \in 1 .. n : t[i] = t[j] => i = j
  <2> SUFFICES ASSUME NEW i \in 1 .. n, NEW j \in 1 .. n, i # j PROVE t[i] # t[j]
    OBVIOUS
  <2>1. t[i] \in Int /\ t[j] \in Int /\ (i < j \/ j < i)
    <3>1. t[i] \in S /\ t[j] \in S
      BY DEF n
    <3>2. t[i] \in Int /\ t[j] \in Int
      BY <3>1
    <3>3. i < j \/ j < i
      BY <1>1
    <3> QED BY <3>2, <3>3
  <2>2. (i < j => t[i] < t[j]) /\ (j < i => t[j] < t[i])
    BY DEF n
  <2> QED BY <2>1, <2>2
<1>3. t \in Injection(1 .. n, S)
  BY <1>2 DEF n, Injection, IsInjective
<1>4. IsFiniteSet(1 .. n) /\ Cardinality(1 .. n) = n
  BY <1>1, FS_Interval
<1>5. t \in Surjection(1 .. n, S)
  BY <1>3, <1>4, FS_Injection DEF n
<1> QED BY <1>5 DEF n, Surjection

\* The elements of a list are finitely many.
LEMMA ElementsFinite ==
  ASSUME NEW n \in Nat, NEW T, NEW s \in [1 .. n -> T]
  PROVE  IsFiniteSet({s[i] : i \in 1 .. n})
<1> DEFINE S == {s[i] : i \in 1 .. n}
<1>1. s \in Surjection(1 .. n, S)
  BY DEF Surjection
<1>2. IsFiniteSet(1 .. n)
  BY FS_Interval
<1> QED BY <1>1, <1>2, FS_Surjection
==============================================================================
