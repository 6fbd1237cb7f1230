----------------------------- MODULE WireProofs -----------------------------
(***************************************************************************)
(* Reading and writing the wire encoding: what is written is read back and *)
(* leaves the rest of the buffer, whatever follows it, and what is read is *)
(* all that the bytes say; for strings, for fields one after the other,    *)
(* for groups of fields that fill a buffer, and for lists of strings.      *)
(* Then the order in which strings are sorted.                             *)
(***************************************************************************)
EXTENDS Wire, ListFacts

\* Units are the numbers below Base, which modulo Base are themselves.
LEMMA UnitFacts ==
  /\ Base \in Nat /\ Base > 0 /\ Unit \subseteq Nat /\ \A u \in Unit : u < Base
  /\ \A k \in Nat : k < Base => k \in Unit /\ k % Base = k
<1>1. Base \in Nat /\ Base > 0
  BY BaseAssumption
<1>2. \A k \in Nat : k < Base => k % Base = k
  BY <1>1
<1> QED BY <1>1, <1>2 DEF Unit

-----------------------------------------------------------------------------
\* Concat.

ConcatUpTo(parts) ==
  CHOOSE f : f = [i \in 0 .. Len(parts) |->
                    IF i = 0 THEN <<>> ELSE f[i - 1] \o parts[i]]

\* The recursion of Concat.
LEMMA ConcatSteps ==
  ASSUME NEW S, NEW parts \in Seq(Seq(S))
  PROVE  /\ ConcatUpTo(parts)[0] = <<>>
         /\ \A i \in 1 .. Len(parts) :
              ConcatUpTo(parts)[i] = ConcatUpTo(parts)[i - 1] \o parts[i]
         /\ \A i \in 0 .. Len(parts) : ConcatUpTo(parts)[i] \in Seq(S)
         /\ Concat(parts) = ConcatUpTo(parts)[Len(parts)]
<1> DEFINE n == Len(parts)
           step == [i \in 1 .. n |-> [x \in Seq(S) |-> x \o parts[i]]]
           Is(f) == f = [i \in 0 .. n |-> IF i = 0 THEN <<>> ELSE f[i - 1] \o parts[i]]
           g == ConcatUpTo(parts)
<1>1. n \in Nat /\ \A i \in 1 .. n : parts[i] \in Seq(S)
  OBVIOUS
<1>2. \E f : Is(f)
  <2>1. \A i \in 1 .. n : [x \in Seq(S) |-> x \o parts[i]] \in [Seq(S) -> Seq(S)]
    BY <1>1
  <2>2. step \in [1 .. n -> [Seq(S) -> Seq(S)]] /\ <<>> \in Seq(S)
    BY <2>1
  <2>3. \A i \in 1 .. n, x \in Seq(S) : step[i][x] = x \o parts[i]
    OBVIOUS
  <2> HIDE DEF n, step
  <2>4a. PICK f : Recursive(f, Seq(S), <<>>, n, step)
    BY <1>1, <2>2, Recursion
  <2>4. /\ f \in [0 .. n -> Seq(S)] /\ f[0] = <<>>
        /\ \A i \in 1 .. n : f[i] = step[i][f[i - 1]]
    BY <2>4a DEF Recursive
  <2>5. ASSUME NEW i \in 0 .. n, i # 0 PROVE f[i] = f[i - 1] \o parts[i]
    <3>1. i \in 1 .. n /\ i - 1 \in 0 .. n
      BY <1>1, <2>5
    <3>2. f[i - 1] \in Seq(S) /\ f[i] = step[i][f[i - 1]]
      BY <2>4, <3>1
    <3> QED BY <2>3, <3>1, <3>2
  <2>6. f = [i \in 0 .. n |-> f[i]]
    BY <2>4
  <2>7. Is(f)
    BY <2>4, <2>5, <2>6
  <2> QED BY <2>7
<1>3. Is(g)
  BY <1>2 DEF ConcatUpTo
<1>4. Concat(parts) = g[n]
  BY DEF Concat, ConcatUpTo
<1> HIDE DEF g
<1>5. g[0] = <<>>
  <2>1. 0 \in 0 .. n
    BY <1>1
  <2> QED BY <1>3, <2>1
<1>6. ASSUME NEW i \in 1 .. n PROVE g[i] = g[i - 1] \o parts[i]
  <2>1. i \in 0 .. n /\ i # 0
    BY <1>1
  <2> QED BY <1>3, <2>1
<1>7. \A i \in 0 .. n : g[i] \in Seq(S)
  <2> DEFINE T == {i \in 0 .. n : g[i] \in Seq(S)}
  <2>1. 0 \in T
    <3>1. 0 \in 0 .. n /\ <<>> \in Seq(S)
      BY <1>1
    <3> QED BY <1>5, <3>1
  <2>2. ASSUME NEW i \in 0 .. n - 1, i \in T PROVE i + 1 \in T
    <3>1. i + 1 \in 1 .. n /\ (i + 1) - 1 = i /\ i + 1 \in 0 .. n
      BY <1>1
    <3>2. g[i + 1] = g[i] \o parts[i + 1] /\ g[i] \in Seq(S)
      BY <1>6, <2>2, <3>1
    <3>3. parts[i + 1] \in Seq(S)
      BY <1>1, <3>1
    <3>4. g[i + 1] \in Seq(S)
      BY <3>2, <3>3
    <3> QED BY <3>1, <3>4
  <2> HIDE DEF T
  <2>3. \A i \in 0 .. n : i \in T
    BY <1>1, <2>1, <2>2, UpTo
  <2> QED BY <2>3 DEF T
<1> QED BY <1>4, <1>5, <1>6, <1>7 DEF g

\* A concatenation is a sequence of the same set; that of no parts is empty, and a
\* further part is added at its end.
LEMMA ConcatIsSeq ==
  ASSUME NEW S, NEW parts \in Seq(Seq(S)) PROVE Concat(parts) \in Seq(S)
<1>1. Len(parts) \in 0 .. Len(parts)
  OBVIOUS
<1> QED BY <1>1, ConcatSteps

\* No parts joined are nothing.
LEMMA ConcatNone == Concat(<<>>) = <<>>
<1>1. <<>> \in Seq(Seq({})) /\ Len(<<>>) = 0
  OBVIOUS
<1> QED BY <1>1, ConcatSteps

\* One part more is joined at the end.
LEMMA ConcatNext ==
  ASSUME NEW S, NEW parts \in Seq(Seq(S)), NEW part \in Seq(S)
  PROVE  Concat(Append(parts, part)) = Concat(parts) \o part
<1> DEFINE n == Len(parts)
           more == Append(parts, part)
           f == ConcatUpTo(parts)
           g == ConcatUpTo(more)
<1>1. /\ more \in Seq(Seq(S)) /\ Len(more) = n + 1 /\ n \in Nat /\ more[n + 1] = part
      /\ \A i \in 1 .. n : more[i] = parts[i]
  OBVIOUS
<1>2. /\ f[0] = <<>> /\ \A i \in 1 .. n : f[i] = f[i - 1] \o parts[i]
      /\ Concat(parts) = f[n]
  BY ConcatSteps
<1> HIDE DEF more
<1>3. /\ g[0] = <<>> /\ \A i \in 1 .. n + 1 : g[i] = g[i - 1] \o more[i]
      /\ Concat(more) = g[n + 1]
  BY <1>1, ConcatSteps
<1> HIDE DEF f, g, n
<1>4. \A i \in 0 .. n : f[i] = g[i]
  <2> DEFINE T == {i \in 0 .. n : f[i] = g[i]}
  <2>1. 0 \in T
    BY <1>1, <1>2, <1>3
  <2>2. ASSUME NEW i \in 0 .. n - 1, i \in T PROVE i + 1 \in T
    <3>1. i + 1 \in 1 .. n /\ i + 1 \in 1 .. n + 1 /\ (i + 1) - 1 = i /\ i + 1 \in 0 .. n
      BY <1>1
    <3>2. f[i + 1] = f[i] \o parts[i + 1] /\ g[i + 1] = g[i] \o more[i + 1]
      BY <1>2, <1>3, <3>1
    <3> QED BY <1>1, <2>2, <3>1, <3>2
  <2> HIDE DEF T
  <2>3. \A i \in 0 .. n : i \in T
    BY <1>1, <2>1, <2>2, UpTo
  <2> QED BY <2>3 DEF T
<1>5. n \in 0 .. n /\ n + 1 \in 1 .. n + 1 /\ (n + 1) - 1 = n
  BY <1>1
<1>6. g[n + 1] = g[n] \o more[n + 1] /\ f[n] = g[n]
  BY <1>3, <1>4, <1>5
<1> QED BY <1>1, <1>2, <1>3, <1>6 DEF more

\* The units in front of a rest are got back.
LEMMA UnitsRead ==
  ASSUME NEW S, NEW v \in Seq(S), NEW r \in Seq(S)
  PROVE  GetUnits(v \o r, Len(v)) = Got(v, r)
<1>1. v \o r \in Seq(S) /\ Len(v \o r) = Len(v) + Len(r)
  OBVIOUS
<1>2. Len(v) \in Nat /\ Len(r) \in Nat
  OBVIOUS
<1>3. SubSeq(v \o r, 1, Len(v)) = v
  OBVIOUS
<1>4. SubSeq(v \o r, Len(v) + 1, Len(v \o r)) = r
  BY <1>1
<1>5. ~ (Len(v \o r) < Len(v))
  BY <1>1, <1>2
<1>. QED
  BY <1>3, <1>4, <1>5 DEF GetUnits

\* A sequence that is cut in two is its parts joined.
LEMMA CutAndJoined ==
  ASSUME NEW S, NEW t \in Seq(S), NEW n \in 0 .. Len(t)
  PROVE  SubSeq(t, 1, n) \o SubSeq(t, n + 1, Len(t)) = t
<1>1. 1 \in 1 .. Len(t) + 1 /\ n \in 1 - 1 .. Len(t) /\ Len(t) \in n .. Len(t)
  OBVIOUS
<1>2. SubSeq(t, 1, n) \o SubSeq(t, n + 1, Len(t)) = SubSeq(t, 1, Len(t))
  BY <1>1, ConcatAdjacentSubSeq
<1>. QED
  BY <1>2, SubSeqFull

\* Bytes32 of the Buffer, then Bytes32 of the Reader: a string that is short enough
\* for its length to fit is read back, and the reader stands after it.
THEOREM WrittenIsRead ==
  ASSUME NEW v \in Seq(Unit), Len(v) < Base, NEW r \in Seq(Unit)
  PROVE  GetBytes32(PutBytes32(v) \o r) = Got(v, r)
<1>. DEFINE b == PutBytes32(v) \o r
<1>1. Len(v) % Base = Len(v)
  BY BaseAssumption
<1>2. PutBytes32(v) = <<Len(v)>> \o v
  BY <1>1 DEF PutBytes32, PutUint32
<1>3. Len(v) \in Unit
  BY BaseAssumption DEF Unit
<1>4. b # <<>> /\ b[1] = Len(v) /\ Tail(b) = v \o r
  <2>1. b = <<Len(v)>> \o (v \o r)
    BY <1>2, <1>3
  <2>2. v \o r \in Seq(Unit)
    OBVIOUS
  <2>. QED
    BY <2>1, <2>2, <1>3
<1>5. GetUnits(v \o r, Len(v)) = Got(v, r)
  BY UnitsRead
<1>. QED
  BY <1>4, <1>5 DEF GetBytes32

\* The Reader takes a string only when all of its units are there: the bytes it has
\* read are those the Buffer writes for that string.
THEOREM ReadIsWritten ==
  ASSUME NEW b \in Seq(Unit), GetBytes32(b).ok
  PROVE  /\ GetBytes32(b).val \in Seq(Unit)
         /\ GetBytes32(b).rest \in Seq(Unit)
         /\ b = PutBytes32(GetBytes32(b).val) \o GetBytes32(b).rest
<1>. DEFINE t == Tail(b)
            n == b[1]
            v == SubSeq(t, 1, n)
            r == SubSeq(t, n + 1, Len(t))
<1>1. b # <<>> /\ GetUnits(t, n).ok
  BY DEF GetBytes32, Short
<1>2. t \in Seq(Unit) /\ n \in Unit /\ n \in Nat
  BY <1>1, BaseAssumption DEF Unit
<1>3. n <= Len(t) /\ GetBytes32(b) = Got(v, r)
  BY <1>1, <1>2 DEF GetBytes32, GetUnits, Short
<1>4. v \in Seq(Unit) /\ r \in Seq(Unit) /\ Len(v) = n
  <2>1. Len(t) \in Nat /\ n \in Nat
    BY <1>2
  <2>2. v \in Seq(Unit) /\ Len(v) = n
    BY <1>2, <1>3, <2>1
  <2>3. r \in Seq(Unit)
    BY <1>2, <1>3, <2>1
  <2>. QED
    BY <2>2, <2>3
<1>5. v \o r = t
  <2>1. n \in 0 .. Len(t)
    BY <1>2, <1>3
  <2>. QED
    BY <2>1, <1>2, CutAndJoined
<1>6. n % Base = n
  <2>1. n \in Nat /\ Base \in Nat /\ 0 < Base /\ n < Base
    BY <1>2, BaseAssumption DEF Unit
  <2>2. \A k \in Nat : k < Base => k % Base = k
    BY <2>1
  <2>. QED
    BY <2>1, <2>2
<1>7. PutBytes32(v) = <<n>> \o v
  BY <1>4, <1>6 DEF PutBytes32, PutUint32
<1>8. b = <<n>> \o (v \o r)
  <2>1. b = <<n>> \o t
    BY <1>1, <1>2
  <2>. QED
    BY <2>1, <1>5
<1>9. b = PutBytes32(v) \o r
  <2>1. <<n>> \in Seq(Unit)
    BY <1>2
  <2>. HIDE DEF n, v, r, t
  <2>2. (<<n>> \o v) \o r = <<n>> \o (v \o r)
    BY <2>1, <1>4, ConcatAssociative
  <2>. QED
    BY <2>2, <1>7, <1>8
<1>10. GetBytes32(b).val = v /\ GetBytes32(b).rest = r
  <2>1. GetBytes32(b) = Got(v, r)
    BY <1>3
  <2>2. Got(v, r).val = v /\ Got(v, r).rest = r
    BY Zenon DEF Got
  <2>. QED
    BY <2>1, <2>2, Zenon
<1>. QED
  BY <1>4, <1>9, <1>10

\* Two buffers that hold the same string and the same rest are the same: no field
\* can be written in two ways.
COROLLARY OneEncoding ==
  ASSUME NEW a \in Seq(Unit), NEW b \in Seq(Unit),
         GetBytes32(a).ok, GetBytes32(b).ok,
         GetBytes32(a).val = GetBytes32(b).val, GetBytes32(a).rest = GetBytes32(b).rest
  PROVE  a = b
<1>1. a = PutBytes32(GetBytes32(a).val) \o GetBytes32(a).rest
  BY ReadIsWritten
<1>2. b = PutBytes32(GetBytes32(b).val) \o GetBytes32(b).rest
  BY ReadIsWritten
<1>. QED
  BY <1>1, <1>2

\* Induction over the lists of a set: what holds of the empty list and of each list
\* with one more element than one it holds of.
LEMMA ListInduction ==
  ASSUME NEW K, NEW T, <<>> \in T,
         \A s \in Seq(K), k \in K : s \in T => Append(s, k) \in T
  PROVE  \A s \in Seq(K) : s \in T
<1> SUFFICES ASSUME NEW s \in Seq(K) PROVE s \in T
  OBVIOUS
<1> DEFINE n == Len(s)
           M == {m \in 0 .. n : SubSeq(s, 1, m) \in T}
<1>1. n \in Nat /\ 0 \in 0 .. n /\ n \in 0 .. n
  OBVIOUS
<1>2. 0 \in M
  <2>1. SubSeq(s, 1, 0) = <<>>
    OBVIOUS
  <2> QED BY <1>1, <2>1
<1>3. ASSUME NEW m \in 0 .. n - 1, m \in M PROVE m + 1 \in M
  <2>1. m + 1 \in 1 .. n /\ m \in Nat /\ m + 1 \in 0 .. n
    BY <1>1
  <2>2. /\ SubSeq(s, 1, m) \in Seq(K) /\ s[m + 1] \in K
        /\ SubSeq(s, 1, m + 1) = Append(SubSeq(s, 1, m), s[m + 1])
    <3>1. SubSeq(s, 1, m) \in Seq(K) /\ s[m + 1] \in K
      BY <2>1
    <3>2. SubSeq(s, 1, m + 1) = Append(SubSeq(s, 1, (m + 1) - 1), s[m + 1])
      BY <2>1, SubSeqRecursiveSecond
    <3>3. (m + 1) - 1 = m
      BY <2>1
    <3> QED BY <3>1, <3>2, <3>3
  <2> QED BY <1>3, <2>1, <2>2
<1>4. \A m \in 0 .. n : m \in M
  <2> HIDE DEF M
  <2> QED BY <1>1, <1>2, <1>3, UpTo
<1>5. SubSeq(s, 1, n) = s
  BY SubSeqFull
<1> QED BY <1>1, <1>4, <1>5

\* Joining lists of parts joins what they concatenate to.
LEMMA ConcatOne ==
  ASSUME NEW S, NEW part \in Seq(S)
  PROVE  Concat(<<part>>) = part
<1>1. <<>> \in Seq(Seq(S)) /\ <<part>> = Append(<<>>, part) /\ <<>> \o part = part
  OBVIOUS
<1> QED BY <1>1, ConcatNone, ConcatNext

\* Joining two lists of parts joins what each is joined to.
LEMMA ConcatJoin ==
  ASSUME NEW S, NEW parts \in Seq(Seq(S)), NEW more \in Seq(Seq(S))
  PROVE  Concat(parts \o more) = Concat(parts) \o Concat(more)
<1> DEFINE K == Seq(S)
           T == {m \in Seq(K) : Concat(parts \o m) = Concat(parts) \o Concat(m)}
<1>1. <<>> \in T
  <2>1. parts \o <<>> = parts /\ Concat(parts) \in Seq(S) /\ <<>> \in Seq(K)
    BY ConcatIsSeq
  <2> QED BY <2>1, ConcatNone
<1>2. ASSUME NEW m \in Seq(K), NEW k \in K, m \in T PROVE Append(m, k) \in T
  <2>1. parts \o Append(m, k) = Append(parts \o m, k) /\ parts \o m \in Seq(Seq(S))
    OBVIOUS
  <2>2. Concat(Append(parts \o m, k)) = Concat(parts \o m) \o k
    BY <2>1, ConcatNext
  <2>3. Concat(Append(m, k)) = Concat(m) \o k
    BY ConcatNext
  <2>4. (Concat(parts) \o Concat(m)) \o k = Concat(parts) \o (Concat(m) \o k)
    <3>1. Concat(parts) \in Seq(S) /\ Concat(m) \in Seq(S) /\ k \in Seq(S)
      BY ConcatIsSeq
    <3> DEFINE a == Concat(parts)
               b == Concat(m)
    <3> HIDE DEF a, b
    <3>2. a \in Seq(S) /\ b \in Seq(S) /\ k \in Seq(S)
      BY <3>1 DEF a, b
    <3>3. (a \o b) \o k = a \o (b \o k)
      BY ONLY <3>2, ConcatAssociative
    <3> QED BY ONLY <3>3 DEF a, b
  <2>5. Append(m, k) \in Seq(K)
    OBVIOUS
  <2> QED BY <1>2, <2>1, <2>2, <2>3, <2>4, <2>5
<1>3. \A m \in Seq(K) : m \in T
  <2> HIDE DEF K, T
  <2> QED BY <1>1, <1>2, ListInduction
<1> QED BY <1>3

-----------------------------------------------------------------------------
\* One field.

Kinds == {"byte", "uint32", "uint64", "string"}

Put(kind, v) == IF kind = "string" THEN PutBytes32(v) ELSE v

\* What a field of a kind can hold.
FieldOK(kind, v) ==
  /\ v \in Seq(Unit)
  /\ kind \in {"byte", "uint32"} => Len(v) = 1
  /\ kind = "uint64" => Len(v) = 2
  /\ kind = "string" => Len(v) < Base

\* A field is written as at least one unit.
LEMMA PutIsSeq ==
  ASSUME NEW kind \in Kinds, NEW v, FieldOK(kind, v)
  PROVE  Put(kind, v) \in Seq(Unit) /\ Put(kind, v) # <<>>
<1>1. CASE kind = "string"
  <2>1. v \in Seq(Unit) /\ Len(v) \in Unit /\ Len(v) % Base = Len(v)
    BY <1>1, UnitFacts DEF FieldOK
  <2>2. <<Len(v)>> \o v \in Seq(Unit) /\ Len(<<Len(v)>> \o v) = 1 + Len(v)
    BY <2>1
  <2> QED BY <1>1, <2>1, <2>2 DEF Put, PutBytes32, PutUint32
<1>2. CASE kind # "string"
  <2>1. v \in Seq(Unit) /\ Len(v) \in {1, 2}
    BY <1>2 DEF FieldOK, Kinds
  <2>2. v # <<>>
    BY <2>1
  <2> QED BY <1>2, <2>1, <2>2 DEF Put
<1> QED BY <1>1, <1>2

\* A field that was written is got back, and the rest stays.
LEMMA GetPut ==
  ASSUME NEW kind \in Kinds, NEW v, FieldOK(kind, v), NEW r \in Seq(Unit)
  PROVE  Get(Put(kind, v) \o r, kind) = Got(v, r)
<1>1. CASE kind = "string"
  <2>1. v \in Seq(Unit) /\ Len(v) < Base
    BY <1>1 DEF FieldOK
  <2>2. GetBytes32(PutBytes32(v) \o r) = Got(v, r)
    BY <2>1, WrittenIsRead
  <2> QED BY <1>1, <2>2 DEF Get, Put
<1>2. CASE kind = "uint64"
  <2>1. v \in Seq(Unit) /\ Len(v) = 2
    BY <1>2 DEF FieldOK
  <2>2. GetUnits(v \o r, 2) = Got(v, r)
    BY <2>1, UnitsRead
  <2> QED BY <1>2, <2>2 DEF Get, Put
<1>3. CASE kind \in {"byte", "uint32"}
  <2>1. v \in Seq(Unit) /\ Len(v) = 1
    BY <1>3 DEF FieldOK
  <2>2. GetUnits(v \o r, 1) = Got(v, r)
    BY <2>1, UnitsRead
  <2> QED BY <1>3, <2>2 DEF Get, Put
<1> QED BY <1>1, <1>2, <1>3 DEF Kinds

\* What was got, and what is left.
LEMMA GotFields ==
  \A v, r : Got(v, r).ok = TRUE /\ Got(v, r).val = v /\ Got(v, r).rest = r
BY Zenon DEF Got

\* The units that were got and the rest are the buffer.
LEMMA UnitsPut ==
  ASSUME NEW b \in Seq(Unit), NEW n \in Nat, GetUnits(b, n).ok
  PROVE  LET g == GetUnits(b, n)
         IN  /\ g = Got(g.val, g.rest) /\ g.val \in Seq(Unit) /\ g.rest \in Seq(Unit)
             /\ Len(g.val) = n /\ b = g.val \o g.rest
<1>1. n <= Len(b)
  BY DEF GetUnits, Short
<1>2. GetUnits(b, n) = Got(SubSeq(b, 1, n), SubSeq(b, n + 1, Len(b)))
  BY <1>1 DEF GetUnits
<1>3. SubSeq(b, 1, n) \in Seq(Unit) /\ Len(SubSeq(b, 1, n)) = n
      /\ SubSeq(b, n + 1, Len(b)) \in Seq(Unit)
  BY <1>1
<1>4. SubSeq(b, 1, n) \o SubSeq(b, n + 1, Len(b)) = b
  <2>1. n \in 0 .. Len(b)
    BY <1>1
  <2> QED BY <2>1, CutAndJoined
<1>5. GetUnits(b, n).val = SubSeq(b, 1, n) /\ GetUnits(b, n).rest = SubSeq(b, n + 1, Len(b))
  <2> DEFINE g == GetUnits(b, n)
             v == SubSeq(b, 1, n)
             r == SubSeq(b, n + 1, Len(b))
  <2>1. g = Got(v, r)
    BY <1>2
  <2> HIDE DEF g, v, r
  <2>2. g.val = v /\ g.rest = r
    BY <2>1, GotFields
  <2> QED BY <2>2 DEF g, v, r
<1> HIDE DEF GetUnits
<1> QED BY <1>2, <1>3, <1>4, <1>5

\* Whatever a field was got from is the field as it is written and the rest.
LEMMA PutGet ==
  ASSUME NEW kind \in Kinds, NEW b \in Seq(Unit), Get(b, kind).ok
  PROVE  LET g == Get(b, kind)
         IN  /\ g = Got(g.val, g.rest) /\ FieldOK(kind, g.val) /\ g.rest \in Seq(Unit)
             /\ b = Put(kind, g.val) \o g.rest
<1>1. CASE kind = "string"
  <2>1. Get(b, kind) = GetBytes32(b)
    BY <1>1 DEF Get
  <2>2. /\ GetBytes32(b).val \in Seq(Unit) /\ GetBytes32(b).rest \in Seq(Unit)
        /\ b = PutBytes32(GetBytes32(b).val) \o GetBytes32(b).rest
    BY <2>1, ReadIsWritten
  <2>3. b # <<>> /\ GetBytes32(b) = GetUnits(Tail(b), b[1]) /\ GetUnits(Tail(b), b[1]).ok
    BY <2>1 DEF GetBytes32, Short
  <2>4. Tail(b) \in Seq(Unit) /\ b[1] \in Unit /\ b[1] \in Nat /\ b[1] < Base
    <3>1. Tail(b) \in Seq(Unit) /\ b[1] \in Unit
      BY <2>3
    <3> QED BY <3>1, UnitFacts
  <2>5. GetBytes32(b) = Got(GetBytes32(b).val, GetBytes32(b).rest)
        /\ Len(GetBytes32(b).val) = b[1]
    <3> DEFINE g == GetUnits(Tail(b), b[1])
    <3>1. g = Got(g.val, g.rest) /\ Len(g.val) = b[1]
      BY <2>3, <2>4, UnitsPut
    <3> HIDE DEF g
    <3> QED BY <2>3, <3>1 DEF g
  <2> DEFINE g == GetBytes32(b)
  <2>6. Get(b, kind) = g /\ g.val \in Seq(Unit) /\ Len(g.val) < Base /\ g.rest \in Seq(Unit)
        /\ g = Got(g.val, g.rest) /\ b = PutBytes32(g.val) \o g.rest
    BY <2>1, <2>2, <2>4, <2>5
  <2> HIDE DEF g
  <2> QED BY <1>1, <2>6 DEF FieldOK, Put
<1>2. CASE kind = "uint64"
  <2>1. Get(b, kind) = GetUnits(b, 2)
    BY <1>2 DEF Get
  <2> DEFINE g == GetUnits(b, 2)
  <2>2. /\ g = Got(g.val, g.rest) /\ g.val \in Seq(Unit) /\ g.rest \in Seq(Unit)
        /\ Len(g.val) = 2 /\ b = g.val \o g.rest
    BY <2>1, UnitsPut
  <2> HIDE DEF g
  <2>3. Get(b, kind) = g
    BY <2>1 DEF g
  <2> QED BY <1>2, <2>2, <2>3 DEF FieldOK, Put
<1>3. CASE kind \in {"byte", "uint32"}
  <2>1. Get(b, kind) = GetUnits(b, 1)
    BY <1>3 DEF Get
  <2> DEFINE g == GetUnits(b, 1)
  <2>2. /\ g = Got(g.val, g.rest) /\ g.val \in Seq(Unit) /\ g.rest \in Seq(Unit)
        /\ Len(g.val) = 1 /\ b = g.val \o g.rest
    BY <2>1, UnitsPut
  <2> HIDE DEF g
  <2>3. Get(b, kind) = g
    BY <2>1 DEF g
  <2> QED BY <1>3, <2>2, <2>3 DEF FieldOK, Put
<1> QED BY <1>1, <1>2, <1>3 DEF Kinds

\* A field is got, or the buffer is too short.
LEMMA GetFails ==
  ASSUME NEW kind \in Kinds, NEW b \in Seq(Unit)
  PROVE  Get(b, kind).ok \in BOOLEAN /\ (~ Get(b, kind).ok => Get(b, kind) = Short)
<1>1. \A t, n : GetUnits(t, n) = Short \/ GetUnits(t, n).ok = TRUE
  BY DEF GetUnits, Got
<1>2. GetBytes32(b) = Short \/ GetBytes32(b).ok = TRUE
  BY <1>1 DEF GetBytes32
<1>3. Short.ok = FALSE
  BY DEF Short
<1> QED BY <1>1, <1>2, <1>3 DEF Kinds, Get

-----------------------------------------------------------------------------
\* Read.

Outcomes(V) == {Short} \cup {Got(v, r) : v \in V, r \in Seq(Unit)}

\* Either nothing was read or something, with a rest.
LEMMA OutcomeCases ==
  ASSUME NEW V, NEW x \in Outcomes(V)
  PROVE  \/ x = Short /\ x.ok = FALSE
         \/ x.ok = TRUE /\ x.val \in V /\ x.rest \in Seq(Unit) /\ x = Got(x.val, x.rest)
<1>1. CASE x = Short
  BY <1>1 DEF Short
<1>2. CASE x # Short
  <2>1. PICK v \in V, r \in Seq(Unit) : x = Got(v, r)
    BY <1>2 DEF Outcomes
  <2> QED BY <2>1, GotFields
<1> QED BY <1>1, <1>2

\* Something read with a rest is an outcome.
LEMMA GotIsOutcome ==
  ASSUME NEW V, NEW v \in V, NEW r \in Seq(Unit)
  PROVE  Got(v, r) \in Outcomes(V)
BY DEF Outcomes

\* After a read that succeeded, the next field.
LEMMA AndThenIsOutcome ==
  ASSUME NEW A, NEW x \in Outcomes(Seq(A)), NEW y, y.ok => y \in Outcomes(A)
  PROVE  AndThen(x, y) \in Outcomes(Seq(A))
<1>1. CASE x.ok /\ y.ok
  <2>1. x.val \in Seq(A) /\ y.val \in A /\ y.rest \in Seq(Unit)
    BY <1>1, OutcomeCases
  <2>2. Append(x.val, y.val) \in Seq(A)
    BY <2>1
  <2>3. AndThen(x, y) = Got(Append(x.val, y.val), y.rest)
    BY <1>1 DEF AndThen
  <2> QED BY <2>1, <2>2, <2>3, GotIsOutcome
<1>2. CASE ~ (x.ok /\ y.ok)
  BY <1>2 DEF AndThen, Outcomes
<1> QED BY <1>1, <1>2

\* Getting a field has an outcome.
LEMMA GetIsOutcome ==
  ASSUME NEW kind \in Kinds, NEW b \in Seq(Unit)
  PROVE  Get(b, kind) \in Outcomes(Seq(Unit))
<1>1. CASE Get(b, kind).ok
  <2> DEFINE g == Get(b, kind)
  <2>1. g = Got(g.val, g.rest) /\ g.val \in Seq(Unit) /\ g.rest \in Seq(Unit)
    BY <1>1, PutGet DEF FieldOK
  <2> HIDE DEF g
  <2>2. g \in Outcomes(Seq(Unit))
    BY <2>1, GotIsOutcome
  <2> QED BY <2>2 DEF g
<1>2. CASE ~ Get(b, kind).ok
  BY <1>2, GetFails DEF Outcomes
<1> QED BY <1>1, <1>2

ReadUpTo(buffer, kinds) ==
  CHOOSE f : f = [i \in 0 .. Len(kinds) |->
    IF i = 0 THEN {Got(<<>>, buffer)}
    ELSE {AndThen(before, Get(before.rest, kinds[i])) : before \in f[i - 1]}]

\* The recursion of Read: the outcomes of the first i fields.
LEMMA ReadSteps ==
  ASSUME NEW b \in Seq(Unit), NEW kinds \in Seq(Kinds)
  PROVE  \E r \in [0 .. Len(kinds) -> Outcomes(Seq(Seq(Unit)))] :
           /\ r[0] = Got(<<>>, b)
           /\ \A i \in 1 .. Len(kinds) :
                r[i] = AndThen(r[i - 1], Get(r[i - 1].rest, kinds[i]))
           /\ Read(b, kinds) = r[Len(kinds)]
<1> DEFINE n == Len(kinds)
           O == Outcomes(Seq(Seq(Unit)))
           After(x, i) == AndThen(x, Get(x.rest, kinds[i]))
           start == Got(<<>>, b)
           step == [i \in 1 .. n |-> [x \in O |-> After(x, i)]]
           Is(f) == f = [i \in 0 .. n |-> IF i = 0 THEN {start}
                                          ELSE {After(before, i) : before \in f[i - 1]}]
           g == ReadUpTo(b, kinds)
<1>1. n \in Nat /\ \A i \in 1 .. n : kinds[i] \in Kinds
  OBVIOUS
<1>2. start \in O
  <2>1. <<>> \in Seq(Seq(Unit))
    OBVIOUS
  <2> QED BY <2>1, GotIsOutcome
<1>3. ASSUME NEW i \in 1 .. n, NEW x \in O PROVE After(x, i) \in O
  <2>1. CASE x.ok
    <3>1. x.rest \in Seq(Unit) /\ kinds[i] \in Kinds
      BY <1>1, <2>1, OutcomeCases
    <3>2. Get(x.rest, kinds[i]) \in Outcomes(Seq(Unit))
      BY <3>1, GetIsOutcome
    <3> QED BY <3>2, AndThenIsOutcome
  <2>2. CASE ~ x.ok
    BY <2>2 DEF AndThen, Outcomes
  <2> QED BY <2>1, <2>2
<1>4. step \in [1 .. n -> [O -> O]] /\ \A i \in 1 .. n, x \in O : step[i][x] = After(x, i)
  BY <1>3
<1>5. g = CHOOSE f : Is(f)
  BY DEF ReadUpTo
<1>6. Read(b, kinds) = CHOOSE x \in g[n] : TRUE
  BY DEF Read, ReadUpTo
<1> HIDE DEF n, O, After, start, step, g
<1>7. PICK r : Recursive(r, O, start, n, step)
  BY <1>1, <1>2, <1>4, Recursion
<1>7a. r \in [0 .. n -> O] /\ r[0] = start /\ \A i \in 1 .. n : r[i] = step[i][r[i - 1]]
  BY <1>7 DEF Recursive
<1>8. ASSUME NEW i \in 1 .. n PROVE r[i] = After(r[i - 1], i)
  <2>1. i - 1 \in 0 .. n /\ r[i - 1] \in O
    BY <1>1, <1>7a
  <2> QED BY <1>4, <1>7a, <2>1
<1>9. \E f : Is(f)
  <2> DEFINE f == [i \in 0 .. n |-> {r[i]}]
  <2>1. ASSUME NEW i \in 0 .. n
        PROVE  {r[i]} = IF i = 0 THEN {start} ELSE {After(before, i) : before \in f[i - 1]}
    <3>1. CASE i = 0
      BY <1>7a, <3>1
    <3>2. CASE i # 0
      <4>1. i \in 1 .. n /\ i - 1 \in 0 .. n
        BY <1>1, <3>2
      <4>2. f[i - 1] = {r[i - 1]}
        BY <4>1
      <4> QED BY <1>8, <3>2, <4>1, <4>2
    <3> QED BY <3>1, <3>2
  <2>2. Is(f)
    BY <2>1
  <2> QED BY <2>2
<1>10. Is(g)
  BY <1>5, <1>9
<1>11. \A i \in 0 .. n : g[i] = {r[i]}
  <2> DEFINE T == {i \in 0 .. n : g[i] = {r[i]}}
  <2>1. 0 \in T
    <3>1. 0 \in 0 .. n
      BY <1>1
    <3> QED BY <1>7a, <1>10, <3>1
  <2>2. ASSUME NEW i \in 0 .. n - 1, i \in T PROVE i + 1 \in T
    <3>1. i + 1 \in 1 .. n /\ (i + 1) - 1 = i /\ i + 1 \in 0 .. n /\ i + 1 # 0
      BY <1>1
    <3>2. g[i + 1] = {After(before, i + 1) : before \in g[i]}
      BY <1>10, <3>1
    <3>3. g[i] = {r[i]} /\ r[i + 1] = After(r[i], i + 1)
      BY <1>8, <2>2, <3>1
    <3> QED BY <3>1, <3>2, <3>3
  <2> HIDE DEF T
  <2>3. \A i \in 0 .. n : i \in T
    BY <1>1, <2>1, <2>2, UpTo
  <2> QED BY <2>3 DEF T
<1>12. Read(b, kinds) = r[n]
  <2>1. n \in 0 .. n
    BY <1>1
  <2> QED BY <1>6, <1>11, <2>1
<1> QED BY <1>7a, <1>8, <1>12 DEF n, O, start, After

\* Reading fields has an outcome.
LEMMA ReadIsOutcome ==
  ASSUME NEW b \in Seq(Unit), NEW kinds \in Seq(Kinds)
  PROVE  Read(b, kinds) \in Outcomes(Seq(Seq(Unit)))
<1>1. Len(kinds) \in 0 .. Len(kinds)
  OBVIOUS
<1> QED BY <1>1, ReadSteps

\* Reading no field leaves the buffer.
LEMMA ReadNone ==
  ASSUME NEW b \in Seq(Unit) PROVE Read(b, <<>>) = Got(<<>>, b)
<1>1. <<>> \in Seq(Kinds) /\ Len(<<>>) = 0
  OBVIOUS
<1>2. PICK r \in [0 .. Len(<<>>) -> Outcomes(Seq(Seq(Unit)))] :
        r[0] = Got(<<>>, b) /\ Read(b, <<>>) = r[Len(<<>>)]
  BY <1>1, ReadSteps
<1> QED BY <1>1, <1>2

\* One field more is read from the rest that the others leave.
LEMMA ReadNext ==
  ASSUME NEW b \in Seq(Unit), NEW kinds \in Seq(Kinds), NEW kind \in Kinds
  PROVE  Read(b, Append(kinds, kind)) =
           AndThen(Read(b, kinds), Get(Read(b, kinds).rest, kind))
<1> DEFINE n == Len(kinds)
           more == Append(kinds, kind)
           O == Outcomes(Seq(Seq(Unit)))
<1>1. /\ more \in Seq(Kinds) /\ Len(more) = n + 1 /\ n \in Nat /\ more[n + 1] = kind
      /\ \A i \in 1 .. n : more[i] = kinds[i]
  OBVIOUS
<1>2. PICK r \in [0 .. n -> O] :
        /\ r[0] = Got(<<>>, b)
        /\ \A i \in 1 .. n : r[i] = AndThen(r[i - 1], Get(r[i - 1].rest, kinds[i]))
        /\ Read(b, kinds) = r[n]
  BY ReadSteps
<1> HIDE DEF more
<1>3. PICK q \in [0 .. n + 1 -> O] :
        /\ q[0] = Got(<<>>, b)
        /\ \A i \in 1 .. n + 1 : q[i] = AndThen(q[i - 1], Get(q[i - 1].rest, more[i]))
        /\ Read(b, more) = q[n + 1]
  BY <1>1, ReadSteps
<1> HIDE DEF n, O
<1>4. \A i \in 0 .. n : r[i] = q[i]
  <2> DEFINE T == {i \in 0 .. n : r[i] = q[i]}
  <2>1. 0 \in T
    BY <1>1, <1>2, <1>3
  <2>2. ASSUME NEW i \in 0 .. n - 1, i \in T PROVE i + 1 \in T
    <3>1. i + 1 \in 1 .. n /\ i + 1 \in 1 .. n + 1 /\ (i + 1) - 1 = i /\ i + 1 \in 0 .. n
      BY <1>1
    <3>2. /\ r[i + 1] = AndThen(r[i], Get(r[i].rest, kinds[i + 1]))
          /\ q[i + 1] = AndThen(q[i], Get(q[i].rest, more[i + 1]))
      BY <1>2, <1>3, <3>1
    <3> QED BY <1>1, <2>2, <3>1, <3>2
  <2> HIDE DEF T
  <2>3. \A i \in 0 .. n : i \in T
    BY <1>1, <2>1, <2>2, UpTo
  <2> QED BY <2>3 DEF T
<1>5. n \in 0 .. n /\ n + 1 \in 1 .. n + 1 /\ (n + 1) - 1 = n
  <2>1. n \in Nat
    BY <1>1
  <2> QED BY ONLY <2>1
<1>6. q[n + 1] = AndThen(q[n], Get(q[n].rest, kind)) /\ r[n] = q[n]
  BY <1>1, <1>3, <1>4, <1>5
<1> QED BY <1>2, <1>3, <1>6 DEF more

-----------------------------------------------------------------------------
\* Lists of fields [kind, val], what they are read as and written as.

\* Joining is associative.
LEMMA UnitsAssociative ==
  \A a, b, c \in Seq(Unit) : (a \o b) \o c = a \o (b \o c)
BY ConcatAssociative

Field == {x \in [kind : Kinds, val : Seq(Unit)] : FieldOK(x.kind, x.val)}

KindsOf(fields) == [i \in DOMAIN fields |-> fields[i].kind]
ValsOf(fields)  == [i \in DOMAIN fields |-> fields[i].val]
Puts(fields)    == [i \in DOMAIN fields |-> Put(fields[i].kind, fields[i].val)]
Bytes(fields)   == Concat(Puts(fields))

\* The kind and the value of a field, and how it is written.
LEMMA FieldIs ==
  ASSUME NEW x \in Field
  PROVE  /\ x.kind \in Kinds /\ x.val \in Seq(Unit) /\ FieldOK(x.kind, x.val)
         /\ Put(x.kind, x.val) \in Seq(Unit)
BY PutIsSeq DEF Field

\* The kinds, the values and the bytes of a list of fields.
LEMMA FieldsAre ==
  ASSUME NEW fields \in Seq(Field)
  PROVE  /\ KindsOf(fields) \in Seq(Kinds) /\ Len(KindsOf(fields)) = Len(fields)
         /\ ValsOf(fields) \in Seq(Seq(Unit)) /\ Len(ValsOf(fields)) = Len(fields)
         /\ Puts(fields) \in Seq(Seq(Unit)) /\ Len(Puts(fields)) = Len(fields)
         /\ Bytes(fields) \in Seq(Unit)
<1>1. Len(fields) \in Nat /\ DOMAIN fields = 1 .. Len(fields)
      /\ \A i \in 1 .. Len(fields) : fields[i] \in Field
  OBVIOUS
<1>2. \A i \in 1 .. Len(fields) :
        /\ fields[i].kind \in Kinds /\ fields[i].val \in Seq(Unit)
        /\ Put(fields[i].kind, fields[i].val) \in Seq(Unit)
  BY <1>1, FieldIs
<1>3. KindsOf(fields) \in Seq(Kinds) /\ Len(KindsOf(fields)) = Len(fields)
  BY <1>1, <1>2 DEF KindsOf
<1>4. ValsOf(fields) \in Seq(Seq(Unit)) /\ Len(ValsOf(fields)) = Len(fields)
  BY <1>1, <1>2 DEF ValsOf
<1>5. Puts(fields) \in Seq(Seq(Unit)) /\ Len(Puts(fields)) = Len(fields)
  BY <1>1, <1>2 DEF Puts
<1> QED BY <1>3, <1>4, <1>5, ConcatIsSeq DEF Bytes

\* No fields have no kinds, no values and no bytes.
LEMMA FieldsNone ==
  /\ KindsOf(<<>>) = <<>> /\ ValsOf(<<>>) = <<>> /\ Bytes(<<>>) = <<>>
<1>1. KindsOf(<<>>) = <<>> /\ ValsOf(<<>>) = <<>> /\ Puts(<<>>) = <<>>
  BY DEF KindsOf, ValsOf, Puts
<1> QED BY <1>1, ConcatNone DEF Bytes

\* One field more has its kind, its value and its bytes at the end.
LEMMA FieldsNext ==
  ASSUME NEW fields \in Seq(Field), NEW x \in Field
  PROVE  /\ KindsOf(Append(fields, x)) = Append(KindsOf(fields), x.kind)
         /\ ValsOf(Append(fields, x)) = Append(ValsOf(fields), x.val)
         /\ Bytes(Append(fields, x)) = Bytes(fields) \o Put(x.kind, x.val)
<1> DEFINE n == Len(fields)
           more == Append(fields, x)
<1>1. /\ n \in Nat /\ DOMAIN fields = 1 .. n /\ DOMAIN more = 1 .. n + 1
      /\ more[n + 1] = x /\ \A i \in 1 .. n : more[i] = fields[i]
  OBVIOUS
<1>2. KindsOf(more) = Append(KindsOf(fields), x.kind)
  BY <1>1, FieldsAre, FieldIs DEF KindsOf
<1>3. ValsOf(more) = Append(ValsOf(fields), x.val)
  BY <1>1, FieldsAre, FieldIs DEF ValsOf
<1>4. Puts(more) = Append(Puts(fields), Put(x.kind, x.val))
  BY <1>1, FieldsAre, FieldIs DEF Puts
<1>5. Bytes(more) = Bytes(fields) \o Put(x.kind, x.val)
  BY <1>4, FieldsAre, FieldIs, ConcatNext DEF Bytes
<1> QED BY <1>2, <1>3, <1>5

\* Two lists of fields, one after the other.
LEMMA FieldsJoin ==
  ASSUME NEW fields \in Seq(Field), NEW more \in Seq(Field)
  PROVE  /\ fields \o more \in Seq(Field)
         /\ KindsOf(fields \o more) = KindsOf(fields) \o KindsOf(more)
         /\ ValsOf(fields \o more) = ValsOf(fields) \o ValsOf(more)
         /\ Bytes(fields \o more) = Bytes(fields) \o Bytes(more)
<1> DEFINE n == Len(fields)
           m == Len(more)
           all == fields \o more
<1>1. /\ n \in Nat /\ m \in Nat /\ all \in Seq(Field)
      /\ DOMAIN fields = 1 .. n /\ DOMAIN more = 1 .. m /\ DOMAIN all = 1 .. n + m
      /\ \A i \in 1 .. n + m : all[i] = IF i <= n THEN fields[i] ELSE more[i - n]
  OBVIOUS
<1>2. KindsOf(all) = KindsOf(fields) \o KindsOf(more)
  BY <1>1, FieldsAre DEF KindsOf
<1>3. ValsOf(all) = ValsOf(fields) \o ValsOf(more)
  BY <1>1, FieldsAre DEF ValsOf
<1>4. Puts(all) = Puts(fields) \o Puts(more)
  BY <1>1, FieldsAre DEF Puts
<1>5. Bytes(all) = Bytes(fields) \o Bytes(more)
  BY <1>4, FieldsAre, ConcatJoin DEF Bytes
<1> QED BY <1>1, <1>2, <1>3, <1>5

-----------------------------------------------------------------------------
\* Fields that are written are read back, whatever follows them.
THEOREM FieldsWrittenAreRead ==
  ASSUME NEW fields \in Seq(Field), NEW r \in Seq(Unit)
  PROVE  Read(Bytes(fields) \o r, KindsOf(fields)) = Got(ValsOf(fields), r)
<1> DEFINE Back(f) == \A s \in Seq(Unit) : Read(Bytes(f) \o s, KindsOf(f)) = Got(ValsOf(f), s)
           T == {f \in Seq(Field) : Back(f)}
<1>1. <<>> \in T
  <2>1. \A s \in Seq(Unit) : <<>> \o s = s
    OBVIOUS
  <2>2. Back(<<>>)
    BY <2>1, FieldsNone, ReadNone
  <2>3. <<>> \in Seq(Field)
    OBVIOUS
  <2> QED BY <2>2, <2>3
<1>2. ASSUME NEW f \in Seq(Field), NEW x \in Field, f \in T PROVE Append(f, x) \in T
  <2> DEFINE more == Append(f, x)
             p == Put(x.kind, x.val)
  <2>1. Append(f, x) \in Seq(Field)
    OBVIOUS
  <2>2. ASSUME NEW s \in Seq(Unit)
        PROVE  Read(Bytes(more) \o s, KindsOf(more)) = Got(ValsOf(more), s)
    <3> DEFINE b == Bytes(f)
               t == p \o s
    <3>1. b \in Seq(Unit) /\ p \in Seq(Unit) /\ t \in Seq(Unit)
      BY FieldsAre, FieldIs
    <3> HIDE DEF p, b
    <3>2. (b \o p) \o s = b \o t
      <4>1. b \in Seq(Unit) /\ p \in Seq(Unit)
        BY <3>1
      <4>2. (b \o p) \o s = b \o (p \o s)
        BY <4>1, UnitsAssociative
      <4> QED BY <4>2
    <3>3. b \o t \in Seq(Unit)
      BY <3>1
    <3>4. Bytes(more) \o s = b \o t
      BY <3>2, FieldsNext DEF b, p
    <3> HIDE DEF t
    <3>5. Read(b \o t, KindsOf(f)) = Got(ValsOf(f), t)
      BY <1>2, <3>1 DEF b
    <3>6. Get(t, x.kind) = Got(x.val, s)
      BY FieldIs, GetPut DEF t, p
    <3>7. Read(b \o t, Append(KindsOf(f), x.kind)) =
            AndThen(Got(ValsOf(f), t), Get(t, x.kind))
      <4>1. KindsOf(f) \in Seq(Kinds) /\ x.kind \in Kinds
        BY FieldsAre, FieldIs
      <4>2. Read(b \o t, KindsOf(f)).rest = t
        BY <3>5, GotFields
      <4>3. Read(b \o t, Append(KindsOf(f), x.kind)) =
              AndThen(Read(b \o t, KindsOf(f)), Get(Read(b \o t, KindsOf(f)).rest, x.kind))
        BY <3>3, <4>1, ReadNext
      <4> QED BY <3>5, <4>2, <4>3
    <3>8. AndThen(Got(ValsOf(f), t), Got(x.val, s)) = Got(Append(ValsOf(f), x.val), s)
      BY GotFields DEF AndThen
    <3> QED BY <3>4, <3>6, <3>7, <3>8, FieldsNext
  <2>3. Back(more)
    BY <2>2
  <2> HIDE DEF more, Back
  <2> QED BY <2>1, <2>3 DEF more
<1>3. \A f \in Seq(Field) : f \in T
  <2> HIDE DEF T
  <2> QED BY <1>1, <1>2, ListInduction
<1> QED BY <1>3

\* What is read is all that the bytes say: they are the fields that were read and
\* the rest.
THEOREM FieldsReadAreWritten ==
  ASSUME NEW b \in Seq(Unit), NEW kinds \in Seq(Kinds), Read(b, kinds).ok
  PROVE  \E fields \in Seq(Field), r \in Seq(Unit) :
           /\ KindsOf(fields) = kinds
           /\ Read(b, kinds) = Got(ValsOf(fields), r)
           /\ b = Bytes(fields) \o r
<1> DEFINE From(k) == Read(b, k).ok =>
             \E fields \in Seq(Field), r \in Seq(Unit) :
               /\ KindsOf(fields) = k
               /\ Read(b, k) = Got(ValsOf(fields), r)
               /\ b = Bytes(fields) \o r
           T == {k \in Seq(Kinds) : From(k)}
<1>1. <<>> \in T
  <2>1. <<>> \in Seq(Field) /\ <<>> \o b = b /\ <<>> \in Seq(Kinds)
    OBVIOUS
  <2>2. KindsOf(<<>>) = <<>> /\ Read(b, <<>>) = Got(ValsOf(<<>>), b) /\ b = Bytes(<<>>) \o b
    BY <2>1, FieldsNone, ReadNone
  <2>3. From(<<>>)
    BY <2>1, <2>2
  <2> QED BY <2>1, <2>3
<1>2. ASSUME NEW k \in Seq(Kinds), NEW kind \in Kinds, k \in T PROVE Append(k, kind) \in T
  <2> DEFINE more == Append(k, kind)
  <2>1. more \in Seq(Kinds)
    OBVIOUS
  <2>2. ASSUME Read(b, more).ok
        PROVE  \E fields \in Seq(Field), r \in Seq(Unit) :
                 /\ KindsOf(fields) = more
                 /\ Read(b, more) = Got(ValsOf(fields), r)
                 /\ b = Bytes(fields) \o r
    <3>1. Read(b, more) = AndThen(Read(b, k), Get(Read(b, k).rest, kind))
      BY ReadNext
    <3>2. Read(b, k).ok /\ Get(Read(b, k).rest, kind).ok
      BY <2>2, <3>1 DEF AndThen, Short
    <3>3. PICK fields \in Seq(Field), t \in Seq(Unit) :
            /\ KindsOf(fields) = k
            /\ Read(b, k) = Got(ValsOf(fields), t)
            /\ b = Bytes(fields) \o t
      BY <1>2, <3>2
    <3>4. Read(b, k).rest = t /\ Read(b, k).val = ValsOf(fields)
      BY <3>3, GotFields
    <3> DEFINE g == Get(t, kind)
               v == g.val
               r == g.rest
               x == [kind |-> kind, val |-> v]
               p == Put(kind, v)
    <3>5. g = Got(v, r) /\ FieldOK(kind, v) /\ r \in Seq(Unit) /\ t = p \o r
      BY <3>2, <3>4, PutGet
    <3>6. x \in Field /\ x.kind = kind /\ x.val = v
      BY <3>5 DEF Field, FieldOK
    <3>7. Read(b, more) = Got(Append(ValsOf(fields), v), r)
      <4>1. Read(b, more) = AndThen(Read(b, k), g) /\ g.ok /\ Read(b, k).ok
        BY <3>1, <3>2, <3>4
      <4> HIDE DEF g, more
      <4> QED BY <3>4, <4>1 DEF AndThen, g
    <3> HIDE DEF g, v, r, x, more
    <3>8. /\ KindsOf(Append(fields, x)) = Append(k, kind)
          /\ ValsOf(Append(fields, x)) = Append(ValsOf(fields), v)
          /\ Bytes(Append(fields, x)) = Bytes(fields) \o p
      BY <3>3, <3>6, FieldsNext
    <3>9. b = (Bytes(fields) \o p) \o r
      <4> DEFINE s == Bytes(fields)
      <4>1. s \in Seq(Unit) /\ p \in Seq(Unit) /\ r \in Seq(Unit)
        BY <3>5, <3>6, FieldsAre, FieldIs
      <4>2. b = s \o (p \o r)
        BY <3>3, <3>5
      <4> HIDE DEF s, p
      <4>3. (s \o p) \o r = s \o (p \o r)
        BY <4>1, UnitsAssociative
      <4> QED BY <4>2, <4>3 DEF s
    <3>10. Append(fields, x) \in Seq(Field)
      BY <3>6
    <3> HIDE DEF p
    <3> QED BY <3>5, <3>7, <3>8, <3>9, <3>10 DEF more
  <2>3. From(more)
    BY <2>2
  <2> HIDE DEF more, From
  <2> QED BY <2>1, <2>3 DEF more
<1>3. \A k \in Seq(Kinds) : k \in T
  <2> HIDE DEF T
  <2> QED BY <1>1, <1>2, ListInduction
<1> QED BY <1>3

-----------------------------------------------------------------------------
\* ReadAll.

\* Reading one group more has an outcome.
LEMMA ReadMoreIsOutcome ==
  ASSUME NEW kinds \in Seq(Kinds), NEW x \in Outcomes(Seq(Seq(Seq(Unit))))
  PROVE  ReadMore(x, kinds) \in Outcomes(Seq(Seq(Seq(Unit))))
<1>1. CASE x.ok /\ x.rest # <<>>
  <2>1. x.rest \in Seq(Unit)
    BY <1>1, OutcomeCases
  <2>2. Read(x.rest, kinds) \in Outcomes(Seq(Seq(Unit)))
    BY <2>1, ReadIsOutcome
  <2>3. AndThen(x, Read(x.rest, kinds)) \in Outcomes(Seq(Seq(Seq(Unit))))
    BY <2>2, AndThenIsOutcome
  <2> QED BY <1>1, <2>3 DEF ReadMore
<1>2. CASE ~ (x.ok /\ x.rest # <<>>)
  BY <1>2 DEF ReadMore
<1> QED BY <1>1, <1>2

ReadAllUpTo(buffer, kinds) ==
  CHOOSE f : f = [i \in 0 .. Len(buffer) |->
    IF i = 0 THEN {Got(<<>>, buffer)}
    ELSE {ReadMore(before, kinds) : before \in f[i - 1]}]

\* The recursion of ReadAll: the outcomes of the first i rounds.
LEMMA ReadAllSteps ==
  ASSUME NEW b \in Seq(Unit), NEW kinds \in Seq(Kinds)
  PROVE  \E r \in [0 .. Len(b) -> Outcomes(Seq(Seq(Seq(Unit))))] :
           /\ r[0] = Got(<<>>, b)
           /\ \A i \in 1 .. Len(b) : r[i] = ReadMore(r[i - 1], kinds)
           /\ ReadAll(b, kinds) = r[Len(b)]
<1> DEFINE n == Len(b)
           O == Outcomes(Seq(Seq(Seq(Unit))))
           After(x) == ReadMore(x, kinds)
           start == Got(<<>>, b)
           step == [i \in 1 .. n |-> [x \in O |-> After(x)]]
           Is(f) == f = [i \in 0 .. n |-> IF i = 0 THEN {start}
                                          ELSE {After(before) : before \in f[i - 1]}]
           g == ReadAllUpTo(b, kinds)
<1>1. n \in Nat
  OBVIOUS
<1>2. start \in O
  <2>1. <<>> \in Seq(Seq(Seq(Unit)))
    OBVIOUS
  <2> QED BY <2>1, GotIsOutcome
<1>3. \A x \in O : After(x) \in O
  BY ReadMoreIsOutcome
<1>4. step \in [1 .. n -> [O -> O]] /\ \A i \in 1 .. n, x \in O : step[i][x] = After(x)
  BY <1>3
<1>5. g = CHOOSE f : Is(f)
  BY DEF ReadAllUpTo
<1>6. ReadAll(b, kinds) = CHOOSE x \in g[n] : TRUE
  BY DEF ReadAll, ReadAllUpTo
<1> HIDE DEF n, O, After, start, step, g
<1>7. PICK r : Recursive(r, O, start, n, step)
  BY <1>1, <1>2, <1>4, Recursion
<1>8. r \in [0 .. n -> O] /\ r[0] = start /\ \A i \in 1 .. n : r[i] = step[i][r[i - 1]]
  BY <1>7 DEF Recursive
<1>9. ASSUME NEW i \in 1 .. n PROVE r[i] = After(r[i - 1])
  <2>1. i - 1 \in 0 .. n /\ r[i - 1] \in O
    BY <1>1, <1>8
  <2> QED BY <1>4, <1>8, <2>1
<1>10. \E f : Is(f)
  <2> DEFINE f == [i \in 0 .. n |-> {r[i]}]
  <2>1. ASSUME NEW i \in 0 .. n
        PROVE  {r[i]} = IF i = 0 THEN {start} ELSE {After(before) : before \in f[i - 1]}
    <3>1. CASE i = 0
      BY <1>8, <3>1
    <3>2. CASE i # 0
      <4>1. i \in 1 .. n /\ i - 1 \in 0 .. n
        BY <1>1, <3>2
      <4>2. f[i - 1] = {r[i - 1]}
        BY <4>1
      <4> QED BY <1>9, <3>2, <4>1, <4>2
    <3> QED BY <3>1, <3>2
  <2>2. Is(f)
    BY <2>1
  <2> QED BY <2>2
<1>11. Is(g)
  BY <1>5, <1>10
<1>12. \A i \in 0 .. n : g[i] = {r[i]}
  <2> DEFINE T == {i \in 0 .. n : g[i] = {r[i]}}
  <2>1. 0 \in T
    <3>1. 0 \in 0 .. n
      BY <1>1
    <3> QED BY <1>8, <1>11, <3>1
  <2>2. ASSUME NEW i \in 0 .. n - 1, i \in T PROVE i + 1 \in T
    <3>1. i + 1 \in 1 .. n /\ (i + 1) - 1 = i /\ i + 1 \in 0 .. n /\ i + 1 # 0
      BY <1>1
    <3>2. g[i + 1] = {After(before) : before \in g[i]}
      BY <1>11, <3>1
    <3>3. g[i] = {r[i]} /\ r[i + 1] = After(r[i])
      BY <1>9, <2>2, <3>1
    <3> QED BY <3>1, <3>2, <3>3
  <2> HIDE DEF T
  <2>3. \A i \in 0 .. n : i \in T
    BY <1>1, <2>1, <2>2, UpTo
  <2> QED BY <2>3 DEF T
<1>13. ReadAll(b, kinds) = r[n]
  <2>1. n \in 0 .. n
    BY <1>1
  <2> QED BY <1>6, <1>12, <2>1
<1> QED BY <1>8, <1>9, <1>13 DEF n, O, start, After

-----------------------------------------------------------------------------
\* Lists of groups of fields.

GroupsOf(kinds) == {g \in Seq(Field) : KindsOf(g) = kinds}
AllVals(groups)  == [i \in DOMAIN groups |-> ValsOf(groups[i])]
AllBytes(groups) == Concat([i \in DOMAIN groups |-> Bytes(groups[i])])

\* A group of fields, none of which is empty as written.
LEMMA GroupIs ==
  ASSUME NEW kinds \in Seq(Kinds), kinds # <<>>, NEW g \in GroupsOf(kinds)
  PROVE  /\ g \in Seq(Field) /\ KindsOf(g) = kinds /\ ValsOf(g) \in Seq(Seq(Unit))
         /\ Bytes(g) \in Seq(Unit) /\ Len(Bytes(g)) \in Nat /\ Len(Bytes(g)) >= 1
<1>1. g \in Seq(Field) /\ KindsOf(g) = kinds /\ ValsOf(g) \in Seq(Seq(Unit))
      /\ Bytes(g) \in Seq(Unit)
  BY FieldsAre DEF GroupsOf
<1>2. g # <<>>
  BY <1>1, FieldsNone
<1>3. PICK front \in Seq(Field), last \in Field : g = Append(front, last)
  BY <1>1, <1>2, SequenceEmptyOrAppend
<1>4. Bytes(g) = Bytes(front) \o Put(last.kind, last.val)
  BY <1>3, FieldsNext
<1>5. Put(last.kind, last.val) \in Seq(Unit) /\ Put(last.kind, last.val) # <<>>
  BY FieldIs, PutIsSeq
<1>6. Bytes(front) \in Seq(Unit)
  BY FieldsAre
<1> HIDE DEF Bytes, Put
<1>7. Len(Bytes(g)) >= 1
  BY <1>4, <1>5, <1>6
<1> QED BY <1>1, <1>7

\* The values and the bytes of a list of groups.
LEMMA GroupsAre ==
  ASSUME NEW kinds \in Seq(Kinds), kinds # <<>>, NEW groups \in Seq(GroupsOf(kinds))
  PROVE  /\ AllVals(groups) \in Seq(Seq(Seq(Unit))) /\ Len(AllVals(groups)) = Len(groups)
         /\ [i \in DOMAIN groups |-> Bytes(groups[i])] \in Seq(Seq(Unit))
         /\ AllBytes(groups) \in Seq(Unit)
<1> DEFINE n == Len(groups)
<1>1. n \in Nat /\ DOMAIN groups = 1 .. n /\ \A i \in 1 .. n : groups[i] \in GroupsOf(kinds)
  OBVIOUS
<1>2. \A i \in 1 .. n : ValsOf(groups[i]) \in Seq(Seq(Unit)) /\ Bytes(groups[i]) \in Seq(Unit)
  BY <1>1, GroupIs
<1>3. AllVals(groups) \in Seq(Seq(Seq(Unit))) /\ Len(AllVals(groups)) = n
  BY <1>1, <1>2 DEF AllVals
<1>4. [i \in DOMAIN groups |-> Bytes(groups[i])] \in Seq(Seq(Unit))
  BY <1>1, <1>2
<1> QED BY <1>3, <1>4, ConcatIsSeq DEF AllBytes

\* No groups have no values and no bytes.
LEMMA GroupsNone == AllVals(<<>>) = <<>> /\ AllBytes(<<>>) = <<>>
<1>1. AllVals(<<>>) = <<>> /\ [i \in DOMAIN <<>> |-> Bytes(<<>>[i])] = <<>>
  BY DEF AllVals
<1> QED BY <1>1, ConcatNone DEF AllBytes

\* One group more has its values and its bytes at the end.
LEMMA GroupsNext ==
  ASSUME NEW kinds \in Seq(Kinds), kinds # <<>>, NEW groups \in Seq(GroupsOf(kinds)),
         NEW g \in GroupsOf(kinds)
  PROVE  /\ AllVals(Append(groups, g)) = Append(AllVals(groups), ValsOf(g))
         /\ AllBytes(Append(groups, g)) = AllBytes(groups) \o Bytes(g)
<1> DEFINE n == Len(groups)
           more == Append(groups, g)
           parts == [i \in DOMAIN groups |-> Bytes(groups[i])]
<1>1. /\ n \in Nat /\ DOMAIN groups = 1 .. n /\ DOMAIN more = 1 .. n + 1
      /\ more[n + 1] = g /\ \A i \in 1 .. n : more[i] = groups[i]
  OBVIOUS
<1>2. AllVals(more) = Append(AllVals(groups), ValsOf(g))
  BY <1>1, GroupsAre, GroupIs DEF AllVals
<1>3. parts \in Seq(Seq(Unit)) /\ Len(parts) = n /\ Bytes(g) \in Seq(Unit)
  BY <1>1, GroupsAre, GroupIs
<1>4. [i \in DOMAIN more |-> Bytes(more[i])] = Append(parts, Bytes(g))
  BY <1>1, <1>3
<1>5. AllBytes(more) = AllBytes(groups) \o Bytes(g)
  <2> HIDE DEF parts
  <2>1. Concat(Append(parts, Bytes(g))) = Concat(parts) \o Bytes(g)
    BY <1>3, ConcatNext
  <2> QED BY <1>4, <2>1 DEF AllBytes, parts
<1> QED BY <1>2, <1>5

\* The rounds of ReadAll on groups that were written: after i, the first i are read.
LEMMA GroupsJoin ==
  ASSUME NEW kinds \in Seq(Kinds), kinds # <<>>, NEW groups \in Seq(GroupsOf(kinds)),
         NEW more \in Seq(GroupsOf(kinds))
  PROVE  AllBytes(groups \o more) = AllBytes(groups) \o AllBytes(more)
<1> DEFINE n == Len(groups)
           m == Len(more)
           all == groups \o more
           P(s) == [i \in DOMAIN s |-> Bytes(s[i])]
<1>1. /\ n \in Nat /\ m \in Nat /\ all \in Seq(GroupsOf(kinds))
      /\ DOMAIN groups = 1 .. n /\ DOMAIN more = 1 .. m /\ DOMAIN all = 1 .. n + m
      /\ \A i \in 1 .. n + m : all[i] = IF i <= n THEN groups[i] ELSE more[i - n]
  OBVIOUS
<1>2. P(groups) \in Seq(Seq(Unit)) /\ P(more) \in Seq(Seq(Unit))
  BY GroupsAre
<1>3. Len(P(groups)) = n /\ Len(P(more)) = m
  BY <1>1
<1>4. P(all) = P(groups) \o P(more)
  BY <1>1, <1>2, <1>3
<1> HIDE DEF P
<1>5. Concat(P(groups) \o P(more)) = Concat(P(groups)) \o Concat(P(more))
  BY <1>2, ConcatJoin
<1> QED BY <1>4, <1>5 DEF AllBytes, P

\* Groups are no more than their bytes: the rounds of ReadAll are enough.
LEMMA GroupsLong ==
  ASSUME NEW kinds \in Seq(Kinds), kinds # <<>>, NEW groups \in Seq(GroupsOf(kinds))
  PROVE  Len(groups) <= Len(AllBytes(groups))
<1> DEFINE K == GroupsOf(kinds)
           T == {s \in Seq(K) : Len(s) <= Len(AllBytes(s))}
<1>1. <<>> \in T
  BY GroupsNone
<1>2. ASSUME NEW s \in Seq(K), NEW g \in K, s \in T PROVE Append(s, g) \in T
  <2>1. AllBytes(Append(s, g)) = AllBytes(s) \o Bytes(g)
    BY GroupsNext
  <2>2. AllBytes(s) \in Seq(Unit) /\ Bytes(g) \in Seq(Unit) /\ Len(Bytes(g)) >= 1
    BY GroupsAre, GroupIs
  <2>3. Len(AllBytes(s) \o Bytes(g)) = Len(AllBytes(s)) + Len(Bytes(g))
    BY <2>2
  <2>4. Len(Append(s, g)) = Len(s) + 1 /\ Append(s, g) \in Seq(K) /\ Len(s) \in Nat
    OBVIOUS
  <2>5. Len(AllBytes(s)) \in Nat /\ Len(Bytes(g)) \in Nat /\ Len(s) <= Len(AllBytes(s))
    BY <1>2, <2>2
  <2>6. Len(Append(s, g)) <= Len(AllBytes(Append(s, g)))
    <3> DEFINE x == Len(AllBytes(s))
               y == Len(Bytes(g))
               z == Len(s)
    <3>1. x \in Nat /\ y \in Nat /\ z \in Nat /\ z <= x /\ y >= 1
      BY <2>2, <2>4, <2>5
    <3> HIDE DEF x, y, z
    <3>2. z + 1 <= x + y
      BY <3>1
    <3> QED BY <2>1, <2>3, <2>4, <3>2 DEF x, y, z
  <2> QED BY <2>4, <2>6
<1>3. \A s \in Seq(K) : s \in T
  <2> HIDE DEF T, K
  <2> QED BY <1>1, <1>2, ListInduction
<1> QED BY <1>3

\* Groups of fields that fill a buffer are read back, one after the other.
THEOREM GroupsWrittenAreRead ==
  ASSUME NEW kinds \in Seq(Kinds), kinds # <<>>, NEW groups \in Seq(GroupsOf(kinds))
  PROVE  ReadAll(AllBytes(groups), kinds) = Got(AllVals(groups), <<>>)
<1> DEFINE b == AllBytes(groups)
           n == Len(groups)
           N == Len(b)
           K == GroupsOf(kinds)
           first(i) == SubSeq(groups, 1, i)
           others(i) == SubSeq(groups, i + 1, n)
           State(i) == Got(AllVals(first(i)), AllBytes(others(i)))
<1>1. b \in Seq(Unit) /\ n \in Nat /\ N \in Nat /\ n <= N
  <2>1. b \in Seq(Unit)
    BY GroupsAre
  <2>2. N >= n
    BY GroupsLong
  <2>3. n \in Nat /\ N \in Nat
    BY <2>1
  <2> QED BY <2>1, <2>2, <2>3
<1>2. PICK r \in [0 .. N -> Outcomes(Seq(Seq(Seq(Unit))))] :
        /\ r[0] = Got(<<>>, b)
        /\ \A i \in 1 .. N : r[i] = ReadMore(r[i - 1], kinds)
        /\ ReadAll(b, kinds) = r[N]
  BY <1>1, ReadAllSteps
<1>3. ASSUME NEW i \in 0 .. n - 1 PROVE State(i + 1) = ReadMore(State(i), kinds)
  <2> DEFINE g == groups[i + 1]
             t == AllBytes(others(i + 1))
  <2>1. /\ i + 1 \in 1 .. n /\ i \in Nat /\ g \in K /\ first(i) \in Seq(K)
        /\ others(i) \in Seq(K) /\ others(i + 1) \in Seq(K)
    BY <1>1
  <2>2. first(i + 1) = Append(first(i), g)
    <3>1. SubSeq(groups, 1, i + 1) = Append(SubSeq(groups, 1, (i + 1) - 1), groups[i + 1])
      BY <2>1, SubSeqRecursiveSecond
    <3>2. (i + 1) - 1 = i
      BY <2>1
    <3> QED BY <3>1, <3>2
  <2>3. others(i) = <<g>> \o others(i + 1) /\ <<g>> \in Seq(K)
    <3>1. Len(others(i)) = n - i /\ Len(<<g>> \o others(i + 1)) = n - i
      BY <1>1, <2>1
    <3>2. \A k \in 1 .. n - i : others(i)[k] = (<<g>> \o others(i + 1))[k]
      BY <1>1, <2>1
    <3>3. others(i) \in Seq(K) /\ <<g>> \o others(i + 1) \in Seq(K)
      BY <2>1
    <3> DEFINE x == others(i)
               y == <<g>> \o others(i + 1)
    <3>4. x \in Seq(K) /\ y \in Seq(K) /\ Len(x) = Len(y) /\ Len(x) = n - i
      BY <3>1, <3>3
    <3>5. \A k \in 1 .. Len(x) : x[k] = y[k]
      BY <3>2, <3>4
    <3> HIDE DEF x, y
    <3>6. x = y
      BY <3>4, <3>5, SeqEqual
    <3> QED BY <2>1, <3>6 DEF x, y
  <2>4. t \in Seq(Unit) /\ g \in Seq(Field) /\ KindsOf(g) = kinds
        /\ Bytes(g) \in Seq(Unit) /\ Len(Bytes(g)) >= 1
    BY <2>1, GroupsAre, GroupIs
  <2>5. AllBytes(<<g>>) = Bytes(g)
    <3>1. [k \in DOMAIN <<g>> |-> Bytes(<<g>>[k])] = <<Bytes(g)>>
      OBVIOUS
    <3> QED BY <2>4, <3>1, ConcatOne DEF AllBytes
  <2>6. AllBytes(others(i)) = Bytes(g) \o t
    BY <2>1, <2>3, <2>5, GroupsJoin
  <2>7. Read(Bytes(g) \o t, kinds) = Got(ValsOf(g), t)
    BY <2>4, FieldsWrittenAreRead
  <2>8. Bytes(g) \o t # <<>>
    BY <2>4
  <2>9. AllVals(first(i + 1)) = Append(AllVals(first(i)), ValsOf(g))
    BY <2>1, <2>2, GroupsNext
  <2> DEFINE vals == AllVals(first(i))
             buf == Bytes(g) \o t
  <2>10. State(i) = Got(vals, buf) /\ State(i + 1) = Got(Append(vals, ValsOf(g)), t)
    BY <2>6, <2>9
  <2> HIDE DEF vals, buf, t, g, State
  <2>11. ReadMore(Got(vals, buf), kinds) = AndThen(Got(vals, buf), Got(ValsOf(g), t))
    BY <2>7, <2>8, GotFields DEF ReadMore, buf
  <2>12. AndThen(Got(vals, buf), Got(ValsOf(g), t)) = Got(Append(vals, ValsOf(g)), t)
    BY GotFields DEF AndThen
  <2> QED BY <2>10, <2>11, <2>12
<1>4. State(0) = Got(<<>>, b) /\ State(n) = Got(AllVals(groups), <<>>)
  <2>1. first(0) = <<>> /\ others(0) = groups /\ first(n) = groups /\ others(n) = <<>>
    BY <1>1
  <2> QED BY <2>1, GroupsNone
<1>5. ReadMore(State(n), kinds) = State(n)
  BY <1>4, GotFields DEF ReadMore
<1> HIDE DEF State, b, n, N
<1>6. \A i \in 0 .. n : r[i] = State(i)
  <2> DEFINE T == {i \in 0 .. n : r[i] = State(i)}
  <2>1. 0 \in T
    BY <1>1, <1>2, <1>4
  <2>2. ASSUME NEW i \in 0 .. n - 1, i \in T PROVE i + 1 \in T
    <3>1. i + 1 \in 1 .. N /\ (i + 1) - 1 = i /\ i + 1 \in 0 .. n
      BY <1>1
    <3>2. r[i + 1] = ReadMore(r[i], kinds)
      BY <1>2, <3>1
    <3> QED BY <1>3, <2>2, <3>1, <3>2
  <2> HIDE DEF T
  <2>3. \A i \in 0 .. n : i \in T
    BY <1>1, <2>1, <2>2, UpTo
  <2> QED BY <2>3 DEF T
<1>7. \A i \in 0 .. N : i >= n => r[i] = State(n)
  <2> DEFINE T == {i \in 0 .. N : i >= n => r[i] = State(n)}
  <2>0. n \in 0 .. n /\ r[n] = State(n)
    BY <1>1, <1>6
  <2>1. 0 \in T
    BY <1>1, <2>0
  <2>2. ASSUME NEW i \in 0 .. N - 1, i \in T PROVE i + 1 \in T
    <3>1. i + 1 \in 1 .. N /\ (i + 1) - 1 = i /\ i + 1 \in 0 .. N /\ i \in Nat
      BY <1>1
    <3>2. r[i + 1] = ReadMore(r[i], kinds)
      BY <1>2, <3>1
    <3>3. CASE i >= n
      BY <1>5, <2>2, <3>1, <3>2, <3>3
    <3>4. CASE i + 1 = n
      BY <2>0, <3>1, <3>4
    <3>5. CASE i + 1 < n
      BY <1>1, <3>1, <3>5
    <3> QED BY <1>1, <3>1, <3>3, <3>4, <3>5
  <2> HIDE DEF T
  <2>3. \A i \in 0 .. N : i \in T
    BY <1>1, <2>1, <2>2, UpTo
  <2> QED BY <2>3 DEF T
<1>8. r[N] = State(n)
  BY <1>1, <1>7
<1> QED BY <1>2, <1>4, <1>8 DEF b

\* What ReadAll reads is all that the buffer holds.
THEOREM GroupsReadAreWritten ==
  ASSUME NEW kinds \in Seq(Kinds), kinds # <<>>, NEW b \in Seq(Unit), ReadAll(b, kinds).ok
  PROVE  \E groups \in Seq(GroupsOf(kinds)) :
           ReadAll(b, kinds) = Got(AllVals(groups), <<>>) /\ b = AllBytes(groups)
<1> DEFINE N == Len(b)
           K == GroupsOf(kinds)
           Holds(x, i) == x.ok => \E s \in Seq(K), t \in Seq(Unit) :
                            /\ x = Got(AllVals(s), t)
                            /\ b = AllBytes(s) \o t
                            /\ t = <<>> \/ Len(t) <= N - i
<1>1. N \in Nat
  OBVIOUS
<1>2. PICK r \in [0 .. N -> Outcomes(Seq(Seq(Seq(Unit))))] :
        /\ r[0] = Got(<<>>, b)
        /\ \A i \in 1 .. N : r[i] = ReadMore(r[i - 1], kinds)
        /\ ReadAll(b, kinds) = r[N]
  BY ReadAllSteps
<1>3. Holds(r[0], 0)
  <2>1. <<>> \in Seq(K) /\ AllVals(<<>>) = <<>> /\ b = AllBytes(<<>>) \o b /\ Len(b) <= N - 0
    BY GroupsNone
  <2> QED BY <1>2, <2>1
<1>4. ASSUME NEW i \in 0 .. N - 1, Holds(r[i], i) PROVE Holds(r[i + 1], i + 1)
  <2> SUFFICES ASSUME r[i + 1].ok
               PROVE  \E s \in Seq(K), t \in Seq(Unit) :
                        /\ r[i + 1] = Got(AllVals(s), t)
                        /\ b = AllBytes(s) \o t
                        /\ t = <<>> \/ Len(t) <= N - (i + 1)
    OBVIOUS
  <2>1. i + 1 \in 1 .. N /\ (i + 1) - 1 = i /\ i \in Nat
    BY <1>1
  <2>2. r[i + 1] = ReadMore(r[i], kinds)
    BY <1>2, <2>1
  <2>3. r[i].ok
    <3>1. CASE r[i].ok /\ r[i].rest # <<>>
      BY <3>1
    <3>2. CASE ~ (r[i].ok /\ r[i].rest # <<>>)
      BY <2>2, <3>2 DEF ReadMore
    <3> QED BY <3>1, <3>2
  <2>4. PICK s \in Seq(K), t \in Seq(Unit) :
          /\ r[i] = Got(AllVals(s), t)
          /\ b = AllBytes(s) \o t
          /\ t = <<>> \/ Len(t) <= N - i
    BY <1>4, <2>3
  <2>5. r[i].ok = TRUE /\ r[i].val = AllVals(s) /\ r[i].rest = t
    BY <2>4, GotFields
  <2>6. CASE t = <<>>
    <3>1. r[i + 1] = r[i]
      BY <2>2, <2>5, <2>6 DEF ReadMore
    <3> QED BY <2>4, <2>6, <3>1
  <2>7. CASE t # <<>>
    <3>1. r[i + 1] = AndThen(r[i], Read(t, kinds))
      BY <2>2, <2>5, <2>7 DEF ReadMore
    <3>2. Read(t, kinds).ok
      BY <3>1 DEF AndThen, Short
    <3>3. PICK g \in Seq(Field), u \in Seq(Unit) :
            KindsOf(g) = kinds /\ Read(t, kinds) = Got(ValsOf(g), u) /\ t = Bytes(g) \o u
      BY <3>2, FieldsReadAreWritten
    <3>4. g \in K /\ Append(s, g) \in Seq(K)
      BY <3>3 DEF GroupsOf
    <3>5. r[i + 1] = Got(AllVals(Append(s, g)), u)
      <4>1. AndThen(Got(AllVals(s), t), Got(ValsOf(g), u)) =
              Got(Append(AllVals(s), ValsOf(g)), u)
        BY GotFields DEF AndThen
      <4>2. AllVals(Append(s, g)) = Append(AllVals(s), ValsOf(g))
        BY <3>4, GroupsNext
      <4> QED BY <2>4, <3>1, <3>3, <4>1, <4>2
    <3>6. /\ AllBytes(s) \in Seq(Unit) /\ Bytes(g) \in Seq(Unit) /\ Len(Bytes(g)) >= 1
          /\ Len(Bytes(g)) \in Nat
      BY <3>4, GroupsAre, GroupIs
    <3>7. b = AllBytes(Append(s, g)) \o u
      <4>1. AllBytes(Append(s, g)) = AllBytes(s) \o Bytes(g)
        BY <3>4, GroupsNext
      <4>2. (AllBytes(s) \o Bytes(g)) \o u = AllBytes(s) \o (Bytes(g) \o u)
        BY <3>6, UnitsAssociative
      <4> QED BY <2>4, <3>3, <4>1, <4>2
    <3>8. Len(u) <= N - (i + 1)
      <4>1. Len(t) = Len(Bytes(g)) + Len(u) /\ Len(u) \in Nat
        <5> HIDE DEF Bytes
        <5> QED BY <3>3, <3>6
      <4>2. Len(t) <= N - i
        BY <2>4, <2>7
      <4> DEFINE x == Len(Bytes(g))
                 y == Len(u)
      <4>3. x \in Nat /\ x >= 1 /\ y \in Nat /\ x + y <= N - i
        BY <3>6, <4>1, <4>2
      <4> HIDE DEF x, y, N
      <4>4. y <= N - (i + 1)
        BY <1>1, <2>1, <4>3
      <4> QED BY <4>4 DEF y
    <3> QED BY <3>4, <3>5, <3>7, <3>8
  <2> QED BY <2>6, <2>7
<1>5. \A i \in 0 .. N : Holds(r[i], i)
  <2> DEFINE T == {i \in 0 .. N : Holds(r[i], i)}
  <2>1. 0 \in T
    BY <1>1, <1>3
  <2>2. ASSUME NEW i \in 0 .. N - 1, i \in T PROVE i + 1 \in T
    <3>1. i + 1 \in 0 .. N
      BY <1>1
    <3> QED BY <1>4, <2>2, <3>1
  <2> HIDE DEF T
  <2>3. \A i \in 0 .. N : i \in T
    BY <1>1, <2>1, <2>2, UpTo
  <2> QED BY <2>3 DEF T
<1> HIDE DEF Holds
<1>6. Holds(r[N], N)
  <2>1. N \in 0 .. N
    BY <1>1
  <2> HIDE DEF N
  <2> QED BY <1>5, <2>1
<1> USE DEF Holds
<1>7. PICK s \in Seq(K), t \in Seq(Unit) :
        /\ r[N] = Got(AllVals(s), t)
        /\ b = AllBytes(s) \o t
        /\ t = <<>> \/ Len(t) <= N - N
  BY <1>2, <1>6
<1>8. t = <<>>
  BY <1>1, <1>7
<1>9. AllBytes(s) \o <<>> = AllBytes(s)
  BY <1>7, GroupsAre, ConcatProperties
<1> QED BY <1>2, <1>7, <1>8, <1>9

-----------------------------------------------------------------------------
\* A read looks at nothing behind what it reads.
LEMMA ReadExtends ==
  ASSUME NEW b \in Seq(Unit), NEW kinds \in Seq(Kinds), Read(b, kinds).ok,
         NEW x \in Seq(Unit)
  PROVE  /\ Read(b, kinds).rest \in Seq(Unit)
         /\ Read(b \o x, kinds) = Got(Read(b, kinds).val, Read(b, kinds).rest \o x)
<1>1. PICK fields \in Seq(Field), r \in Seq(Unit) :
        /\ KindsOf(fields) = kinds
        /\ Read(b, kinds) = Got(ValsOf(fields), r)
        /\ b = Bytes(fields) \o r
  BY FieldsReadAreWritten
<1>2. Read(b, kinds).val = ValsOf(fields) /\ Read(b, kinds).rest = r
  BY <1>1, GotFields
<1>3. Bytes(fields) \in Seq(Unit) /\ r \o x \in Seq(Unit)
  BY <1>1, FieldsAre
<1>4. b \o x = Bytes(fields) \o (r \o x)
  <2> DEFINE s == Bytes(fields)
  <2>1. s \in Seq(Unit) /\ b = s \o r
    BY <1>1, <1>3
  <2> HIDE DEF s
  <2>2. (s \o r) \o x = s \o (r \o x)
    BY <2>1, UnitsAssociative
  <2> QED BY <2>1, <2>2 DEF s
<1>5. Read(Bytes(fields) \o (r \o x), kinds) = Got(ValsOf(fields), r \o x)
  BY <1>1, <1>3, FieldsWrittenAreRead
<1> QED BY <1>2, <1>4, <1>5

\* So does the read of a string.
LEMMA StringExtends ==
  ASSUME NEW b \in Seq(Unit), GetBytes32(b).ok, NEW x \in Seq(Unit)
  PROVE  GetBytes32(b \o x) = Got(GetBytes32(b).val, GetBytes32(b).rest \o x)
<1> DEFINE g == GetBytes32(b)
<1>1. Get(b, "string") = g /\ "string" \in Kinds /\ g.ok
  BY DEF Get, Kinds
<1>2. g = Got(g.val, g.rest) /\ FieldOK("string", g.val) /\ g.rest \in Seq(Unit)
      /\ b = Put("string", g.val) \o g.rest
  BY <1>1, PutGet
<1> DEFINE p == Put("string", g.val)
           v == g.val
           r == g.rest
<1>3. p \in Seq(Unit) /\ r \in Seq(Unit) /\ r \o x \in Seq(Unit) /\ b = p \o r
  <2> HIDE DEF g
  <2>1. p \in Seq(Unit)
    BY <1>1, <1>2, PutIsSeq
  <2>2. r \in Seq(Unit) /\ b = p \o r
    BY <1>2
  <2> HIDE DEF r, p
  <2> QED BY <2>1, <2>2
<1>4. Get(p \o (r \o x), "string") = Got(v, r \o x)
  BY <1>1, <1>2, <1>3, GetPut
<1> HIDE DEF g, p, r, v
<1>5. (p \o r) \o x = p \o (r \o x)
  BY <1>3, UnitsAssociative
<1>6. GetBytes32(b \o x) = Get(p \o (r \o x), "string")
  BY <1>3, <1>5 DEF Get
<1> QED BY <1>4, <1>6 DEF g, r, v

-----------------------------------------------------------------------------
\* Numbers.

\* A uint64 is written as two units, from which it is found again.
LEMMA NumberUnits ==
  ASSUME NEW n \in 0 .. MaxUint64
  PROVE  /\ n \div Base \in Unit /\ n % Base \in Unit
         /\ PutUint64(n) = <<n \div Base, n % Base>>
         /\ PutUint64(n) \in Seq(Unit) /\ Len(PutUint64(n)) = 2
         /\ Uint64(PutUint64(n)) = n
<1> DEFINE q == n \div Base
           m == n % Base
<1>1. Base \in Nat /\ Base > 0 /\ n \in Nat /\ n <= Base * Base - 1
  BY UnitFacts DEF MaxUint64
<1>2. q \in Nat /\ m \in 0 .. Base - 1 /\ n = Base * q + m
  BY <1>1
<1>3. q < Base
  <2> HIDE DEF q, m
  <2>1. SUFFICES ASSUME q >= Base PROVE FALSE
    BY <1>1, <1>2
  <2>2. Base * q >= Base * Base
    BY <1>1, <1>2, <2>1
  <2> QED BY <1>1, <1>2, <2>2
<1>4. q \in Unit /\ m \in Unit /\ q % Base = q
  BY <1>1, <1>2, <1>3 DEF Unit
<1>5. PutUint64(n) = <<q, m>>
  BY <1>4 DEF PutUint64
<1>6. Uint64(<<q, m>>) = n
  BY <1>1, <1>2, <1>4 DEF Uint64
<1> QED BY <1>4, <1>5, <1>6

\* The units of a uint64 are those of a number.
LEMMA UnitsNumber ==
  ASSUME NEW v \in Seq(Unit), Len(v) = 2
  PROVE  Uint64(v) \in 0 .. MaxUint64 /\ PutUint64(Uint64(v)) = v
<1> DEFINE q == v[1]
           m == v[2]
           n == Uint64(v)
<1>1. q \in Unit /\ m \in Unit /\ v = <<q, m>>
  OBVIOUS
<1>2. /\ Base \in Nat /\ Base > 0 /\ q \in Nat /\ q <= Base - 1 /\ m \in Nat /\ m <= Base - 1
      /\ n = q * Base + m
  BY <1>1, UnitFacts DEF Unit, Uint64
<1> HIDE DEF q, m, n
<1>3. n \in 0 .. MaxUint64
  <2>1. q * Base <= (Base - 1) * Base
    BY <1>2
  <2>2. (Base - 1) * Base + (Base - 1) = Base * Base - 1
    BY <1>2
  <2>3. n \in Nat
    BY <1>2
  <2> QED BY <1>2, <2>1, <2>2, <2>3 DEF MaxUint64
<1>4. n \div Base = q /\ n % Base = m
  <2>1. n \div Base \in Int /\ n % Base \in 0 .. Base - 1 /\ n = Base * (n \div Base) + (n % Base)
    <3> SUFFICES ASSUME NEW k \in Nat
                 PROVE  /\ k \div Base \in Int /\ k % Base \in 0 .. Base - 1
                        /\ k = Base * (k \div Base) + (k % Base)
      BY <1>3
    <3> QED BY ONLY k \in Nat, UnitFacts
  <2> DEFINE d == n \div Base
             e == n % Base
  <2>2. d \in Int /\ e \in Int /\ 0 <= e /\ e <= Base - 1 /\ Base * d + e = Base * q + m
    BY <1>2, <2>1
  <2> HIDE DEF d, e
  <2>3. Base * (d - q) = m - e
    BY <1>2, <2>2
  <2>4. d = q
    <3>1. CASE d >= q + 1
      <4>1. Base * (d - q) >= Base
        BY <1>2, <2>2, <3>1
      <4> QED BY <1>2, <2>2, <2>3, <4>1
    <3>2. CASE d <= q - 1
      <4>1. Base * (d - q) <= 0 - Base
        BY <1>2, <2>2, <3>2
      <4> QED BY <1>2, <2>2, <2>3, <4>1
    <3> QED BY <1>2, <2>2, <3>1, <3>2
  <2>5. e = m
    BY <1>2, <2>2, <2>4
  <2> QED BY <2>4, <2>5 DEF d, e
<1>5. PutUint64(n) = <<q, m>>
  <2>1. PutUint64(n) = <<n \div Base, n % Base>>
    BY <1>3, NumberUnits
  <2> QED BY <1>4, <2>1
<1> QED BY <1>1, <1>3, <1>5 DEF n

\* A number that fits a unit is written as itself.
LEMMA SmallNumber ==
  ASSUME NEW n \in Unit
  PROVE  /\ PutUint32(n) = <<n>> /\ PutUint32(n) \in Seq(Unit) /\ Len(PutUint32(n)) = 1
         /\ Uint32(PutUint32(n)) = n
<1>1. n % Base = n
  BY UnitFacts
<1> QED BY <1>1 DEF PutUint32, Uint32

-----------------------------------------------------------------------------
\* The order of strings.

\* No string is less than itself.
LEMMA LessIrreflexive ==
  ASSUME NEW s \in Seq(Unit) PROVE ~ Less(s, s)
<1>1. \A k \in DOMAIN s : s[k] \in Unit /\ k <= Len(s) /\ k \in Nat /\ Len(s) \in Nat
  OBVIOUS
<1>2. \A u \in Unit : ~ (u < u)
  BY UnitFacts
<1> QED BY <1>1, <1>2 DEF Less

\* The order of strings is transitive.
LEMMA LessTransitive ==
  ASSUME NEW x \in Seq(Unit), NEW y \in Seq(Unit), NEW z \in Seq(Unit), Less(x, y), Less(y, z)
  PROVE  Less(x, z)
<1>1. PICK k \in DOMAIN y : /\ k - 1 <= Len(x) /\ \A i \in 1 .. k - 1 : x[i] = y[i]
                            /\ k > Len(x) \/ x[k] < y[k]
  BY DEF Less
<1>2. PICK m \in DOMAIN z : /\ m - 1 <= Len(y) /\ \A i \in 1 .. m - 1 : y[i] = z[i]
                            /\ m > Len(y) \/ y[m] < z[m]
  BY DEF Less
<1>3. /\ k \in Nat /\ 1 <= k /\ k <= Len(y) /\ m \in Nat /\ 1 <= m /\ m <= Len(z)
      /\ DOMAIN z = 1 .. Len(z) /\ Len(x) \in Nat /\ Len(y) \in Nat /\ Len(z) \in Nat
  OBVIOUS
<1>4. /\ \A i \in Nat : 1 <= i /\ i <= Len(x) => x[i] \in Nat
      /\ \A i \in Nat : 1 <= i /\ i <= Len(y) => y[i] \in Nat
      /\ \A i \in Nat : 1 <= i /\ i <= Len(z) => z[i] \in Nat
  <2>1. \A s \in Seq(Unit), i \in Nat : 1 <= i /\ i <= Len(s) => s[i] \in Unit
    OBVIOUS
  <2>2. \A s \in Seq(Unit), i \in Nat : 1 <= i /\ i <= Len(s) => s[i] \in Nat
    BY <2>1, UnitFacts
  <2> QED BY <2>2
<1>5. CASE k < m
  <2>1. k \in DOMAIN z /\ y[k] = z[k] /\ \A i \in 1 .. k - 1 : x[i] = z[i]
    BY <1>1, <1>2, <1>3, <1>5
  <2> QED BY <1>1, <2>1 DEF Less
<1>6. CASE k = m
  <2>1. \A i \in 1 .. m - 1 : x[i] = z[i]
    BY <1>1, <1>2, <1>6
  <2>2. k > Len(x) \/ x[k] < z[k]
    <3>1. CASE k <= Len(x)
      <4>1. x[k] < y[k] /\ y[k] < z[k] /\ x[k] \in Nat /\ y[k] \in Nat /\ z[k] \in Nat
        BY <1>1, <1>2, <1>3, <1>4, <1>6, <3>1
      <4> QED BY <4>1
    <3> QED BY <1>3, <3>1
  <2> QED BY <1>1, <1>2, <1>6, <2>1, <2>2 DEF Less
<1>7. CASE m < k
  <2>1. m - 1 <= Len(x) /\ x[m] = y[m] /\ y[m] < z[m] /\ \A i \in 1 .. m - 1 : x[i] = z[i]
    BY <1>1, <1>2, <1>3, <1>7
  <2> QED BY <1>2, <2>1 DEF Less
<1> QED BY <1>3, <1>5, <1>6, <1>7

\* Of two different strings one is less: look at the first difference.
LEMMA LessTotal ==
  ASSUME NEW x \in Seq(Unit), NEW y \in Seq(Unit), x # y
  PROVE  Less(x, y) \/ Less(y, x)
<1> DEFINE D == {k \in Nat : /\ 1 <= k /\ (k <= Len(x) \/ k <= Len(y))
                             /\ (k > Len(x) \/ k > Len(y) \/ x[k] # y[k])}
<1>1. Len(x) \in Nat /\ Len(y) \in Nat /\ DOMAIN x = 1 .. Len(x) /\ DOMAIN y = 1 .. Len(y)
  OBVIOUS
<1>2. D # {}
  <2>1. SUFFICES ASSUME D = {} PROVE FALSE
    OBVIOUS
  <2>2. \A k \in Nat : 1 <= k /\ (k <= Len(x) \/ k <= Len(y)) =>
                       k <= Len(x) /\ k <= Len(y) /\ x[k] = y[k]
    BY <1>1, <2>1
  <2>3. Len(x) = Len(y)
    <3> DEFINE a == Len(x)
               b == Len(y)
    <3>1. /\ a \in Nat /\ b \in Nat
          /\ \A k \in Nat : 1 <= k /\ (k <= a \/ k <= b) => k <= a /\ k <= b
      BY <1>1, <2>2
    <3> HIDE DEF a, b
    <3>2. CASE a = 0
      <4>1. b = 0
        BY <3>1, <3>2
      <4> QED BY <3>2, <4>1 DEF a, b
    <3>3. CASE a # 0
      <4>1. a <= b /\ (b >= 1 => b <= a)
        BY <3>1, <3>3
      <4>2. a = b
        BY <3>1, <3>3, <4>1
      <4> QED BY <4>2 DEF a, b
    <3> QED BY <3>2, <3>3
  <2>4. \A i \in 1 .. Len(x) : x[i] = y[i]
    BY <1>1, <2>2
  <2> QED BY <2>3, <2>4, SeqEqual
<1>3. PICK k \in D : \A j \in D : k <= j
  BY <1>2, LeastNumber
<1>4. k \in Nat /\ 1 <= k /\ (k <= Len(x) \/ k <= Len(y))
      /\ (k > Len(x) \/ k > Len(y) \/ x[k] # y[k])
  OBVIOUS
<1>5. \A i \in 1 .. k - 1 : i <= Len(x) /\ i <= Len(y) /\ x[i] = y[i]
  <2> SUFFICES ASSUME NEW i \in 1 .. k - 1
               PROVE  i <= Len(x) /\ i <= Len(y) /\ x[i] = y[i]
    OBVIOUS
  <2>1. i \in Nat /\ 1 <= i /\ i < k /\ i \notin D
    BY <1>3, <1>4
  <2>2. i <= Len(x) \/ i <= Len(y)
    BY <1>1, <1>4, <2>1
  <2> QED BY <1>1, <2>1, <2>2
<1>6. k - 1 <= Len(x) /\ k - 1 <= Len(y)
  <2>1. CASE k = 1
    BY <1>1, <2>1
  <2>2. CASE k # 1
    <3>1. k - 1 \in 1 .. k - 1
      BY <1>4, <2>2
    <3> QED BY <1>5, <3>1
  <2> QED BY <2>1, <2>2
<1> HIDE DEF D
<1>7. CASE k > Len(x)
  <2>1. k \in DOMAIN y
    BY <1>1, <1>4, <1>7
  <2> QED BY <1>5, <1>6, <1>7, <2>1 DEF Less
<1>8. CASE k > Len(y)
  <2>1. k \in DOMAIN x
    BY <1>1, <1>4, <1>8
  <2> QED BY <1>5, <1>6, <1>8, <2>1 DEF Less
<1>9. CASE k <= Len(x) /\ k <= Len(y)
  <2>1. k \in DOMAIN x /\ k \in DOMAIN y /\ x[k] # y[k]
    BY <1>1, <1>4, <1>9
  <2>2. x[k] \in Nat /\ y[k] \in Nat
    <3>1. x[k] \in Unit /\ y[k] \in Unit
      BY <2>1
    <3> QED BY <3>1, UnitFacts
  <2>3. x[k] < y[k] \/ y[k] < x[k]
    BY <2>1, <2>2
  <2> QED BY <1>5, <1>6, <2>1, <2>3 DEF Less
<1> QED BY <1>1, <1>4, <1>7, <1>8, <1>9

\* In order: of two strings, the second is not less.
InOrder == {q \in Seq(Unit) \X Seq(Unit) : ~ Less(q[2], q[1])}

\* Not to be greater is a total order of strings.
LEMMA InOrderFacts ==
  /\ \A x, y \in Seq(Unit) : <<x, y>> \in InOrder \/ <<y, x>> \in InOrder
  /\ \A x, y, z \in Seq(Unit) :
       <<x, y>> \in InOrder /\ <<y, z>> \in InOrder => <<x, z>> \in InOrder
  /\ \A x, y \in Seq(Unit) : <<x, y>> \in InOrder /\ <<y, x>> \in InOrder => x = y
<1>1. \A x, y \in Seq(Unit) : <<x, y>> \in InOrder <=> ~ Less(y, x)
  BY DEF InOrder
<1>2. \A x, y \in Seq(Unit) : ~ (Less(x, y) /\ Less(y, x))
  BY LessTransitive, LessIrreflexive
<1>3. ASSUME NEW x \in Seq(Unit), NEW y \in Seq(Unit), NEW z \in Seq(Unit),
             ~ Less(y, x), ~ Less(z, y), Less(z, x)
      PROVE  FALSE
  <2>1. CASE y = z
    BY <1>3, <2>1
  <2>2. CASE y # z
    <3>1. Less(y, z)
      BY <1>3, <2>2, LessTotal
    <3>2. Less(y, x)
      BY <1>3, <3>1, LessTransitive
    <3> QED BY <1>3, <3>2
  <2> QED BY <2>1, <2>2
<1>4. \A x, y \in Seq(Unit) : ~ Less(x, y) /\ ~ Less(y, x) => x = y
  BY LessTotal
<1> QED BY <1>1, <1>2, <1>3, <1>4

\* Sorting finds such an order of the keys.
LEMMA SortingSorts ==
  ASSUME NEW n \in Nat, NEW keys \in [1 .. n -> Seq(Unit)]
  PROVE  /\ Sorting(keys) \in Bijection(1 .. n, 1 .. n)
         /\ \A i, j \in 1 .. n :
              i < j => <<keys[Sorting(keys)[i]], keys[Sorting(keys)[j]]>> \in InOrder
<1>1. DOMAIN keys = 1 .. n
  OBVIOUS
<1>2. \E p \in Bijection(1 .. n, 1 .. n) :
        \A i, j \in 1 .. n : i < j => <<keys[p[i]], keys[p[j]]>> \in InOrder
  <2> DEFINE T == Seq(Unit)
  <2>1. keys \in [1 .. n -> T]
    OBVIOUS
  <2>2. /\ \A x, y \in T : <<x, y>> \in InOrder \/ <<y, x>> \in InOrder
        /\ \A x, y, z \in T : <<x, y>> \in InOrder /\ <<y, z>> \in InOrder => <<x, z>> \in InOrder
    BY InOrderFacts
  <2> HIDE DEF T
  <2> QED BY <2>1, <2>2, SortingExists
<1>3. \A p \in Bijection(1 .. n, 1 .. n), i, j \in 1 .. n :
        <<keys[p[i]], keys[p[j]]>> \in InOrder <=> ~ Less(keys[p[j]], keys[p[i]])
  BY DEF InOrder, Bijection, Injection
<1>4. \E p \in Bijection(1 .. n, 1 .. n) :
        \A i, j \in 1 .. n : i < j => ~ Less(keys[p[j]], keys[p[i]])
  BY <1>2, <1>3
<1>5. /\ Sorting(keys) \in Bijection(1 .. n, 1 .. n)
      /\ \A i, j \in 1 .. n : i < j => ~ Less(keys[Sorting(keys)[j]], keys[Sorting(keys)[i]])
  BY <1>1, <1>4 DEF Sorting
<1> QED BY <1>3, <1>5

\* No injection of 1 .. i into 1 .. i - 1.
LEMMA NoRoom ==
  ASSUME NEW i \in Nat, i >= 1, NEW f \in Injection(1 .. i, 1 .. i - 1)
  PROVE  FALSE
<1> DEFINE A == 1 .. i
           B == 1 .. i - 1
<1>1. IsFiniteSet(B) /\ Cardinality(B) = i - 1
  BY FS_Interval
<1>2. Cardinality(A) = i
  BY FS_Interval
<1>3. f \in Injection(A, B)
  OBVIOUS
<1> HIDE DEF A, B
<1>4. Cardinality(A) <= Cardinality(B)
  BY <1>1, <1>3, FS_Injection
<1> QED BY <1>1, <1>2, <1>4

\* A total order Q of T, and a list of keys in that order.
IsOrder(T, Q) ==
  /\ \A x, y \in T : <<x, y>> \in Q \/ <<y, x>> \in Q
  /\ \A x, y, z \in T : <<x, y>> \in Q /\ <<y, z>> \in Q => <<x, z>> \in Q
  /\ \A x, y \in T : <<x, y>> \in Q /\ <<y, x>> \in Q => x = y

Ordered(Q, n, keys) == \A i, j \in 1 .. n : i < j => <<keys[i], keys[j]>> \in Q
OrderedBy(Q, n, keys, q) == \A i, j \in 1 .. n : i < j => <<keys[q[i]], keys[q[j]]>> \in Q
SameKeys(n, keys, q)     == \A i \in 1 .. n : keys[q[i]] = keys[i]

\* A list that is in order has the same keys in the same places after it was sorted.
LEMMA SortedStays ==
  ASSUME NEW T, NEW Q, IsOrder(T, Q), NEW n \in Nat, NEW keys \in [1 .. n -> T],
         Ordered(Q, n, keys), NEW q \in Bijection(1 .. n, 1 .. n),
         OrderedBy(Q, n, keys, q)
  PROVE  SameKeys(n, keys, q)
<1> USE DEF IsOrder, SameKeys
<1>0. /\ q \in [1 .. n -> 1 .. n]
      /\ \A i, j \in 1 .. n : q[i] = q[j] => i = j
      /\ \A v \in 1 .. n : \E i \in 1 .. n : q[i] = v
  BY DEF Bijection, Injection, Surjection, IsInjective
<1>a. \A i, j \in 1 .. n : i < j => /\ <<keys[i], keys[j]>> \in Q
                                     /\ <<keys[q[i]], keys[q[j]]>> \in Q
  BY DEF Ordered, OrderedBy
<1>1. \A i, j \in 1 .. n : i <= j => /\ <<keys[i], keys[j]>> \in Q
                                     /\ <<keys[q[i]], keys[q[j]]>> \in Q
  <2> SUFFICES ASSUME NEW i \in 1 .. n, NEW j \in 1 .. n, i <= j
               PROVE  /\ <<keys[i], keys[j]>> \in Q
                      /\ <<keys[q[i]], keys[q[j]]>> \in Q
    OBVIOUS
  <2>1. keys[i] \in T /\ keys[q[i]] \in T
    BY <1>0
  <2>2. CASE i = j
    BY <2>1, <2>2
  <2>3. CASE i < j
    BY <1>a, <2>3
  <2> QED BY <2>2, <2>3
<1> SUFFICES ASSUME NEW i \in 1 .. n, keys[q[i]] # keys[i] PROVE FALSE
  OBVIOUS
<1>2. i \in Nat /\ i >= 1 /\ \A j \in 1 .. i : j \in 1 .. n /\ j <= i
  OBVIOUS
<1>3. keys[i] \in T /\ keys[q[i]] \in T /\ q[i] \in 1 .. n
  BY <1>0
<1>4. CASE <<keys[q[i]], keys[i]>> \in Q
  <2>1. ASSUME NEW j \in 1 .. i PROVE q[j] \in 1 .. i - 1
    <3>1. j \in 1 .. n /\ q[j] \in 1 .. n /\ <<keys[q[j]], keys[q[i]]>> \in Q
      BY <1>0, <1>1, <1>2
    <3>2. CASE q[j] >= i
      <4>1. <<keys[i], keys[q[j]]>> \in Q
        BY <1>1, <3>1, <3>2
      <4>2. keys[q[j]] \in T
        BY <3>1
      <4>3. <<keys[i], keys[q[i]]>> \in Q
        BY <1>3, <3>1, <4>1, <4>2
      <4> QED BY <1>3, <1>4, <4>3
    <3>3. CASE q[j] < i
      BY <3>1, <3>3
    <3> QED BY <1>2, <3>1, <3>2, <3>3
  <2> DEFINE f == [j \in 1 .. i |-> q[j]]
  <2>2. f \in [1 .. i -> 1 .. i - 1]
    BY <2>1
  <2>3. \A j, m \in 1 .. i : f[j] = f[m] => j = m
    BY <1>0, <1>2
  <2> HIDE DEF f
  <2>4. f \in Injection(1 .. i, 1 .. i - 1)
    BY <2>2, <2>3 DEF Injection, IsInjective
  <2> QED BY <1>2, <2>4, NoRoom
<1>5. CASE <<keys[i], keys[q[i]]>> \in Q
  <2>1. ASSUME NEW v \in 1 .. i PROVE \E w \in 1 .. i - 1 : q[w] = v
    <3>1. v \in 1 .. n /\ v <= i
      BY <1>2
    <3>2. PICK w \in 1 .. n : q[w] = v
      BY <1>0, <3>1
    <3>3. CASE w >= i
      <4>1. <<keys[q[i]], keys[v]>> \in Q
        BY <1>1, <3>2, <3>3
      <4>2. <<keys[v], keys[i]>> \in Q /\ keys[v] \in T
        BY <1>1, <3>1
      <4>3. <<keys[q[i]], keys[i]>> \in Q
        BY <1>3, <4>1, <4>2
      <4> QED BY <1>3, <1>5, <4>3
    <3>4. CASE w < i
      BY <3>2, <3>4
    <3> QED BY <1>2, <3>2, <3>3, <3>4
  <2> DEFINE f == [v \in 1 .. i |-> CHOOSE w \in 1 .. i - 1 : q[w] = v]
  <2>2. \A v \in 1 .. i : f[v] \in 1 .. i - 1 /\ q[f[v]] = v
    BY <2>1
  <2>3. f \in [1 .. i -> 1 .. i - 1]
    BY <2>2
  <2>4. \A j, m \in 1 .. i : f[j] = f[m] => j = m
    BY <2>2
  <2> HIDE DEF f
  <2>5. f \in Injection(1 .. i, 1 .. i - 1)
    BY <2>3, <2>4 DEF Injection, IsInjective
  <2> QED BY <1>2, <2>5, NoRoom
<1> QED BY <1>3, <1>4, <1>5

\* Sorting leaves names that are in order in their places.
LEMMA SortingStays ==
  ASSUME NEW n \in Nat, NEW keys \in [1 .. n -> Seq(Unit)], Ordered(InOrder, n, keys)
  PROVE  \A i \in 1 .. n : Sorting(keys)[i] \in 1 .. n /\ keys[Sorting(keys)[i]] = keys[i]
<1> DEFINE T == Seq(Unit)
           q == Sorting(keys)
<1>1. /\ q \in Bijection(1 .. n, 1 .. n)
      /\ \A i, j \in 1 .. n : i < j => <<keys[q[i]], keys[q[j]]>> \in InOrder
  BY SortingSorts
<1>2. IsOrder(T, InOrder)
  BY InOrderFacts DEF IsOrder
<1>3. keys \in [1 .. n -> T] /\ \A i \in 1 .. n : q[i] \in 1 .. n
  BY <1>1 DEF Bijection, Injection
<1> HIDE DEF T, q
<1>4. OrderedBy(InOrder, n, keys, q)
  BY <1>1 DEF OrderedBy
<1>5. SameKeys(n, keys, q)
  BY <1>1, <1>2, <1>3, <1>4, SortedStays
<1> QED BY <1>3, <1>5 DEF q, SameKeys

-----------------------------------------------------------------------------
\* The length of a concatenation does not depend on the order of the parts.

Places(parts) == UNION {{i} \X (1 .. Len(parts[i])) : i \in DOMAIN parts}

\* Parts joined are as long as all places in them together.
LEMMA ConcatLength ==
  ASSUME NEW S, NEW parts \in Seq(Seq(S))
  PROVE  IsFiniteSet(Places(parts)) /\ Len(Concat(parts)) = Cardinality(Places(parts))
<1> DEFINE K == Seq(S)
           Holds(m) == IsFiniteSet(Places(m)) /\ Len(Concat(m)) = Cardinality(Places(m))
           T == {m \in Seq(K) : Holds(m)}
<1>1. <<>> \in T
  <2>1. Places(<<>>) = {}
    BY DEF Places
  <2>2. Len(Concat(<<>>)) = 0
    BY ConcatNone
  <2>3. Holds(<<>>)
    BY <2>1, <2>2, FS_EmptySet
  <2> QED BY <2>3
<1>2. ASSUME NEW m \in Seq(K), NEW k \in K, m \in T PROVE Append(m, k) \in T
  <2> DEFINE more == Append(m, k)
             n == Len(m) + 1
             P == Places(m)
             R == {n} \X (1 .. Len(k))
  <2>1. /\ Len(m) \in Nat /\ Len(k) \in Nat /\ DOMAIN m = 1 .. Len(m) /\ DOMAIN more = 1 .. n
        /\ more[n] = k /\ \A i \in 1 .. Len(m) : more[i] = m[i]
        /\ more \in Seq(K)
    OBVIOUS
  <2>2. Places(more) = P \cup R
    BY <2>1 DEF Places
  <2>3. P \cap R = {}
    BY <2>1 DEF Places
  <2>4. IsFiniteSet(R) /\ Cardinality(R) = Len(k)
    <3> DEFINE f == [j \in 1 .. Len(k) |-> <<n, j>>]
    <3>1. f \in Bijection(1 .. Len(k), R)
      <4>1. f \in [1 .. Len(k) -> R]
        OBVIOUS
      <4>2. \A i, j \in 1 .. Len(k) : f[i] = f[j] => i = j
        OBVIOUS
      <4>3. \A r \in R : \E j \in 1 .. Len(k) : f[j] = r
        OBVIOUS
      <4> HIDE DEF f, R
      <4> QED BY <4>1, <4>2, <4>3 DEF Bijection, Injection, Surjection, IsInjective
    <3> DEFINE A == 1 .. Len(k)
    <3>2. ExistsBijection(A, R)
      BY <3>1 DEF ExistsBijection
    <3>3. IsFiniteSet(A) /\ Cardinality(A) = Len(k)
      <4> DEFINE m1 == Len(k)
      <4>1. m1 \in Nat
        BY <2>1
      <4> HIDE DEF m1
      <4>2. IsFiniteSet(1 .. m1) /\ Cardinality(1 .. m1) = m1
        BY <4>1, FS_Interval
      <4> QED BY <4>2 DEF m1
    <3> HIDE DEF A, R
    <3> QED BY <3>2, <3>3, FS_Bijection
  <2>5. IsFiniteSet(P) /\ Cardinality(P) = Len(Concat(m))
    BY <1>2
  <2>6. Concat(more) = Concat(m) \o k /\ Concat(m) \in Seq(S)
    BY ConcatNext, ConcatIsSeq
  <2>7. Len(Concat(more)) = Len(Concat(m)) + Len(k)
    BY <2>6
  <2> HIDE DEF P, R, n, more
  <2>8. IsFiniteSet(P \cup R) /\ Cardinality(P \cup R) = Cardinality(P) + Cardinality(R)
    <3>1. Cardinality(P \cup R) = Cardinality(P) + Cardinality(R) - Cardinality({})
      BY <2>3, <2>4, <2>5, FS_Union
    <3>2. Cardinality({}) = 0
      BY FS_EmptySet
    <3>3. Cardinality(P) \in Nat /\ Cardinality(R) \in Nat
      BY <2>4, <2>5, FS_CardinalityType
    <3>4. IsFiniteSet(P \cup R)
      BY <2>4, <2>5, FS_Union
    <3> QED BY <3>1, <3>2, <3>3, <3>4
  <2>9. Holds(more)
    BY <2>2, <2>4, <2>5, <2>7, <2>8
  <2> QED BY <2>1, <2>9 DEF more
<1>3. \A m \in Seq(K) : m \in T
  <2> HIDE DEF T, K
  <2> QED BY <1>1, <1>2, ListInduction
<1> QED BY <1>3

\* Parts that are at most as long as others, in any order, are together at most as long.
LEMMA ConcatShorter ==
  ASSUME NEW S, NEW n \in Nat, NEW parts \in Seq(Seq(S)), NEW other \in Seq(Seq(S)),
         Len(parts) = n, Len(other) = n,
         NEW p \in Bijection(1 .. n, 1 .. n),
         \A i \in 1 .. n : Len(other[i]) <= Len(parts[p[i]])
  PROVE  Len(Concat(other)) <= Len(Concat(parts))
<1> DEFINE P == Places(parts)
           O == Places(other)
           f == [x \in O |-> <<p[x[1]], x[2]>>]
<1>1. /\ p \in [1 .. n -> 1 .. n] /\ \A i, j \in 1 .. n : p[i] = p[j] => i = j
  BY DEF Bijection, Injection, IsInjective
<1>2. \A x \in O : x = <<x[1], x[2]>> /\ x[1] \in 1 .. n /\ x[2] \in 1 .. Len(other[x[1]])
  BY DEF Places
<1>3. \A i \in 1 .. n : Len(parts[i]) \in Nat /\ Len(other[i]) \in Nat
  <2>1. \A i \in 1 .. n : parts[i] \in Seq(S) /\ other[i] \in Seq(S)
    OBVIOUS
  <2>2. \A s \in Seq(S) : Len(s) \in Nat
    OBVIOUS
  <2> QED BY <2>1, <2>2
<1>4. \A i \in 1 .. n : \A k \in 1 .. Len(parts[i]) : <<i, k>> \in P
  <2> SUFFICES ASSUME NEW i \in 1 .. n, NEW k \in 1 .. Len(parts[i]) PROVE <<i, k>> \in P
    OBVIOUS
  <2>1. DOMAIN parts = 1 .. n
    OBVIOUS
  <2>2. <<i, k>> \in {i} \X (1 .. Len(parts[i]))
    OBVIOUS
  <2> QED BY <2>1, <2>2, Zenon DEF Places
<1> HIDE DEF O, P
<1>5. f \in [O -> P]
  <2> SUFFICES ASSUME NEW x \in O PROVE <<p[x[1]], x[2]>> \in P
    OBVIOUS
  <2>1. p[x[1]] \in 1 .. n /\ x[2] \in 1 .. Len(parts[p[x[1]]])
    BY <1>1, <1>2, <1>3
  <2> QED BY <1>4, <2>1
<1>6. \A x, y \in O : f[x] = f[y] => x = y
  BY <1>1, <1>2
<1> HIDE DEF f
<1>7. f \in Injection(O, P)
  BY <1>5, <1>6 DEF Injection, IsInjective
<1>8. IsFiniteSet(P) /\ Len(Concat(parts)) = Cardinality(P) /\ Len(Concat(other)) = Cardinality(O)
  BY ConcatLength DEF P, O
<1>9. Cardinality(O) <= Cardinality(P)
  BY <1>7, <1>8, FS_Injection
<1> QED BY <1>8, <1>9

-----------------------------------------------------------------------------
\* Fields that are strings.

Str(v) == [kind |-> "string", val |-> v]

\* A string that fits is a field.
LEMMA StrIs ==
  ASSUME NEW v, Fits(v)
  PROVE  /\ Str(v) \in Field /\ Str(v).kind = "string" /\ Str(v).val = v
         /\ Put("string", v) = PutBytes32(v) /\ PutBytes32(v) \in Seq(Unit)
         /\ v \in Seq(Unit)
<1>1. v \in Seq(Unit) /\ Len(v) < Base
  BY DEF Fits
<1>2. FieldOK("string", v) /\ "string" \in Kinds
  BY <1>1 DEF FieldOK, Kinds
<1>3. Put("string", v) = PutBytes32(v) /\ PutBytes32(v) \in Seq(Unit)
  BY <1>2, PutIsSeq DEF Put
<1> QED BY <1>1, <1>2, <1>3 DEF Str, Field

\* A field of kind string, and a list of them, are written as strings.
LEMMA StringFields ==
  ASSUME NEW fields \in Seq(Field), \A i \in 1 .. Len(fields) : fields[i].kind = "string"
  PROVE  PackStringList(ValsOf(fields)) = Bytes(fields)
<1>1. DOMAIN fields = 1 .. Len(fields) /\ DOMAIN ValsOf(fields) = 1 .. Len(fields)
  BY DEF ValsOf
<1>2. \A i \in 1 .. Len(fields) : ValsOf(fields)[i] = fields[i].val
  BY <1>1 DEF ValsOf
<1>3. [i \in DOMAIN ValsOf(fields) |-> PutBytes32(ValsOf(fields)[i])] = Puts(fields)
  BY <1>1, <1>2 DEF Puts, Put
<1> QED BY <1>3 DEF PackStringList, Bytes

\* A list of one field.
LEMMA BytesOne ==
  ASSUME NEW x \in Field
  PROVE  /\ <<x>> \in Seq(Field) /\ Bytes(<<x>>) = Put(x.kind, x.val)
         /\ KindsOf(<<x>>) = <<x.kind>> /\ ValsOf(<<x>>) = <<x.val>>
<1>1. Puts(<<x>>) = <<Put(x.kind, x.val)>>
  BY DEF Puts
<1>2. Put(x.kind, x.val) \in Seq(Unit)
  BY FieldIs
<1>3. KindsOf(<<x>>) = <<x.kind>> /\ ValsOf(<<x>>) = <<x.val>>
  BY DEF KindsOf, ValsOf
<1> QED BY <1>1, <1>2, <1>3, ConcatOne DEF Bytes

U64(n) == [kind |-> "uint64", val |-> PutUint64(n)]
U32(n) == [kind |-> "uint32", val |-> PutUint32(n)]

\* Numbers as fields.
LEMMA NumberFields ==
  /\ \A n \in 0 .. MaxUint64 : /\ U64(n) \in Field /\ U64(n).kind = "uint64"
                               /\ U64(n).val = PutUint64(n)
                               /\ Put("uint64", PutUint64(n)) = PutUint64(n)
  /\ \A n \in Unit : /\ U32(n) \in Field /\ U32(n).kind = "uint32"
                     /\ U32(n).val = PutUint32(n)
                     /\ Put("uint32", PutUint32(n)) = PutUint32(n)
<1>1. ASSUME NEW n \in 0 .. MaxUint64
      PROVE  /\ U64(n) \in Field /\ U64(n).kind = "uint64" /\ U64(n).val = PutUint64(n)
             /\ Put("uint64", PutUint64(n)) = PutUint64(n)
  <2> DEFINE v == PutUint64(n)
  <2>1. v \in Seq(Unit) /\ Len(v) = 2
    BY NumberUnits
  <2> HIDE DEF v
  <2>2. [kind |-> "uint64", val |-> v] \in Field
    BY <2>1 DEF Field, FieldOK, Kinds
  <2> QED BY <2>2 DEF U64, Put, v
<1>2. ASSUME NEW n \in Unit
      PROVE  /\ U32(n) \in Field /\ U32(n).kind = "uint32" /\ U32(n).val = PutUint32(n)
             /\ Put("uint32", PutUint32(n)) = PutUint32(n)
  <2> DEFINE v == PutUint32(n)
  <2>1. v \in Seq(Unit) /\ Len(v) = 1
    BY SmallNumber
  <2> HIDE DEF v
  <2>2. [kind |-> "uint32", val |-> v] \in Field
    BY <2>1 DEF Field, FieldOK, Kinds
  <2> QED BY <2>2 DEF U32, Put, v
<1> QED BY <1>1, <1>2

-----------------------------------------------------------------------------
\* Lists of strings.

OneString == <<"string">>
TwoStrings == <<"string", "string">>

\* Groups of one string and of two strings have kinds of fields.
LEMMA StringKinds ==
  /\ OneString \in Seq(Kinds) /\ OneString # <<>>
  /\ TwoStrings \in Seq(Kinds) /\ TwoStrings # <<>>
BY DEF OneString, TwoStrings, Kinds

\* A group of one string, and a group of two.
LEMMA GroupOne ==
  ASSUME NEW g \in GroupsOf(OneString)
  PROVE  /\ g \in Seq(Field) /\ Fits(g[1].val)
         /\ Bytes(g) = PutBytes32(g[1].val) /\ ValsOf(g) = <<g[1].val>>
<1>1. g \in Seq(Field) /\ KindsOf(g) = OneString
  BY DEF GroupsOf
<1>2. Len(g) = 1 /\ g[1].kind = "string"
  <2>1. Len(KindsOf(g)) = Len(g) /\ KindsOf(g)[1] = "string" /\ Len(KindsOf(g)) = 1
    BY <1>1, FieldsAre DEF OneString
  <2>2. DOMAIN g = 1 .. Len(g)
    BY <1>1
  <2>3. Len(g) = 1 /\ 1 \in DOMAIN g
    BY <2>1, <2>2
  <2> QED BY <2>1, <2>3 DEF KindsOf
<1>3. g = <<g[1]>> /\ g[1] \in Field
  BY <1>1, <1>2
<1>4. Fits(g[1].val)
  BY <1>2, <1>3, FieldIs DEF FieldOK, Fits
<1> DEFINE x == g[1]
<1>5. g = <<x>> /\ x \in Field /\ x.kind = "string"
  BY <1>2, <1>3
<1> HIDE DEF x
<1>6. Bytes(<<x>>) = Put(x.kind, x.val) /\ ValsOf(<<x>>) = <<x.val>>
  BY <1>5, BytesOne
<1>7. Bytes(g) = PutBytes32(x.val) /\ ValsOf(g) = <<x.val>>
  BY <1>5, <1>6 DEF Put
<1> QED BY <1>1, <1>4, <1>7 DEF x

\* A group of one string, as it is written.
LEMMA OneGroup ==
  ASSUME NEW v, Fits(v)
  PROVE  /\ <<Str(v)>> \in GroupsOf(OneString)
         /\ Bytes(<<Str(v)>>) = PutBytes32(v) /\ ValsOf(<<Str(v)>>) = <<v>>
<1>1. Str(v) \in Field /\ Str(v).kind = "string" /\ Str(v).val = v
      /\ Put("string", v) = PutBytes32(v)
  BY StrIs
<1>2. /\ <<Str(v)>> \in Seq(Field) /\ KindsOf(<<Str(v)>>) = OneString
      /\ Bytes(<<Str(v)>>) = PutBytes32(v) /\ ValsOf(<<Str(v)>>) = <<v>>
  BY <1>1, BytesOne DEF OneString
<1> QED BY <1>2 DEF GroupsOf

\* A list of two fields.
LEMMA BytesTwo ==
  ASSUME NEW x \in Field, NEW y \in Field
  PROVE  /\ <<x, y>> \in Seq(Field) /\ KindsOf(<<x, y>>) = <<x.kind, y.kind>>
         /\ Bytes(<<x, y>>) = Put(x.kind, x.val) \o Put(y.kind, y.val)
         /\ ValsOf(<<x, y>>) = <<x.val, y.val>>
<1>1. <<x>> \in Seq(Field) /\ Append(<<x>>, y) = <<x, y>>
  <2> DEFINE p == Append(<<x>>, y)
             q == <<x, y>>
  <2>1. /\ p \in Seq(Field) /\ Len(p) = 2 /\ p[1] = x /\ p[2] = y
        /\ q \in Seq(Field) /\ Len(q) = 2 /\ q[1] = x /\ q[2] = y
    OBVIOUS
  <2> HIDE DEF p, q
  <2>2. \A i \in 1 .. 2 : p[i] = q[i]
    <3>1. \A i \in 1 .. 2 : i = 1 \/ i = 2
      OBVIOUS
    <3> QED BY <2>1, <3>1
  <2>3. p = q
    BY <2>1, <2>2, SeqEqual
  <2> QED BY <2>3, BytesOne DEF p, q
<1>2. Bytes(Append(<<x>>, y)) = Bytes(<<x>>) \o Put(y.kind, y.val)
  BY <1>1, FieldsNext
<1>3. KindsOf(<<x, y>>) = <<x.kind, y.kind>> /\ ValsOf(<<x, y>>) = <<x.val, y.val>>
  BY DEF KindsOf, ValsOf
<1>4. Bytes(<<x>>) = Put(x.kind, x.val)
  BY BytesOne
<1>5. <<x, y>> \in Seq(Field)
  OBVIOUS
<1>6. Bytes(<<x, y>>) = Put(x.kind, x.val) \o Put(y.kind, y.val)
  BY <1>1, <1>2, <1>4, Zenon
<1> QED BY <1>3, <1>5, <1>6

\* A group of two strings, as it is written.
LEMMA TwoGroup ==
  ASSUME NEW v, NEW w, Fits(v), Fits(w)
  PROVE  /\ <<Str(v), Str(w)>> \in GroupsOf(TwoStrings)
         /\ Bytes(<<Str(v), Str(w)>>) = PutBytes32(v) \o PutBytes32(w)
         /\ ValsOf(<<Str(v), Str(w)>>) = <<v, w>>
<1>1. Str(v) \in Field /\ Str(v).kind = "string" /\ Str(v).val = v
      /\ Put("string", v) = PutBytes32(v)
  BY StrIs
<1>2. Str(w) \in Field /\ Str(w).kind = "string" /\ Str(w).val = w
      /\ Put("string", w) = PutBytes32(w)
  BY StrIs
<1> DEFINE x == Str(v)
           y == Str(w)
<1> HIDE DEF x, y
<1>3. /\ <<x, y>> \in Seq(Field) /\ KindsOf(<<x, y>>) = <<x.kind, y.kind>>
      /\ Bytes(<<x, y>>) = Put(x.kind, x.val) \o Put(y.kind, y.val)
      /\ ValsOf(<<x, y>>) = <<x.val, y.val>>
  BY <1>1, <1>2, BytesTwo DEF x, y
<1>4. /\ KindsOf(<<x, y>>) = TwoStrings
      /\ Bytes(<<x, y>>) = PutBytes32(v) \o PutBytes32(w)
      /\ ValsOf(<<x, y>>) = <<v, w>>
  BY <1>1, <1>2, <1>3 DEF x, y, TwoStrings
<1> QED BY <1>3, <1>4 DEF GroupsOf, x, y

\* A group of two strings, as it is read.
LEMMA GroupTwo ==
  ASSUME NEW g \in GroupsOf(TwoStrings)
  PROVE  /\ g \in Seq(Field) /\ Fits(g[1].val) /\ Fits(g[2].val)
         /\ Bytes(g) = PutBytes32(g[1].val) \o PutBytes32(g[2].val)
         /\ ValsOf(g) = <<g[1].val, g[2].val>>
<1>1. g \in Seq(Field) /\ KindsOf(g) = TwoStrings
  BY DEF GroupsOf
<1>2. Len(g) = 2 /\ g[1].kind = "string" /\ g[2].kind = "string"
  <2>1. /\ Len(KindsOf(g)) = Len(g) /\ Len(KindsOf(g)) = 2
        /\ KindsOf(g)[1] = "string" /\ KindsOf(g)[2] = "string"
    BY <1>1, FieldsAre DEF TwoStrings
  <2>2. DOMAIN g = 1 .. Len(g)
    BY <1>1
  <2>3. Len(g) = 2 /\ 1 \in DOMAIN g /\ 2 \in DOMAIN g
    BY <2>1, <2>2
  <2> QED BY <2>1, <2>3 DEF KindsOf
<1>3. g = <<g[1], g[2]>> /\ g[1] \in Field /\ g[2] \in Field
  BY <1>1, <1>2
<1>4. Fits(g[1].val) /\ Fits(g[2].val)
  BY <1>2, <1>3, FieldIs DEF FieldOK, Fits
<1> DEFINE x == g[1]
           y == g[2]
<1>5. g = <<x, y>> /\ x \in Field /\ x.kind = "string" /\ y \in Field /\ y.kind = "string"
  BY <1>2, <1>3
<1> HIDE DEF x, y
<1>6. /\ Bytes(<<x, y>>) = Put(x.kind, x.val) \o Put(y.kind, y.val)
      /\ ValsOf(<<x, y>>) = <<x.val, y.val>>
  BY <1>5, BytesTwo
<1>7. Bytes(g) = PutBytes32(x.val) \o PutBytes32(y.val) /\ ValsOf(g) = <<x.val, y.val>>
  BY <1>5, <1>6 DEF Put
<1> QED BY <1>1, <1>4, <1>7 DEF x, y

\* A list of strings is read back.
LEMMA StringListRead ==
  ASSUME NEW items \in Seq(Seq(Unit)), \A i \in DOMAIN items : Fits(items[i])
  PROVE  /\ GetStringList(PackStringList(items)) = Got(items, <<>>)
         /\ PackStringList(items) \in Seq(Unit)
<1> DEFINE n == Len(items)
           groups == [i \in 1 .. n |-> <<Str(items[i])>>]
           b == PackStringList(items)
<1>1. n \in Nat /\ DOMAIN items = 1 .. n
  OBVIOUS
<1>2. \A i \in 1 .. n : /\ groups[i] \in GroupsOf(OneString)
                        /\ Bytes(groups[i]) = PutBytes32(items[i])
                        /\ ValsOf(groups[i]) = <<items[i]>>
  BY <1>1, OneGroup
<1>3. groups \in Seq(GroupsOf(OneString)) /\ Len(groups) = n /\ DOMAIN groups = 1 .. n
  <2> DEFINE K == GroupsOf(OneString)
  <2>1. groups \in [1 .. n -> K]
    BY <1>2
  <2> HIDE DEF groups, K, n
  <2>2. groups \in Seq(K) /\ Len(groups) = n /\ DOMAIN groups = 1 .. n
    BY <1>1, <2>1
  <2> QED BY <2>2 DEF K
<1> HIDE DEF groups
<1>4. b = AllBytes(groups)
  BY <1>1, <1>2, <1>3 DEF AllBytes, PackStringList
<1>5. b \in Seq(Unit) /\ ReadAll(b, OneString) = Got(AllVals(groups), <<>>)
  <2>1. b \in Seq(Unit)
    BY <1>3, <1>4, StringKinds, GroupsAre
  <2>2. ReadAll(AllBytes(groups), OneString) = Got(AllVals(groups), <<>>)
    BY <1>3, StringKinds, GroupsWrittenAreRead
  <2> QED BY <1>4, <2>1, <2>2
<1>6. Firsts(AllVals(groups)) = items
  <2>1. DOMAIN AllVals(groups) = 1 .. n /\ \A i \in 1 .. n : AllVals(groups)[i] = <<items[i]>>
    BY <1>2, <1>3 DEF AllVals
  <2>2. \A i \in 1 .. n : AllVals(groups)[i][1] = items[i]
    BY <2>1
  <2>3. Firsts(AllVals(groups)) = [i \in 1 .. n |-> items[i]]
    BY <2>1, <2>2 DEF Firsts
  <2> QED BY <1>1, <2>3
<1> DEFINE all == ReadAll(b, OneString)
<1>7. all.ok = TRUE /\ all.val = AllVals(groups)
  BY <1>5, GotFields
<1>8. GetStringList(b) = IF all.ok THEN Got(Firsts(all.val), <<>>) ELSE Short
  BY DEF GetStringList, OneString
<1> QED BY <1>5, <1>6, <1>7, <1>8

\* A list of strings that was read is written as the bytes it was read from.
LEMMA StringListWritten ==
  ASSUME NEW b \in Seq(Unit), GetStringList(b).ok
  PROVE  LET items == GetStringList(b).val
         IN  /\ items \in Seq(Seq(Unit)) /\ \A i \in DOMAIN items : Fits(items[i])
             /\ PackStringList(items) = b
<1> DEFINE all == ReadAll(b, OneString)
<1>1. GetStringList(b) = IF all.ok THEN Got(Firsts(all.val), <<>>) ELSE Short
  BY DEF GetStringList, OneString
<1>2. all.ok
  BY <1>1 DEF Short
<1>3. PICK groups \in Seq(GroupsOf(OneString)) :
        all = Got(AllVals(groups), <<>>) /\ b = AllBytes(groups)
  BY <1>2, StringKinds, GroupsReadAreWritten
<1> DEFINE n == Len(groups)
           items == [i \in 1 .. n |-> groups[i][1].val]
<1>4. /\ n \in Nat /\ DOMAIN groups = 1 .. n
      /\ \A i \in 1 .. n : groups[i] \in GroupsOf(OneString)
  OBVIOUS
<1>5. \A i \in 1 .. n : /\ Fits(items[i]) /\ Bytes(groups[i]) = PutBytes32(items[i])
                        /\ ValsOf(groups[i]) = <<items[i]>>
  BY <1>4, GroupOne
<1>6. GetStringList(b).val = Firsts(AllVals(groups))
  <2>1. all.val = AllVals(groups)
    BY <1>3, GotFields
  <2> HIDE DEF all
  <2>2. GetStringList(b) = Got(Firsts(AllVals(groups)), <<>>)
    BY <1>1, <1>2, <2>1
  <2> QED BY <2>2, GotFields
<1>7. Firsts(AllVals(groups)) = items
  <2>1. DOMAIN AllVals(groups) = 1 .. n /\ \A i \in 1 .. n : AllVals(groups)[i] = <<items[i]>>
    BY <1>4, <1>5 DEF AllVals
  <2>2. \A i \in 1 .. n : AllVals(groups)[i][1] = items[i]
    BY <2>1
  <2> QED BY <2>1, <2>2 DEF Firsts
<1>8. items \in Seq(Seq(Unit)) /\ DOMAIN items = 1 .. n
  BY <1>4, <1>5 DEF Fits
<1> HIDE DEF items, all
<1>9. PackStringList(items) = AllBytes(groups)
  BY <1>4, <1>5, <1>8 DEF PackStringList, AllBytes
<1> QED BY <1>3, <1>5, <1>6, <1>7, <1>8, <1>9
==============================================================================
