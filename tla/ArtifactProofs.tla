--------------------------- MODULE ArtifactProofs ---------------------------
(***************************************************************************)
(* Certificates and revocation lists as bytes: whatever is written is read *)
(* back as it was meant, certificates are whole or refused, what verifies  *)
(* means what was signed, and a revocation list that was cut lists         *)
(* nothing.                                                                *)
(***************************************************************************)
EXTENDS Artifact, WireProofs

-----------------------------------------------------------------------------
\* Algorithm names.

\* A suffix is the last places of a string.
LEMMA SuffixIs ==
  ASSUME NEW s \in Seq(Unit), NEW t \in Seq(Unit)
  PROVE  IsSuffix(s, t) <=> /\ Len(s) <= Len(t)
                            /\ \A i \in 1 .. Len(s) : s[i] = t[Len(t) - Len(s) + i]
<1> DEFINE n == Len(s)
           m == Len(t)
           rs == Reverse(s)
           rt == Reverse(t)
<1>1. n \in Nat /\ m \in Nat
  OBVIOUS
<1>2. rs \in Seq(Unit) /\ Len(rs) = n /\ \A i \in 1 .. n : rs[i] = s[(n - i) + 1]
  BY DEF Reverse
<1>3. rt \in Seq(Unit) /\ Len(rt) = m /\ \A i \in 1 .. m : rt[i] = t[(m - i) + 1]
  BY DEF Reverse
<1> DEFINE a == SubSeq(rs, 1, n)
           b == SubSeq(rt, 1, n)
<1>4. ASSUME n <= m PROVE a = b <=> \A i \in 1 .. n : rs[i] = rt[i]
  <2> HIDE DEF rs, rt, n, m
  <2>1. /\ a \in Seq(Unit) /\ b \in Seq(Unit) /\ Len(a) = n /\ Len(b) = n
        /\ \A i \in 1 .. n : a[i] = rs[i] /\ b[i] = rt[i]
    BY <1>1, <1>2, <1>3, <1>4
  <2> HIDE DEF a, b
  <2>2. (\A i \in 1 .. n : a[i] = b[i]) => a = b
    BY <2>1, SeqEqual
  <2> QED BY <2>1, <2>2
<1>5. ASSUME n <= m
      PROVE (\A i \in 1 .. n : rs[i] = rt[i]) <=> (\A i \in 1 .. n : s[i] = t[m - n + i])
  <2> HIDE DEF rs, rt, n, m
  <2>1. ASSUME \A i \in 1 .. n : rs[i] = rt[i], NEW i \in 1 .. n PROVE s[i] = t[m - n + i]
    <3> DEFINE j == (n - i) + 1
    <3>1. j \in 1 .. n /\ j \in 1 .. m /\ (n - j) + 1 = i /\ (m - j) + 1 = m - n + i
      BY <1>1, <1>5
    <3> HIDE DEF j
    <3>2. rs[j] = s[(n - j) + 1] /\ rt[j] = t[(m - j) + 1] /\ rs[j] = rt[j]
      BY <1>2, <1>3, <2>1, <3>1
    <3> QED BY <3>1, <3>2
  <2>2. ASSUME \A i \in 1 .. n : s[i] = t[m - n + i], NEW i \in 1 .. n PROVE rs[i] = rt[i]
    <3> DEFINE j == (n - i) + 1
    <3>1. j \in 1 .. n /\ i \in 1 .. m /\ m - n + j = (m - i) + 1
      BY <1>1, <1>5
    <3>2. s[j] = t[m - n + j]
      BY <2>2, <3>1
    <3> QED BY <1>2, <1>3, <3>1, <3>2
  <2> QED BY <2>1, <2>2
<1> HIDE DEF a, b
<1>6. IsSuffix(s, t) <=> n <= m /\ a = b
  BY <1>2, <1>3 DEF IsSuffix, IsPrefix, a, b
<1> HIDE DEF rs, rt
<1> QED BY <1>4, <1>5, <1>6

\* A suffix that was added can be cut off.
LEMMA SuffixAdded ==
  ASSUME NEW s \in Seq(Unit), NEW x \in Seq(Unit)
  PROVE  /\ IsSuffix(s, x \o s) /\ CutSuffix(x \o s, Len(s)) = x
<1> DEFINE t == x \o s
<1>1. t \in Seq(Unit) /\ Len(t) = Len(x) + Len(s) /\ Len(x) \in Nat /\ Len(s) \in Nat
  OBVIOUS
<1>2. \A i \in 1 .. Len(s) : s[i] = t[Len(t) - Len(s) + i]
  BY <1>1
<1>3. IsSuffix(s, t)
  <2>1. Len(s) <= Len(t)
    BY <1>1
  <2> HIDE DEF t
  <2> QED BY <1>1, <1>2, <2>1, SuffixIs
<1>4. SubSeq(t, 1, Len(x)) = x /\ Len(t) - Len(s) = Len(x)
  BY <1>1
<1> QED BY <1>3, <1>4 DEF CutSuffix

\* A name that ends in a unit is the rest and that unit.
LEMMA SuffixCut ==
  ASSUME NEW t \in Seq(Unit), NEW u \in Unit, IsSuffix(<<u>>, t)
  PROVE  CutSuffix(t, 1) \in Seq(Unit) /\ t = CutSuffix(t, 1) \o <<u>>
<1>1. <<u>> \in Seq(Unit) /\ Len(<<u>>) = 1 /\ Len(t) \in Nat
  OBVIOUS
<1>2. Len(t) >= 1 /\ t[Len(t)] = u
  <2> DEFINE w == <<u>>
  <2>0. w \in Seq(Unit) /\ Len(w) = 1 /\ w[1] = u /\ IsSuffix(w, t)
    BY <1>1
  <2> HIDE DEF w
  <2>1a. Len(w) <= Len(t) /\ \A i \in 1 .. Len(w) : w[i] = t[Len(t) - Len(w) + i]
    BY <2>0, SuffixIs
  <2>1. 1 <= Len(t) /\ u = t[Len(t) - 1 + 1]
    BY <2>0, <2>1a
  <2> QED BY <1>1, <2>1
<1> DEFINE x == SubSeq(t, 1, Len(t) - 1)
           y == x \o <<u>>
<1>3. x \in Seq(Unit) /\ Len(x) = Len(t) - 1
  BY <1>1, <1>2
<1>4. y \in Seq(Unit) /\ Len(y) = Len(t) /\ \A i \in 1 .. Len(t) : y[i] = t[i]
  BY <1>1, <1>2, <1>3
<1> HIDE DEF y
<1>5. y = t
  BY <1>4, SeqEqual
<1> QED BY <1>3, <1>5 DEF y, CutSuffix

\* The suffix of certificate names, of two units.
LEMMA CertSuffixIs ==
  CertSuffix \in Seq(Unit) /\ Len(CertSuffix) = 2 /\ CertSuffix = <<CertV01>> \o <<AtOpenSSH>>
  /\ AtOpenSSH \in Unit
<1>1. CertV01 \in Unit /\ AtOpenSSH \in Unit
  BY FormatAssumption
<1> QED BY <1>1 DEF CertSuffix

\* The name of a certificate leads back to the algorithm of its key.
LEMMA AlgoFound ==
  ASSUME NEW algo \in DOMAIN FieldCount
  PROVE  /\ CertAlgo(algo) \in Seq(Unit) /\ Len(CertAlgo(algo)) < Base
         /\ BaseAlgo(CertAlgo(algo)) = Parsed(algo)
<1>1. /\ algo \in Seq(Unit) /\ algo \o <<AtOpenSSH>> \notin DOMAIN FieldCount
      /\ Len(algo) + 2 < Base /\ Len(algo) \in Nat
  BY FormatAssumption
<1>2. ASSUME NEW x \in Seq(Unit), CertAlgo(algo) = x \o CertSuffix
      PROVE  /\ CertAlgo(algo) \in Seq(Unit) /\ Len(CertAlgo(algo)) = Len(x) + 2
             /\ IsSuffix(CertSuffix, CertAlgo(algo)) /\ CutSuffix(CertAlgo(algo), 2) = x
  <2> DEFINE s == CertSuffix
  <2>1. s \in Seq(Unit) /\ Len(s) = 2 /\ CertAlgo(algo) = x \o s
    BY <1>2, CertSuffixIs
  <2> HIDE DEF s
  <2>2. IsSuffix(s, x \o s) /\ CutSuffix(x \o s, Len(s)) = x
    BY <2>1, SuffixAdded
  <2>3. x \o s \in Seq(Unit) /\ Len(x \o s) = Len(x) + 2
    <3>1. s \in Seq(Unit) /\ Len(s) = 2
      BY <2>1
    <3>2. x \o s \in Seq(Unit) /\ Len(x \o s) = Len(x) + Len(s)
      BY <3>1, ConcatProperties
    <3> QED BY <3>1, <3>2
  <2>4. IsSuffix(s, CertAlgo(algo)) /\ CutSuffix(CertAlgo(algo), 2) = x
    BY <2>1, <2>2, Zenon
  <2> QED BY <2>1, <2>3, <2>4 DEF s
<1>3. CASE IsSuffix(<<AtOpenSSH>>, algo)
  <2> DEFINE x == CutSuffix(algo, 1)
  <2>1. x \in Seq(Unit) /\ algo = x \o <<AtOpenSSH>>
    BY <1>1, <1>3, CertSuffixIs, SuffixCut
  <2>2. CertAlgo(algo) = x \o CertSuffix
    BY <1>3 DEF CertAlgo
  <2> HIDE DEF x
  <2>3. x \notin DOMAIN FieldCount
    BY <2>1, FormatAssumption
  <2>4. Len(x) + 1 = Len(algo) /\ Len(x) \in Nat
    BY <2>1, CertSuffixIs
  <2>5. Len(x) + 2 < Base
    BY <1>1, <2>4, UnitFacts
  <2>6. /\ CertAlgo(algo) \in Seq(Unit) /\ Len(CertAlgo(algo)) = Len(x) + 2
        /\ IsSuffix(CertSuffix, CertAlgo(algo)) /\ CutSuffix(CertAlgo(algo), 2) = x
    BY <1>2, <2>1, <2>2
  <2>7. BaseAlgo(CertAlgo(algo)) = Parsed(algo)
    BY <2>1, <2>3, <2>6 DEF BaseAlgo
  <2> QED BY <2>5, <2>6, <2>7
<1>4. CASE ~ IsSuffix(<<AtOpenSSH>>, algo)
  <2>1. CertAlgo(algo) = algo \o CertSuffix
    BY <1>4 DEF CertAlgo
  <2>2. /\ CertAlgo(algo) \in Seq(Unit) /\ Len(CertAlgo(algo)) = Len(algo) + 2
        /\ IsSuffix(CertSuffix, CertAlgo(algo)) /\ CutSuffix(CertAlgo(algo), 2) = algo
    BY <1>1, <1>2, <2>1
  <2>3. BaseAlgo(CertAlgo(algo)) = Parsed(algo)
    BY <2>2 DEF BaseAlgo
  <2> QED BY <1>1, <2>2, <2>3
<1> QED BY <1>3, <1>4

-----------------------------------------------------------------------------
\* Options.

Names(opts) == [i \in DOMAIN opts |-> opts[i].name]

\* An option as it is written, and its data as it is read.
LEMMA OptionIs ==
  ASSUME NEW o \in Option
  PROVE  /\ o.name \in Seq(Unit) /\ o.data \in Seq(Unit)
         /\ o = [name |-> o.name, data |-> o.data]
         /\ Fits(o.name) /\ Fits(OptionData(o))
         /\ OptionDataOK(OptionData(o))
         /\ (IF OptionData(o) = <<>> THEN <<>> ELSE GetBytes32(OptionData(o)).val) = o.data
<1>1. /\ o \in [name : Seq(Unit), data : Seq(Unit)] /\ Fits(o.name) /\ Fits(OptionData(o))
  BY DEF Option
<1>2. CASE o.data = <<>>
  <2>1. OptionData(o) = <<>>
    BY <1>2 DEF OptionData
  <2> QED BY <1>1, <1>2, <2>1 DEF OptionDataOK
<1>3. CASE o.data # <<>>
  <2> DEFINE d == o.data
             p == PutBytes32(d)
  <2>1. OptionData(o) = p
    BY <1>3 DEF OptionData
  <2>2. d \in Seq(Unit) /\ p = <<Len(d) % Base>> \o d /\ Len(d) % Base \in Unit
    <3>1. d \in Seq(Unit) /\ Len(d) \in Nat
      BY <1>1
    <3>2. Len(d) % Base \in Unit
      <4>1. \A k \in Nat : k % Base \in 0 .. Base - 1
        BY BaseAssumption
      <4> QED BY <3>1, <4>1 DEF Unit
    <3> QED BY <3>1, <3>2 DEF PutBytes32, PutUint32
  <2>3. p \in Seq(Unit) /\ Len(p) = Len(d) + 1 /\ Len(p) < Base /\ Len(d) \in Nat
    BY <1>1, <2>1, <2>2 DEF Fits
  <2> HIDE DEF p, d
  <2>4. Fits(d) /\ p # <<>>
    BY <2>2, <2>3, UnitFacts DEF Fits
  <2>5. GetBytes32(p) = Got(d, <<>>)
    <3>1. GetBytes32(PutBytes32(d) \o <<>>) = Got(d, <<>>)
      <4>1. d \in Seq(Unit) /\ Len(d) < Base /\ <<>> \in Seq(Unit)
        BY <2>4 DEF Fits
      <4> QED BY <4>1, WrittenIsRead
    <3>2. p \o <<>> = p /\ p = PutBytes32(d)
      BY <2>3 DEF p
    <3> QED BY <3>1, <3>2
  <2>6. GetBytes32(p).ok = TRUE /\ GetBytes32(p).val = d /\ GetBytes32(p).rest = <<>>
    BY <2>5, GotFields
  <2>7. OptionDataOK(p)
    BY <2>6 DEF OptionDataOK
  <2>8. (IF p = <<>> THEN <<>> ELSE GetBytes32(p).val) = d
    BY <2>4, <2>6
  <2> QED BY <1>1, <2>1, <2>7, <2>8 DEF d
<1> QED BY <1>1, <1>2, <1>3

\* Sorting options rearranges them.
LEMMA OptionsSorted ==
  ASSUME NEW opts \in Seq(Option)
  PROVE  LET n     == Len(opts)
             order == Sorting(Names(opts))
             s     == SortedByName(opts)
         IN  /\ n \in Nat /\ DOMAIN opts = 1 .. n
             /\ order \in Bijection(1 .. n, 1 .. n)
             /\ s \in Seq(Option) /\ Len(s) = n /\ DOMAIN s = 1 .. n
             /\ \A i \in 1 .. n : order[i] \in 1 .. n /\ s[i] = opts[order[i]]
             /\ Ordered(InOrder, n, Names(s)) /\ Names(s) \in [1 .. n -> Seq(Unit)]
<1> DEFINE n == Len(opts)
           keys == Names(opts)
           order == Sorting(keys)
           s == SortedByName(opts)
<1>1. n \in Nat /\ DOMAIN opts = 1 .. n /\ \A i \in 1 .. n : opts[i] \in Option
  OBVIOUS
<1>2. keys \in [1 .. n -> Seq(Unit)] /\ \A i \in 1 .. n : keys[i] = opts[i].name
  BY <1>1, OptionIs DEF Names
<1>3. s = [i \in 1 .. n |-> opts[order[i]]]
  BY <1>1 DEF SortedByName, Names
<1> HIDE DEF s, order, keys
<1>4. /\ order \in Bijection(1 .. n, 1 .. n)
      /\ \A i, j \in 1 .. n : i < j => <<keys[order[i]], keys[order[j]]>> \in InOrder
  BY <1>1, <1>2, SortingSorts DEF order
<1>5. \A i \in 1 .. n : order[i] \in 1 .. n
  BY <1>4 DEF Bijection, Injection
<1>6. /\ s \in Seq(Option) /\ Len(s) = n /\ DOMAIN s = 1 .. n
      /\ \A i \in 1 .. n : s[i] = opts[order[i]]
  <2> DEFINE m == n
             K == Option
  <2>1. m \in Nat /\ s \in [1 .. m -> K]
    BY <1>1, <1>3, <1>5
  <2> HIDE DEF m, K
  <2>2. s \in Seq(K) /\ Len(s) = m /\ DOMAIN s = 1 .. m
    BY <2>1
  <2> QED BY <1>3, <2>2 DEF m, K
<1>7. Names(s) \in [1 .. n -> Seq(Unit)] /\ \A i \in 1 .. n : Names(s)[i] = keys[order[i]]
  <2>1. \A i \in 1 .. n : s[i] = opts[order[i]] /\ opts[order[i]] \in Option
    BY <1>1, <1>5, <1>6
  <2>2. \A i \in 1 .. n : s[i].name \in Seq(Unit) /\ s[i].name = keys[order[i]]
    BY <1>2, <1>5, <2>1, OptionIs
  <2> QED BY <1>6, <2>2 DEF Names
<1>8. Ordered(InOrder, n, Names(s))
  BY <1>4, <1>7 DEF Ordered
<1> QED BY <1>1, <1>4, <1>5, <1>6, <1>7, <1>8 DEF s, order, keys

\* Options that were sorted are sorted.
LEMMA OptionsStaySorted ==
  ASSUME NEW opts \in Seq(Option), NamesDecide(opts)
  PROVE  SortedByName(SortedByName(opts)) = SortedByName(opts)
<1> DEFINE n == Len(opts)
           order == Sorting(Names(opts))
           s == SortedByName(opts)
           again == Sorting(Names(s))
           t == SortedByName(s)
<1>1. /\ n \in Nat /\ s \in Seq(Option) /\ Len(s) = n /\ DOMAIN s = 1 .. n /\ DOMAIN opts = 1 .. n
      /\ \A i \in 1 .. n : order[i] \in 1 .. n /\ s[i] = opts[order[i]]
      /\ Ordered(InOrder, n, Names(s)) /\ Names(s) \in [1 .. n -> Seq(Unit)]
  BY OptionsSorted
<1> HIDE DEF n, s, order
<1>2. /\ t \in Seq(Option) /\ Len(t) = n
      /\ \A i \in 1 .. n : again[i] \in 1 .. n /\ t[i] = s[again[i]]
  BY <1>1, OptionsSorted
<1>3. \A i \in 1 .. n : Names(s)[again[i]] = Names(s)[i]
  <2> DEFINE keys == Names(s)
  <2>1. keys \in [1 .. n -> Seq(Unit)] /\ Ordered(InOrder, n, keys) /\ n \in Nat
    BY <1>1
  <2> HIDE DEF keys
  <2>2. \A i \in 1 .. n : Sorting(keys)[i] \in 1 .. n /\ keys[Sorting(keys)[i]] = keys[i]
    BY <2>1, SortingStays
  <2> QED BY <2>2 DEF keys
<1>4. \A i \in 1 .. n : s[again[i]] = s[i]
  <2> SUFFICES ASSUME NEW i \in 1 .. n PROVE s[again[i]] = s[i]
    OBVIOUS
  <2> DEFINE j == again[i]
  <2>1. j \in 1 .. n /\ Names(s)[j] = Names(s)[i]
    BY <1>2, <1>3
  <2> HIDE DEF j, again
  <2>2. s[j].name = s[i].name
    BY <1>1, <2>1 DEF Names
  <2>3. s[j] = opts[order[j]] /\ s[i] = opts[order[i]] /\ order[i] \in 1 .. n /\ order[j] \in 1 .. n
    BY <1>1, <2>1
  <2>4. opts[order[j]] = opts[order[i]]
    BY <1>1, <2>2, <2>3 DEF NamesDecide
  <2> QED BY <2>3, <2>4 DEF j
<1> HIDE DEF t
<1>5. \A i \in 1 .. Len(t) : t[i] = s[i]
  BY <1>2, <1>4
<1>6. t = s
  BY <1>1, <1>2, <1>5, SeqEqual
<1> QED BY <1>6 DEF t, s

\* Options are read back, sorted.
LEMMA OptionsRead ==
  ASSUME NEW opts \in Seq(Option)
  PROVE  /\ UnpackOptions(PackOptions(opts)) = Parsed(SortedByName(opts))
         /\ PackOptions(opts) \in Seq(Unit)
<1> DEFINE n == Len(opts)
           s == SortedByName(opts)
           groups == [i \in 1 .. n |-> <<Str(s[i].name), Str(OptionData(s[i]))>>]
           b == PackOptions(opts)
<1>1. /\ n \in Nat /\ s \in Seq(Option) /\ Len(s) = n /\ DOMAIN s = 1 .. n /\ DOMAIN opts = 1 .. n
  BY OptionsSorted
<1> HIDE DEF s
<1>2. \A i \in 1 .. n : s[i] \in Option
  BY <1>1
<1>3. \A i \in 1 .. n :
        /\ groups[i] \in GroupsOf(TwoStrings)
        /\ Bytes(groups[i]) = PutBytes32(s[i].name) \o PutBytes32(OptionData(s[i]))
        /\ ValsOf(groups[i]) = <<s[i].name, OptionData(s[i])>>
  <2> SUFFICES ASSUME NEW i \in 1 .. n
        PROVE /\ groups[i] \in GroupsOf(TwoStrings)
              /\ Bytes(groups[i]) = PutBytes32(s[i].name) \o PutBytes32(OptionData(s[i]))
              /\ ValsOf(groups[i]) = <<s[i].name, OptionData(s[i])>>
    OBVIOUS
  <2> DEFINE v == s[i].name
             w == OptionData(s[i])
  <2>1. Fits(v) /\ Fits(w) /\ groups[i] = <<Str(v), Str(w)>>
    BY <1>2, OptionIs
  <2> HIDE DEF v, w, groups
  <2>2. /\ <<Str(v), Str(w)>> \in GroupsOf(TwoStrings)
        /\ Bytes(<<Str(v), Str(w)>>) = PutBytes32(v) \o PutBytes32(w)
        /\ ValsOf(<<Str(v), Str(w)>>) = <<v, w>>
    BY <2>1, TwoGroup
  <2> QED BY <2>1, <2>2 DEF v, w
<1>4. groups \in Seq(GroupsOf(TwoStrings)) /\ Len(groups) = n /\ DOMAIN groups = 1 .. n
  <2> DEFINE K == GroupsOf(TwoStrings)
  <2>1. groups \in [1 .. n -> K]
    BY <1>3
  <2> HIDE DEF groups, K, n
  <2>2. groups \in Seq(K) /\ Len(groups) = n /\ DOMAIN groups = 1 .. n
    BY <1>1, <2>1
  <2> QED BY <2>2 DEF K
<1> HIDE DEF groups
<1>5. b = AllBytes(groups)
  <2>1. [i \in DOMAIN opts |-> LET o == SortedByName(opts)[i]
                               IN  PutBytes32(o.name) \o PutBytes32(OptionData(o))]
          = [i \in DOMAIN groups |-> Bytes(groups[i])]
    BY <1>1, <1>3, <1>4 DEF s
  <2> QED BY <2>1 DEF PackOptions, AllBytes
<1>6. b \in Seq(Unit) /\ ReadAll(b, TwoStrings) = Got(AllVals(groups), <<>>)
  <2>1. b \in Seq(Unit)
    BY <1>4, <1>5, StringKinds, GroupsAre
  <2>2. ReadAll(AllBytes(groups), TwoStrings) = Got(AllVals(groups), <<>>)
    BY <1>4, StringKinds, GroupsWrittenAreRead
  <2> QED BY <1>5, <2>1, <2>2
<1> DEFINE all == ReadAll(b, TwoStrings)
           vals == AllVals(groups)
<1>7. all.ok = TRUE /\ all.val = vals
  BY <1>6, GotFields
<1>8. DOMAIN vals = 1 .. n
      /\ \A i \in 1 .. n : vals[i][1] = s[i].name /\ vals[i][2] = OptionData(s[i])
  <2>1. DOMAIN vals = 1 .. n /\ \A i \in 1 .. n : vals[i] = <<s[i].name, OptionData(s[i])>>
    BY <1>3, <1>4 DEF AllVals
  <2> QED BY <2>1
<1> HIDE DEF vals, b, all
<1> DEFINE Read1(i) == [name |-> vals[i][1],
                        data |-> IF vals[i][2] = <<>> THEN <<>> ELSE GetBytes32(vals[i][2]).val]
<1>9. \A i \in 1 .. n : OptionDataOK(vals[i][2]) /\ Read1(i) = s[i]
  <2> SUFFICES ASSUME NEW i \in 1 .. n PROVE OptionDataOK(vals[i][2]) /\ Read1(i) = s[i]
    OBVIOUS
  <2> DEFINE o == s[i]
  <2>1. o \in Option /\ vals[i][1] = o.name /\ vals[i][2] = OptionData(o)
    BY <1>2, <1>8
  <2> HIDE DEF o
  <2>2. /\ o = [name |-> o.name, data |-> o.data]
        /\ OptionDataOK(OptionData(o))
        /\ (IF OptionData(o) = <<>> THEN <<>> ELSE GetBytes32(OptionData(o)).val) = o.data
    BY <2>1, OptionIs
  <2> QED BY <2>1, <2>2 DEF o
<1>10. [i \in DOMAIN vals |-> Read1(i)] = s
  BY <1>1, <1>8, <1>9
<1>11. UnpackOptions(b) = Parsed([i \in DOMAIN vals |-> Read1(i)])
  BY <1>7, <1>8, <1>9 DEF UnpackOptions, all, TwoStrings
<1> QED BY <1>6, <1>10, <1>11 DEF b, s

\* Sorting keeps the set of options.
LEMMA SortedSameSet ==
  ASSUME NEW opts \in Seq(Option)
  PROVE  ToSet(SortedByName(opts)) = ToSet(opts)
<1> DEFINE n == Len(opts)
           order == Sorting(Names(opts))
           s == SortedByName(opts)
<1>1. /\ n \in Nat /\ DOMAIN s = 1 .. n /\ DOMAIN opts = 1 .. n
      /\ order \in Bijection(1 .. n, 1 .. n)
      /\ \A i \in 1 .. n : order[i] \in 1 .. n /\ s[i] = opts[order[i]]
  BY OptionsSorted
<1> HIDE DEF n, order, s
<1>2. \A j \in 1 .. n : \E i \in 1 .. n : order[i] = j
  BY <1>1 DEF Bijection, Surjection
<1>3. \A x : x \in ToSet(s) => x \in ToSet(opts)
  BY <1>1 DEF ToSet
<1>4. \A x : x \in ToSet(opts) => x \in ToSet(s)
  <2> SUFFICES ASSUME NEW j \in 1 .. n PROVE opts[j] \in ToSet(s)
    BY <1>1 DEF ToSet
  <2>1. PICK i \in 1 .. n : order[i] = j
    BY <1>2
  <2> QED BY <1>1, <2>1 DEF ToSet
<1> QED BY <1>3, <1>4 DEF s

\* What is written for options that were read is no longer than what they were read
\* from: the order is another, and a value that was the empty string is left out.
LEMMA OptionsWritten ==
  ASSUME NEW b \in Seq(Unit), UnpackOptions(b).ok
  PROVE  /\ UnpackOptions(b).val \in Seq(Option)
         /\ Len(PackOptions(UnpackOptions(b).val)) <= Len(b)
<1> DEFINE all == ReadAll(b, TwoStrings)
           opts == UnpackOptions(b).val
<1>1. all.ok /\ \A i \in DOMAIN all.val : OptionDataOK(all.val[i][2])
  BY DEF UnpackOptions, Refused, TwoStrings
<1>2. UnpackOptions(b) = Parsed([i \in DOMAIN all.val |->
                            [name |-> all.val[i][1],
                             data |-> IF all.val[i][2] = <<>> THEN <<>>
                                      ELSE GetBytes32(all.val[i][2]).val]])
  BY <1>1 DEF UnpackOptions, TwoStrings
<1>3. PICK groups \in Seq(GroupsOf(TwoStrings)) :
        all = Got(AllVals(groups), <<>>) /\ b = AllBytes(groups)
  BY <1>1, StringKinds, GroupsReadAreWritten
<1> DEFINE n == Len(groups)
           v(i) == groups[i][1].val
           w(i) == groups[i][2].val
           data(i) == IF w(i) = <<>> THEN <<>> ELSE GetBytes32(w(i)).val
           read == [i \in 1 .. n |-> [name |-> v(i), data |-> data(i)]]
<1>4. /\ n \in Nat /\ DOMAIN groups = 1 .. n
      /\ \A i \in 1 .. n : groups[i] \in GroupsOf(TwoStrings)
  OBVIOUS
<1>5. \A i \in 1 .. n : /\ Fits(v(i)) /\ Fits(w(i))
                        /\ Bytes(groups[i]) = PutBytes32(v(i)) \o PutBytes32(w(i))
                        /\ ValsOf(groups[i]) = <<v(i), w(i)>>
  BY <1>4, GroupTwo
<1> HIDE DEF v, w, n
<1>6. all.val = AllVals(groups) /\ DOMAIN all.val = 1 .. n
      /\ \A i \in 1 .. n : all.val[i][1] = v(i) /\ all.val[i][2] = w(i)
  <2>1. all.val = AllVals(groups)
    BY <1>3, GotFields
  <2>2. DOMAIN AllVals(groups) = 1 .. n /\ \A i \in 1 .. n : AllVals(groups)[i] = <<v(i), w(i)>>
    BY <1>4, <1>5 DEF AllVals
  <2> QED BY <2>1, <2>2
<1> HIDE DEF all
<1>7. opts = read
  <2>1. UnpackOptions(b) = Parsed(read)
    BY <1>2, <1>6
  <2>2. \A x : Parsed(x).val = x
    BY DEF Parsed
  <2> QED BY <2>1, <2>2
<1>8. ASSUME NEW i \in 1 .. n
      PROVE  /\ read[i] \in Option /\ read[i].name = v(i)
             /\ Len(OptionData(read[i])) <= Len(w(i)) /\ Len(OptionData(read[i])) \in Nat
  <2> DEFINE o == read[i]
             d == data(i)
             x == w(i)
             y == v(i)
  <2>1. o.name = y /\ o.data = d /\ OptionDataOK(x) /\ Fits(x) /\ Fits(y)
        /\ o = [name |-> y, data |-> d]
    BY <1>1, <1>5, <1>6
  <2>2. d = IF x = <<>> THEN <<>> ELSE GetBytes32(x).val
    OBVIOUS
  <2> HIDE DEF o, d, x, y
  <2>3. d \in Seq(Unit) /\ Fits(OptionData(o)) /\ Len(OptionData(o)) <= Len(x)
        /\ Len(OptionData(o)) \in Nat
    <3>1. CASE d = <<>>
      <4>1. OptionData(o) = <<>> /\ d \in Seq(Unit)
        BY <2>1, <3>1 DEF OptionData
      <4>2. Fits(<<>>) /\ Len(<<>>) = 0 /\ Len(x) >= 0
        BY <2>1, UnitFacts DEF Fits
      <4> QED BY <4>1, <4>2
    <3>2. CASE d # <<>>
      <4>1. x # <<>> /\ d = GetBytes32(x).val /\ x \in Seq(Unit)
        BY <2>1, <2>2, <3>2 DEF Fits
      <4>2. GetBytes32(x).ok /\ GetBytes32(x).rest = <<>>
        BY <2>1, <4>1 DEF OptionDataOK
      <4>3. d \in Seq(Unit) /\ x = PutBytes32(d) \o <<>>
        BY <4>1, <4>2, ReadIsWritten
      <4>4. PutBytes32(d) \in Seq(Unit)
        <5>1. Len(d) % Base \in Unit
          <6>1. \A k \in Nat : k % Base \in 0 .. Base - 1
            BY BaseAssumption
          <6> QED BY <4>3, <6>1 DEF Unit
        <5> QED BY <4>3, <5>1 DEF PutBytes32, PutUint32
      <4>5. x = PutBytes32(d)
        BY <4>3, <4>4, ConcatProperties
      <4>6. OptionData(o) = x
        BY <2>1, <3>2, <4>5 DEF OptionData
      <4> QED BY <2>1, <4>1, <4>3, <4>6
    <3> QED BY <3>1, <3>2
  <2>4. o \in Option
    BY <2>1, <2>3 DEF Option, Fits
  <2> QED BY <2>1, <2>3, <2>4 DEF o, x, y
<1>9. read \in Seq(Option) /\ Len(read) = n
  <2> DEFINE K == Option
  <2>1. read \in [1 .. n -> K]
    BY <1>8
  <2> HIDE DEF read, K
  <2>2. read \in Seq(K) /\ Len(read) = n
    BY <1>4, <2>1
  <2> QED BY <2>2 DEF K
<1> HIDE DEF read
<1> DEFINE order == Sorting(Names(read))
           s == SortedByName(read)
           W(i) == PutBytes32(s[i].name) \o PutBytes32(OptionData(s[i]))
           parts == [i \in 1 .. n |-> Bytes(groups[i])]
           other == [i \in 1 .. n |-> W(i)]
<1>10. /\ order \in Bijection(1 .. n, 1 .. n) /\ DOMAIN read = 1 .. n
       /\ \A i \in 1 .. n : order[i] \in 1 .. n /\ s[i] = read[order[i]]
  BY <1>9, OptionsSorted
<1> HIDE DEF order, s
<1>11. \A x \in Seq(Unit) : PutBytes32(x) \in Seq(Unit) /\ Len(PutBytes32(x)) = Len(x) + 1
  <2> SUFFICES ASSUME NEW x \in Seq(Unit)
               PROVE  PutBytes32(x) \in Seq(Unit) /\ Len(PutBytes32(x)) = Len(x) + 1
    OBVIOUS
  <2>1. Len(x) % Base \in Unit
    <3>1. \A k \in Nat : k % Base \in 0 .. Base - 1
      BY BaseAssumption
    <3> QED BY <3>1 DEF Unit
  <2> QED BY <2>1 DEF PutBytes32, PutUint32
<1>12. ASSUME NEW i \in 1 .. n
       PROVE  W(i) \in Seq(Unit) /\ Len(W(i)) <= Len(Bytes(groups[order[i]]))
              /\ Bytes(groups[i]) \in Seq(Unit)
  <2> DEFINE j == order[i]
             a == v(j)
             c == w(j)
             d == OptionData(read[j])
  <2>1. j \in 1 .. n /\ s[i] = read[j]
    BY <1>10
  <2>2. /\ read[j].name = a /\ Fits(a) /\ Fits(c) /\ Len(d) <= Len(c) /\ Len(d) \in Nat
        /\ Bytes(groups[j]) = PutBytes32(a) \o PutBytes32(c) /\ Fits(d)
    BY <1>5, <1>8, <2>1, OptionIs
  <2>3. W(i) = PutBytes32(a) \o PutBytes32(d)
    BY <2>1, <2>2
  <2> HIDE DEF a, c, d, W
  <2>4. /\ PutBytes32(a) \in Seq(Unit) /\ Len(PutBytes32(a)) = Len(a) + 1
        /\ PutBytes32(c) \in Seq(Unit) /\ Len(PutBytes32(c)) = Len(c) + 1
        /\ PutBytes32(d) \in Seq(Unit) /\ Len(PutBytes32(d)) = Len(d) + 1
        /\ Len(a) \in Nat /\ Len(c) \in Nat /\ Len(d) \in Nat
    <3>1. \A x : Fits(x) => x \in Seq(Unit) /\ Len(x) \in Nat
      BY DEF Fits
    <3>2. a \in Seq(Unit) /\ c \in Seq(Unit) /\ d \in Seq(Unit)
      BY <2>2, <3>1
    <3> QED BY <1>11, <2>2, <3>1, <3>2
  <2>4a. \A x, y \in Seq(Unit) : x \o y \in Seq(Unit) /\ Len(x \o y) = Len(x) + Len(y)
    OBVIOUS
  <2>5. Len(W(i)) = (Len(a) + 1) + (Len(d) + 1) /\ W(i) \in Seq(Unit)
    BY <2>3, <2>4, <2>4a
  <2>6. Len(Bytes(groups[j])) = (Len(a) + 1) + (Len(c) + 1)
    <3>1. Bytes(groups[j]) = PutBytes32(a) \o PutBytes32(c)
      BY <2>2
    <3>2. Len(PutBytes32(a) \o PutBytes32(c)) = (Len(a) + 1) + (Len(c) + 1)
      BY <2>4, <2>4a
    <3> QED BY <3>1, <3>2, Zenon
  <2>7. Bytes(groups[i]) \in Seq(Unit)
    BY <1>4, StringKinds, GroupIs
  <2> QED BY <2>2, <2>4, <2>5, <2>6, <2>7
<1>13. /\ parts \in Seq(Seq(Unit)) /\ Len(parts) = n /\ other \in Seq(Seq(Unit)) /\ Len(other) = n
       /\ \A i \in 1 .. n : Len(other[i]) <= Len(parts[order[i]])
  <2> DEFINE K == Seq(Unit)
  <2>1. parts \in [1 .. n -> K] /\ other \in [1 .. n -> K]
    BY <1>12
  <2>2. \A i \in 1 .. n : Len(other[i]) <= Len(parts[order[i]])
    BY <1>10, <1>12
  <2> HIDE DEF parts, other, K
  <2>3. parts \in Seq(K) /\ Len(parts) = n /\ other \in Seq(K) /\ Len(other) = n
    BY <1>4, <2>1
  <2> QED BY <2>2, <2>3 DEF K
<1>14. Concat(parts) = b /\ Concat(other) = PackOptions(read)
  <2>1. [i \in DOMAIN read |-> LET o == SortedByName(read)[i]
                               IN  PutBytes32(o.name) \o PutBytes32(OptionData(o))] = other
    BY <1>10 DEF s
  <2>2. [i \in DOMAIN groups |-> Bytes(groups[i])] = parts
    BY <1>4
  <2> QED BY <1>3, <2>1, <2>2 DEF PackOptions, AllBytes
<1> HIDE DEF parts, other
<1>15. Len(Concat(other)) <= Len(Concat(parts))
  BY <1>4, <1>10, <1>13, ConcatShorter
<1> QED BY <1>7, <1>9, <1>14, <1>15

-----------------------------------------------------------------------------
\* The fields of a certificate.

\* The parts of a list of two, some and more.
HasParts(v, h, k, t, n) ==
  v[2] = h[2] /\ SubSeq(v, 3, n) = k /\ SubSeq(v, n + 1, Len(v)) = t

\* The pieces of a list of two, some and more.
LEMMA Middle ==
  ASSUME NEW S, NEW h \in Seq(S), NEW k \in Seq(S), NEW t \in Seq(S), Len(h) = 2,
         NEW n, n = Len(k) + 2
  PROVE  HasParts((h \o k) \o t, h, k, t, n)
<1> DEFINE v == (h \o k) \o t
           x == SubSeq(v, 3, n)
           y == SubSeq(v, n + 1, Len(v))
<1>1. Len(k) \in Nat /\ Len(t) \in Nat /\ n \in Nat
  OBVIOUS
<1>2. /\ v \in Seq(S) /\ Len(v) = n + Len(t)
      /\ v[1] = h[1] /\ v[2] = h[2]
      /\ \A i \in 1 .. Len(k) : v[i + 2] = k[i]
      /\ \A i \in 1 .. Len(t) : v[i + n] = t[i]
  <2> DEFINE w == h \o k
             u == w \o t
  <2>0. 2 \in Nat /\ Len(h) = 2 /\ h \in Seq(S) /\ k \in Seq(S) /\ t \in Seq(S)
    OBVIOUS
  <2>1. /\ w \in Seq(S) /\ Len(w) = Len(h) + Len(k)
        /\ \A i \in 1 .. Len(h) + Len(k) : w[i] = IF i <= Len(h) THEN h[i] ELSE k[i - Len(h)]
    BY <2>0, ConcatProperties
  <2> HIDE DEF w
  <2>2. /\ u \in Seq(S) /\ Len(u) = Len(w) + Len(t)
        /\ \A i \in 1 .. Len(w) + Len(t) : u[i] = IF i <= Len(w) THEN w[i] ELSE t[i - Len(w)]
    <3>1. w \in Seq(S) /\ t \in Seq(S)
      BY <2>1
    <3> QED BY <3>1, ConcatProperties
  <2> HIDE DEF u
  <2> DEFINE lk == Len(k)
             lt == Len(t)
  <2>3. /\ lk \in Nat /\ lt \in Nat /\ n = lk + 2 /\ Len(w) = n /\ Len(h) = 2
        /\ Len(u) = n + lt
        /\ \A i \in 1 .. n : w[i] = IF i <= 2 THEN h[i] ELSE k[i - 2]
        /\ \A i \in 1 .. n + lt : u[i] = IF i <= n THEN w[i] ELSE t[i - n]
    BY <1>1, <2>0, <2>1, <2>2
  <2> HIDE DEF lk, lt
  <2>4. u[1] = h[1] /\ u[2] = h[2]
    BY <2>3
  <2>5. ASSUME NEW i \in 1 .. lk PROVE u[i + 2] = k[i]
    <3>1. i + 2 \in 1 .. n /\ i + 2 \in 1 .. n + lt /\ (i + 2) - 2 = i /\ ~ (i + 2 <= 2)
          /\ i + 2 <= n
      BY <2>3
    <3> QED BY <2>3, <3>1
  <2>6. ASSUME NEW i \in 1 .. lt PROVE u[i + n] = t[i]
    <3>1. i + n \in 1 .. n + lt /\ ~ (i + n <= n) /\ (i + n) - n = i
      BY <2>3
    <3> QED BY <2>3, <3>1
  <2> QED BY <2>2, <2>3, <2>4, <2>5, <2>6 DEF u, w, lk, lt
<1> HIDE DEF v
<1>3. x \in Seq(S) /\ Len(x) = Len(k) /\ \A i \in 1 .. Len(k) : x[i] = v[i + 2]
  BY <1>1, <1>2
<1>4. y \in Seq(S) /\ Len(y) = Len(t) /\ \A i \in 1 .. Len(t) : y[i] = v[i + n]
  BY <1>1, <1>2
<1> HIDE DEF x, y
<1>5. x = k
  <2>1. \A i \in 1 .. Len(k) : x[i] = k[i]
    BY <1>2, <1>3
  <2>2. x \in Seq(S) /\ k \in Seq(S) /\ Len(x) = Len(k)
    BY <1>3
  <2> QED BY <2>1, <2>2, SeqEqual
<1>6. y = t
  <2>1. \A i \in 1 .. Len(t) : y[i] = t[i]
    BY <1>2, <1>4
  <2>2. y \in Seq(S) /\ t \in Seq(S) /\ Len(y) = Len(t)
    BY <1>4
  <2> QED BY <2>1, <2>2, SeqEqual
<1>7. HasParts(v, h, k, t, n)
  BY <1>2, <1>5, <1>6 DEF x, y, HasParts
<1> QED BY <1>7 DEF v

\* The fields of a key.
KeyIs(key, kf) ==
  /\ kf \in Seq(Field) /\ KindsOf(kf) = Strings(FieldCount[key.algo])
  /\ key.blob = PutBytes32(key.algo) \o Bytes(kf)

CertHead(c) == <<Str(CertAlgo(c.key.algo)), Str(c.nonce)>>
CertBody(c) ==
  <<U64(c.serial), U32(c.certType), Str(c.keyID), Str(PackStringList(c.validPrincipals)),
    U64(c.validAfter), U64(c.validBefore), Str(PackOptions(c.criticalOptions)),
    Str(PackOptions(c.extensions)), Str(c.reserved), Str(c.signatureKey)>>
SignedFields(c, kf) == (CertHead(c) \o kf) \o CertBody(c)
AllFields(c, kf)    == (CertHead(c) \o kf) \o (CertBody(c) \o <<Str(c.signature)>>)

\* The values that follow the key in a certificate.
BodyVals(c) ==
  <<PutUint64(c.serial), PutUint32(c.certType), c.keyID, PackStringList(c.validPrincipals),
    PutUint64(c.validAfter), PutUint64(c.validBefore), PackOptions(c.criticalOptions),
    PackOptions(c.extensions), c.reserved, c.signatureKey, c.signature>>

\* The types of certificates fit a unit.
LEMMA CertTypeIsUnit == UserCert \in Unit /\ HostCert \in Unit /\ UserCert # HostCert
<1>1. Base \in Nat /\ Base > 2
  BY FormatAssumption, BaseAssumption
<1> QED BY <1>1 DEF UserCert, HostCert, Unit

\* The two fields before the key, as they are written.
LEMMA HeadIs ==
  ASSUME NEW c, Encodable(c)
  PROVE  /\ CertHead(c) \in Seq(Field)
         /\ KindsOf(CertHead(c)) = <<"string", "string">>
         /\ Bytes(CertHead(c)) = PutBytes32(CertAlgo(c.key.algo)) \o PutBytes32(c.nonce)
         /\ ValsOf(CertHead(c)) = <<CertAlgo(c.key.algo), c.nonce>>
<1> DEFINE v == CertAlgo(c.key.algo)
           w == c.nonce
<1>1. c.key.algo \in DOMAIN FieldCount /\ Fits(w)
  BY DEF Encodable, Certs
<1>2. Fits(v)
  BY <1>1, AlgoFound DEF Fits
<1> HIDE DEF v, w
<1>3. /\ <<Str(v), Str(w)>> \in GroupsOf(TwoStrings)
      /\ Bytes(<<Str(v), Str(w)>>) = PutBytes32(v) \o PutBytes32(w)
      /\ ValsOf(<<Str(v), Str(w)>>) = <<v, w>>
  BY <1>1, <1>2, TwoGroup
<1> QED BY <1>3 DEF CertHead, GroupsOf, TwoStrings, v, w

\* The ten fields behind the key, as they are written.
LEMMA BodyIs ==
  ASSUME NEW c, Encodable(c)
  PROVE  /\ CertBody(c) \in Seq(Field)
         /\ KindsOf(CertBody(c)) = <<"uint64", "uint32", "string", "string", "uint64", "uint64",
                                     "string", "string", "string", "string">>
         /\ Puts(CertBody(c)) =
              <<PutUint64(c.serial), PutUint32(c.certType), PutBytes32(c.keyID),
                PutBytes32(PackStringList(c.validPrincipals)),
                PutUint64(c.validAfter), PutUint64(c.validBefore),
                PutBytes32(PackOptions(c.criticalOptions)),
                PutBytes32(PackOptions(c.extensions)), PutBytes32(c.reserved),
                PutBytes32(c.signatureKey)>>
         /\ ValsOf(CertBody(c)) =
              <<PutUint64(c.serial), PutUint32(c.certType), c.keyID,
                PackStringList(c.validPrincipals),
                PutUint64(c.validAfter), PutUint64(c.validBefore),
                PackOptions(c.criticalOptions), PackOptions(c.extensions), c.reserved,
                c.signatureKey>>
<1>1. /\ c.serial \in 0 .. MaxUint64 /\ c.validAfter \in 0 .. MaxUint64
      /\ c.validBefore \in 0 .. MaxUint64 /\ c.certType \in Unit
  BY CertTypeIsUnit DEF Encodable, Certs
<1>2. /\ Fits(c.keyID) /\ Fits(PackStringList(c.validPrincipals))
      /\ Fits(PackOptions(c.criticalOptions)) /\ Fits(PackOptions(c.extensions))
      /\ Fits(c.reserved) /\ Fits(c.signatureKey)
  BY DEF Encodable
<1> DEFINE x1 == U64(c.serial)
           x2 == U32(c.certType)
           x3 == Str(c.keyID)
           x4 == Str(PackStringList(c.validPrincipals))
           x5 == U64(c.validAfter)
           x6 == U64(c.validBefore)
           x7 == Str(PackOptions(c.criticalOptions))
           x8 == Str(PackOptions(c.extensions))
           x9 == Str(c.reserved)
           y == Str(c.signatureKey)
<1>3. /\ x1 \in Field /\ x1.kind = "uint64" /\ x1.val = PutUint64(c.serial)
      /\ Put("uint64", PutUint64(c.serial)) = PutUint64(c.serial)
  BY <1>1, NumberFields
<1>4. /\ x2 \in Field /\ x2.kind = "uint32" /\ x2.val = PutUint32(c.certType)
      /\ Put("uint32", PutUint32(c.certType)) = PutUint32(c.certType)
  BY <1>1, NumberFields
<1>5. /\ x5 \in Field /\ x5.kind = "uint64" /\ x5.val = PutUint64(c.validAfter)
      /\ Put("uint64", PutUint64(c.validAfter)) = PutUint64(c.validAfter)
  BY <1>1, NumberFields
<1>6. /\ x6 \in Field /\ x6.kind = "uint64" /\ x6.val = PutUint64(c.validBefore)
      /\ Put("uint64", PutUint64(c.validBefore)) = PutUint64(c.validBefore)
  BY <1>1, NumberFields
<1>7. \A v : Fits(v) => /\ Str(v) \in Field /\ Str(v).kind = "string" /\ Str(v).val = v
                        /\ Put("string", v) = PutBytes32(v)
  BY StrIs
<1>8. /\ x3 \in Field /\ x3.kind = "string" /\ x3.val = c.keyID
      /\ Put("string", c.keyID) = PutBytes32(c.keyID)
  BY <1>2, <1>7
<1>9. /\ x4 \in Field /\ x4.kind = "string" /\ x4.val = PackStringList(c.validPrincipals)
      /\ Put("string", PackStringList(c.validPrincipals)) =
           PutBytes32(PackStringList(c.validPrincipals))
  BY <1>2, <1>7
<1>10. /\ x7 \in Field /\ x7.kind = "string" /\ x7.val = PackOptions(c.criticalOptions)
       /\ Put("string", PackOptions(c.criticalOptions)) =
            PutBytes32(PackOptions(c.criticalOptions))
  BY <1>2, <1>7
<1>11. /\ x8 \in Field /\ x8.kind = "string" /\ x8.val = PackOptions(c.extensions)
       /\ Put("string", PackOptions(c.extensions)) = PutBytes32(PackOptions(c.extensions))
  BY <1>2, <1>7
<1>12. /\ x9 \in Field /\ x9.kind = "string" /\ x9.val = c.reserved
       /\ Put("string", c.reserved) = PutBytes32(c.reserved)
  BY <1>2, <1>7
<1>13. /\ y \in Field /\ y.kind = "string" /\ y.val = c.signatureKey
       /\ Put("string", c.signatureKey) = PutBytes32(c.signatureKey)
  BY <1>2, <1>7
<1>14. CertBody(c) = <<x1, x2, x3, x4, x5, x6, x7, x8, x9, y>>
  BY DEF CertBody
<1> HIDE DEF x1, x2, x3, x4, x5, x6, x7, x8, x9, y
<1> DEFINE fields == <<x1, x2, x3, x4, x5, x6, x7, x8, x9, y>>
<1>15. /\ fields \in Seq(Field)
       /\ Puts(fields) = <<Put(x1.kind, x1.val), Put(x2.kind, x2.val), Put(x3.kind, x3.val),
                           Put(x4.kind, x4.val), Put(x5.kind, x5.val), Put(x6.kind, x6.val),
                           Put(x7.kind, x7.val), Put(x8.kind, x8.val), Put(x9.kind, x9.val),
                           Put(y.kind, y.val)>>
       /\ KindsOf(fields) = <<x1.kind, x2.kind, x3.kind, x4.kind, x5.kind,
                              x6.kind, x7.kind, x8.kind, x9.kind, y.kind>>
       /\ ValsOf(fields) = <<x1.val, x2.val, x3.val, x4.val, x5.val,
                             x6.val, x7.val, x8.val, x9.val, y.val>>
  <2>1. /\ x1 \in Field /\ x2 \in Field /\ x3 \in Field /\ x4 \in Field /\ x5 \in Field
        /\ x6 \in Field /\ x7 \in Field /\ x8 \in Field /\ x9 \in Field /\ y \in Field
    BY <1>3, <1>4, <1>5, <1>6, <1>8, <1>9, <1>10, <1>11, <1>12, <1>13
  <2>2. fields \in Seq(Field) /\ DOMAIN fields = 1 .. 10
    BY <2>1
  <2>3. Puts(fields) = <<Put(x1.kind, x1.val), Put(x2.kind, x2.val), Put(x3.kind, x3.val),
                         Put(x4.kind, x4.val), Put(x5.kind, x5.val), Put(x6.kind, x6.val),
                         Put(x7.kind, x7.val), Put(x8.kind, x8.val), Put(x9.kind, x9.val),
                         Put(y.kind, y.val)>>
    BY DEF Puts
  <2>4. KindsOf(fields) = <<x1.kind, x2.kind, x3.kind, x4.kind, x5.kind,
                            x6.kind, x7.kind, x8.kind, x9.kind, y.kind>>
    BY DEF KindsOf
  <2>5. ValsOf(fields) = <<x1.val, x2.val, x3.val, x4.val, x5.val,
                           x6.val, x7.val, x8.val, x9.val, y.val>>
    BY DEF ValsOf
  <2> QED BY <2>2, <2>3, <2>4, <2>5
<1> HIDE DEF fields
<1> QED
  BY <1>3, <1>4, <1>5, <1>6, <1>8, <1>9, <1>10, <1>11, <1>12, <1>13, <1>14, <1>15, Zenon
  DEF fields

\* What a sequence over a set holds is of the set.
LEMMA ElementOf ==
  \A S : \A q \in Seq(S) : \A i \in 1 .. Len(q) : q[i] \in S
OBVIOUS

\* A list of ten and one more.
LEMMA TenAndOne ==
  ASSUME NEW S, NEW s \in Seq(S), Len(s) = 10, NEW q \in Seq(S), Len(q) = 11,
         q[1] = s[1], q[2] = s[2], q[3] = s[3], q[4] = s[4], q[5] = s[5], q[6] = s[6],
         q[7] = s[7], q[8] = s[8], q[9] = s[9], q[10] = s[10]
  PROVE  s \o <<q[11]>> = q
<1> DEFINE n == q[11]
           r == <<n>>
           p == s \o r
<1>0. n \in S /\ n = q[11]
  <2>1. \A i \in 1 .. Len(q) : q[i] \in S
    BY ElementOf, Zenon
  <2>2. 11 \in 1 .. Len(q)
    <3>1. 11 \in 1 .. 11
      OBVIOUS
    <3> QED BY <3>1
  <2> QED BY <2>1, <2>2
<1> HIDE DEF n
<1>1. n \in S /\ r \in Seq(S) /\ Len(r) = 1 /\ r[1] = n
  BY <1>0
<1> HIDE DEF r
<1>2. /\ p \in Seq(S) /\ Len(p) = Len(s) + Len(r)
      /\ \A k \in 1 .. Len(s) + Len(r) : p[k] = IF k <= Len(s) THEN s[k] ELSE r[k - Len(s)]
  BY <1>1, ConcatProperties
<1> HIDE DEF p
<1>3. p \in Seq(S) /\ Len(p) = 11 /\ p[11] = n /\ \A k \in 1 .. 10 : p[k] = s[k]
  BY <1>1, <1>2
<1>4. \A k \in 1 .. 10 : q[k] = s[k]
  <2>1. \A k \in 1 .. 10 : k = 1 \/ k = 2 \/ k = 3 \/ k = 4 \/ k = 5 \/ k = 6 \/ k = 7
                           \/ k = 8 \/ k = 9 \/ k = 10
    OBVIOUS
  <2> QED BY <2>1
<1>5. \A k \in 1 .. 11 : p[k] = q[k]
  <2>1. \A k \in 1 .. 11 : k \in 1 .. 10 \/ k = 11
    OBVIOUS
  <2> QED BY <1>0, <1>3, <1>4, <2>1
<1>6. p = q
  BY <1>3, <1>5, SeqEqual
<1> QED BY <1>0, <1>6 DEF p, r

\* The fields of a key are what follows its name.
LEMMA KeyFieldsAre ==
  ASSUME NEW key, key.algo \in DOMAIN FieldCount, NEW kf, KeyIs(key, kf)
  PROVE  KeyFields(key) = Bytes(kf) /\ Bytes(kf) \in Seq(Unit)
<1> DEFINE a == key.algo
           s == Bytes(kf)
<1>1. s \in Seq(Unit) /\ key.blob = PutBytes32(a) \o s
  BY FieldsAre DEF KeyIs
<1>2. a \in Seq(Unit) /\ Len(a) < Base
  <2>1. a \in Seq(Unit) /\ Len(a) + 2 < Base
    BY FormatAssumption
  <2> QED BY <2>1, UnitFacts
<1> HIDE DEF a, s
<1>3. GetBytes32(PutBytes32(a) \o s) = Got(a, s)
  BY <1>1, <1>2, WrittenIsRead
<1>4. KeyFields(key) = s
  BY <1>1, <1>3, GotFields DEF KeyFields
<1> QED BY <1>1, <1>4 DEF s

\* A string that fits is written as units.
LEMMA PutString ==
  ASSUME NEW v, Fits(v) PROVE PutBytes32(v) \in Seq(Unit)
BY StrIs

\* What is signed is the fields of the certificate, the signature left out.
LEMMA SignedIs ==
  ASSUME NEW c, Encodable(c), NEW kf, KeyIs(c.key, kf)
  PROVE  /\ ToBeSigned(c) = Bytes(SignedFields(c, kf))
         /\ SignedFields(c, kf) \in Seq(Field) /\ ToBeSigned(c) \in Seq(Unit)
<1> DEFINE U == Seq(Unit)
           h == CertHead(c)
           b == CertBody(c)
           p1 == PutBytes32(CertAlgo(c.key.algo))
           p2 == PutBytes32(c.nonce)
           k == Bytes(kf)
           p3 == PutUint64(c.serial)
           p4 == PutUint32(c.certType)
           p5 == PutBytes32(c.keyID)
           p6 == PutBytes32(PackStringList(c.validPrincipals))
           p7 == PutUint64(c.validAfter)
           p8 == PutUint64(c.validBefore)
           p9 == PutBytes32(PackOptions(c.criticalOptions))
           q1 == PutBytes32(PackOptions(c.extensions))
           q2 == PutBytes32(c.reserved)
           q3 == PutBytes32(c.signatureKey)
<1>1. c.key.algo \in DOMAIN FieldCount /\ kf \in Seq(Field)
  BY DEF Encodable, Certs, KeyIs
<1>2. KeyFields(c.key) = k /\ k \in U
  BY <1>1, KeyFieldsAre
<1>3. p1 \in U /\ p2 \in U
  <2>1. Fits(CertAlgo(c.key.algo)) /\ Fits(c.nonce)
    BY <1>1, AlgoFound DEF Encodable, Fits
  <2> QED BY <2>1, PutString
<1>4. p3 \in U /\ p4 \in U /\ p7 \in U /\ p8 \in U
  <2>1. /\ c.serial \in 0 .. MaxUint64 /\ c.validAfter \in 0 .. MaxUint64
        /\ c.validBefore \in 0 .. MaxUint64 /\ c.certType \in Unit
    BY CertTypeIsUnit DEF Encodable, Certs
  <2> QED BY <2>1, NumberUnits, SmallNumber
<1>5. p5 \in U /\ p6 \in U /\ p9 \in U /\ q1 \in U /\ q2 \in U /\ q3 \in U
  BY PutString DEF Encodable
<1>6. ToBeSigned(c) = Concat(<<p1, p2, k, p3, p4, p5, p6, p7, p8, p9, q1, q2, q3>>)
  BY <1>2 DEF ToBeSigned
<1>7. /\ h \in Seq(Field) /\ Bytes(h) = p1 \o p2
  BY HeadIs
<1>8. /\ b \in Seq(Field) /\ Puts(b) = <<p3, p4, p5, p6, p7, p8, p9, q1, q2, q3>>
  BY BodyIs
<1>9. /\ h \o kf \in Seq(Field) /\ Bytes(h \o kf) = Bytes(h) \o k
      /\ (h \o kf) \o b \in Seq(Field)
      /\ Bytes((h \o kf) \o b) = Bytes(h \o kf) \o Bytes(b)
  BY <1>1, <1>7, <1>8, FieldsJoin
<1> HIDE DEF p1, p2, k, p3, p4, p5, p6, p7, p8, p9, q1, q2, q3, h, b, U
<1> DEFINE t == <<p3, p4, p5, p6, p7, p8, p9, q1, q2, q3>>
<1>10. /\ <<p1, p2, k, p3, p4, p5, p6, p7, p8, p9, q1, q2, q3>> = (<<p1, p2>> \o <<k>>) \o t
       /\ <<p1, p2>> \in Seq(U) /\ <<k>> \in Seq(U) /\ t \in Seq(U)
  BY <1>2, <1>3, <1>4, <1>5
<1> HIDE DEF t
<1>11. Concat((<<p1, p2>> \o <<k>>) \o t) = (Concat(<<p1, p2>>) \o Concat(<<k>>)) \o Concat(t)
  <2> DEFINE x == <<p1, p2>>
             y == <<k>>
  <2>1. x \in Seq(Seq(Unit)) /\ y \in Seq(Seq(Unit)) /\ t \in Seq(Seq(Unit))
    BY <1>10 DEF U
  <2> HIDE DEF x, y
  <2>2. x \o y \in Seq(Seq(Unit)) /\ Concat(x \o y) = Concat(x) \o Concat(y)
    BY <2>1, ConcatJoin
  <2>3. Concat((x \o y) \o t) = Concat(x \o y) \o Concat(t)
    BY <2>1, <2>2, ConcatJoin
  <2> QED BY <2>2, <2>3 DEF x, y
<1>12. Concat(<<k>>) = k /\ Concat(<<p1, p2>>) = p1 \o p2
  <2>1. p1 \in Seq(Unit) /\ p2 \in Seq(Unit) /\ k \in Seq(Unit)
    BY <1>2, <1>3 DEF U
  <2>2. <<p1>> \in Seq(Seq(Unit)) /\ Append(<<p1>>, p2) = <<p1>> \o <<p2>>
    BY <2>1
  <2>3. <<p1, p2>> = Append(<<p1>>, p2)
    <3> DEFINE x == Append(<<p1>>, p2)
               y == <<p1, p2>>
    <3>1. /\ x \in Seq(U) /\ Len(x) = 2 /\ x[1] = p1 /\ x[2] = p2
          /\ y \in Seq(U) /\ Len(y) = 2 /\ y[1] = p1 /\ y[2] = p2
      BY <1>3
    <3> HIDE DEF x, y
    <3>2. \A i \in 1 .. 2 : x[i] = y[i]
      <4>1. \A i \in 1 .. 2 : i = 1 \/ i = 2
        OBVIOUS
      <4> QED BY <3>1, <4>1
    <3>3. x = y
      BY <3>1, <3>2, SeqEqual
    <3> QED BY <3>3 DEF x, y
  <2>4. Concat(Append(<<p1>>, p2)) = Concat(<<p1>>) \o p2
    BY <2>1, <2>2, ConcatNext
  <2>5. Concat(<<p1>>) = p1 /\ Concat(<<k>>) = k
    BY <2>1, ConcatOne
  <2> QED BY <2>3, <2>4, <2>5
<1>13. Concat(t) = Bytes(b)
  BY <1>8 DEF Bytes, t
<1>14. ToBeSigned(c) = Bytes((h \o kf) \o b)
  BY <1>6, <1>7, <1>9, <1>10, <1>11, <1>12, <1>13, Zenon
<1>15. Bytes((h \o kf) \o b) \in Seq(Unit)
  BY <1>9, FieldsAre
<1> QED BY <1>9, <1>14, <1>15 DEF SignedFields, h, b

\* A line is all the fields of the certificate.
LEMMA LineIs ==
  ASSUME NEW c, Encodable(c), NEW kf, KeyIs(c.key, kf)
  PROVE  /\ AllFields(c, kf) \in Seq(Field)
         /\ MarshalLine(c).blob = Bytes(AllFields(c, kf))
         /\ KindsOf(AllFields(c, kf)) = CertFields(c.key.algo)
         /\ ValsOf(AllFields(c, kf)) =
              (<<CertAlgo(c.key.algo), c.nonce>> \o ValsOf(kf)) \o BodyVals(c)
<1> DEFINE h == CertHead(c)
           b == CertBody(c)
           s == <<Str(c.signature)>>
           hk == h \o kf
           bs == b \o s
           n == FieldCount[c.key.algo]
<1>1. kf \in Seq(Field) /\ KindsOf(kf) = Strings(n) /\ n \in Nat /\ Fits(c.signature)
  BY FormatAssumption DEF KeyIs, Encodable, Certs
<1>2. /\ s \in Seq(Field) /\ Bytes(s) = PutBytes32(c.signature)
      /\ KindsOf(s) = <<"string">> /\ ValsOf(s) = <<c.signature>>
  <2> DEFINE x == Str(c.signature)
  <2>1. x \in Field /\ x.kind = "string" /\ x.val = c.signature
        /\ Put("string", c.signature) = PutBytes32(c.signature)
    BY <1>1, StrIs
  <2> HIDE DEF x
  <2>2. /\ <<x>> \in Seq(Field) /\ Bytes(<<x>>) = Put(x.kind, x.val)
        /\ KindsOf(<<x>>) = <<x.kind>> /\ ValsOf(<<x>>) = <<x.val>>
    BY <2>1, BytesOne
  <2> QED BY <2>1, <2>2 DEF x
<1>3. h \in Seq(Field) /\ b \in Seq(Field)
  BY HeadIs, BodyIs
<1> HIDE DEF h, b, s
<1>4. /\ hk \in Seq(Field) /\ KindsOf(hk) = KindsOf(h) \o KindsOf(kf)
      /\ ValsOf(hk) = ValsOf(h) \o ValsOf(kf)
  BY <1>1, <1>3, FieldsJoin
<1>5. /\ bs \in Seq(Field) /\ KindsOf(bs) = KindsOf(b) \o KindsOf(s)
      /\ ValsOf(bs) = ValsOf(b) \o ValsOf(s) /\ Bytes(bs) = Bytes(b) \o Bytes(s)
  BY <1>2, <1>3, FieldsJoin
<1> HIDE DEF hk, bs
<1>6. /\ hk \o bs \in Seq(Field) /\ KindsOf(hk \o bs) = KindsOf(hk) \o KindsOf(bs)
      /\ ValsOf(hk \o bs) = ValsOf(hk) \o ValsOf(bs)
      /\ Bytes(hk \o bs) = Bytes(hk) \o Bytes(bs)
      /\ Bytes(hk \o b) = Bytes(hk) \o Bytes(b)
  BY <1>3, <1>4, <1>5, FieldsJoin
<1>7. AllFields(c, kf) = hk \o bs /\ SignedFields(c, kf) = hk \o b
  BY DEF AllFields, SignedFields, hk, bs, h, b, s
<1>8. MarshalLine(c).blob = ToBeSigned(c) \o PutBytes32(c.signature)
  BY DEF MarshalLine
<1>9. ToBeSigned(c) = Bytes(hk \o b)
  BY <1>7, SignedIs
<1>10. MarshalLine(c).blob = Bytes(hk \o bs)
  <2> DEFINE x == Bytes(hk)
             y == Bytes(b)
             z == Bytes(s)
  <2>1. x \in Seq(Unit) /\ y \in Seq(Unit) /\ z \in Seq(Unit)
    BY <1>2, <1>3, <1>4, FieldsAre
  <2>2. MarshalLine(c).blob = (x \o y) \o z /\ Bytes(hk \o bs) = x \o (y \o z)
    BY <1>2, <1>5, <1>6, <1>8, <1>9
  <2> HIDE DEF x, y, z
  <2>3. (x \o y) \o z = x \o (y \o z)
    BY <2>1, UnitsAssociative
  <2> QED BY <2>2, <2>3
<1>11. KindsOf(hk) = Strings(n + 2)
  <2> DEFINE S == {"string"}
             x == <<"string", "string">>
             y == Strings(n)
             z == Strings(n + 2)
  <2>1. KindsOf(hk) = x \o y
    BY <1>1, <1>4, HeadIs DEF h
  <2>2. x \in Seq(S) /\ Len(x) = 2
    OBVIOUS
  <2>3. y \in Seq(S) /\ Len(y) = n /\ z \in Seq(S) /\ Len(z) = n + 2
    BY <1>1 DEF Strings
  <2> HIDE DEF x, y, z
  <2>4. x \o y \in Seq(S) /\ Len(x \o y) = n + 2
    <3>1. x \o y \in Seq(S) /\ Len(x \o y) = Len(x) + Len(y)
      BY <2>2, <2>3, ConcatProperties
    <3>2. Len(x) + Len(y) = n + 2
      BY <1>1, <2>2, <2>3
    <3> QED BY <3>1, <3>2
  <2>5. \A w \in Seq(S) : \A i \in 1 .. Len(w) : w[i] = "string"
    OBVIOUS
  <2>6. x \o y = z
    <3> DEFINE p == x \o y
    <3> HIDE DEF p, n
    <3>1. p \in Seq(S) /\ z \in Seq(S) /\ Len(p) = Len(z)
      BY <2>3, <2>4 DEF p
    <3>2. \A i \in 1 .. Len(p) : p[i] = z[i]
      BY <2>5, <3>1
    <3>3. p = z
      BY <3>1, <3>2, SeqEqual
    <3> QED BY <3>3 DEF p
  <2> QED BY <2>1, <2>6 DEF z
<1>12. KindsOf(bs) = <<"uint64", "uint32", "string", "string", "uint64", "uint64",
                       "string", "string", "string", "string", "string">>
  <2>1. KindsOf(bs) = <<"uint64", "uint32", "string", "string", "uint64", "uint64",
                        "string", "string", "string", "string">> \o <<"string">>
    BY <1>2, <1>5, BodyIs DEF b
  <2>2. "uint64" \in Kinds /\ "uint32" \in Kinds /\ "string" \in Kinds
    BY DEF Kinds
  <2> DEFINE x == <<"uint64", "uint32", "string", "string", "uint64", "uint64",
                    "string", "string", "string", "string">>
             q == <<"uint64", "uint32", "string", "string", "uint64", "uint64",
                    "string", "string", "string", "string", "string">>
  <2>3. /\ x \in Seq(Kinds) /\ Len(x) = 10 /\ q \in Seq(Kinds) /\ Len(q) = 11
        /\ q[1] = x[1] /\ q[2] = x[2] /\ q[3] = x[3] /\ q[4] = x[4] /\ q[5] = x[5]
        /\ q[6] = x[6] /\ q[7] = x[7] /\ q[8] = x[8] /\ q[9] = x[9] /\ q[10] = x[10]
        /\ q[11] = "string"
    BY <2>2
  <2> HIDE DEF x, q
  <2>4. x \o <<q[11]>> = q
    BY <2>3, TenAndOne
  <2> QED BY <2>1, <2>3, <2>4 DEF x, q
<1>13. ValsOf(bs) = BodyVals(c)
  <2> DEFINE p3 == PutUint64(c.serial)
             p4 == PutUint32(c.certType)
             p5 == c.keyID
             p6 == PackStringList(c.validPrincipals)
             p7 == PutUint64(c.validAfter)
             p8 == PutUint64(c.validBefore)
             p9 == PackOptions(c.criticalOptions)
             q1 == PackOptions(c.extensions)
             q2 == c.reserved
             q3 == c.signatureKey
             q4 == c.signature
             S == {p3, p4, p5, p6, p7, p8, p9, q1, q2, q3, q4}
  <2>1. ValsOf(bs) = <<p3, p4, p5, p6, p7, p8, p9, q1, q2, q3>> \o <<q4>>
    BY <1>2, <1>5, BodyIs DEF b
  <2>2. BodyVals(c) = <<p3, p4, p5, p6, p7, p8, p9, q1, q2, q3, q4>>
    BY DEF BodyVals
  <2> HIDE DEF p3, p4, p5, p6, p7, p8, p9, q1, q2, q3, q4
  <2>3. /\ p3 \in S /\ p4 \in S /\ p5 \in S /\ p6 \in S /\ p7 \in S /\ p8 \in S /\ p9 \in S
        /\ q1 \in S /\ q2 \in S /\ q3 \in S /\ q4 \in S
    OBVIOUS
  <2> HIDE DEF S
  <2> DEFINE x == <<p3, p4, p5, p6, p7, p8, p9, q1, q2, q3>>
             q == <<p3, p4, p5, p6, p7, p8, p9, q1, q2, q3, q4>>
  <2>4. /\ x \in Seq(S) /\ Len(x) = 10 /\ q \in Seq(S) /\ Len(q) = 11
        /\ q[1] = x[1] /\ q[2] = x[2] /\ q[3] = x[3] /\ q[4] = x[4] /\ q[5] = x[5]
        /\ q[6] = x[6] /\ q[7] = x[7] /\ q[8] = x[8] /\ q[9] = x[9] /\ q[10] = x[10]
        /\ q[11] = q4
    BY <2>3
  <2> HIDE DEF x, q
  <2>5. x \o <<q[11]>> = q
    BY <2>4, TenAndOne
  <2> QED BY <2>1, <2>2, <2>4, <2>5 DEF x, q
<1>14. KindsOf(hk \o bs) = CertFields(c.key.algo)
  BY <1>6, <1>11, <1>12 DEF CertFields
<1>15. ValsOf(hk) = <<CertAlgo(c.key.algo), c.nonce>> \o ValsOf(kf)
  BY <1>4, HeadIs DEF h
<1>16. ValsOf(hk \o bs) = (<<CertAlgo(c.key.algo), c.nonce>> \o ValsOf(kf)) \o BodyVals(c)
  BY <1>6, <1>13, <1>15
<1> QED BY <1>6, <1>7, <1>10, <1>14, <1>16

\* A certificate with its options in the order in which they are written.
Canonical(c) == [c EXCEPT !.criticalOptions = SortedByName(@), !.extensions = SortedByName(@)]

\* A line begins with the name of its algorithm.
LEMMA LineBegins ==
  ASSUME NEW c, Encodable(c), NEW kf, KeyIs(c.key, kf)
  PROVE  /\ MarshalLine(c).blob \in Seq(Unit)
         /\ GetBytes32(MarshalLine(c).blob).ok
         /\ GetBytes32(MarshalLine(c).blob).val = CertAlgo(c.key.algo)
<1> DEFINE A == CertAlgo(c.key.algo)
           p1 == PutBytes32(A)
           p2 == PutBytes32(c.nonce)
           h == CertHead(c)
           s == CertBody(c) \o <<Str(c.signature)>>
           k == Bytes(kf)
           z == Bytes(s)
           blob == MarshalLine(c).blob
<1>1. kf \in Seq(Field) /\ c.key.algo \in DOMAIN FieldCount /\ Fits(c.nonce) /\ Fits(c.signature)
  BY DEF KeyIs, Encodable, Certs
<1>2. A \in Seq(Unit) /\ Len(A) < Base /\ p1 \in Seq(Unit) /\ p2 \in Seq(Unit)
  <2>1. A \in Seq(Unit) /\ Len(A) < Base
    BY <1>1, AlgoFound
  <2> HIDE DEF A
  <2>2. Fits(A)
    BY <2>1 DEF Fits
  <2>3. p1 \in Seq(Unit)
    BY <2>2, PutString
  <2>4. p2 \in Seq(Unit)
    BY <1>1, PutString
  <2> QED BY <2>1, <2>3, <2>4
<1>3. h \in Seq(Field) /\ Bytes(h) = p1 \o p2 /\ CertBody(c) \in Seq(Field)
  BY HeadIs, BodyIs
<1>4. s \in Seq(Field)
  <2> DEFINE y == <<Str(c.signature)>>
  <2>1. Str(c.signature) \in Field
    BY <1>1, StrIs
  <2>2. y \in Seq(Field)
    BY <2>1, BytesOne
  <2> HIDE DEF y
  <2>3. CertBody(c) \o y \in Seq(Field)
    BY <1>3, <2>2, FieldsJoin
  <2> QED BY <2>3 DEF y
<1>5. AllFields(c, kf) = (h \o kf) \o s
  BY DEF AllFields
<1> HIDE DEF h, s
<1>6. h \o kf \in Seq(Field) /\ Bytes(h \o kf) = Bytes(h) \o k
  BY <1>1, <1>3, FieldsJoin
<1>7. Bytes((h \o kf) \o s) = Bytes(h \o kf) \o z
  BY <1>4, <1>6, FieldsJoin
<1>8. k \in Seq(Unit) /\ z \in Seq(Unit)
  BY <1>1, <1>4, FieldsAre
<1>9. blob = ((p1 \o p2) \o k) \o z
  BY <1>3, <1>5, <1>6, <1>7, LineIs
<1> HIDE DEF p1, p2, k, z, blob, A
<1> DEFINE x == p2 \o k
           X == x \o z
<1>10. x \in Seq(Unit) /\ X \in Seq(Unit) /\ (p1 \o p2) \o k = p1 \o x
  BY <1>2, <1>8, UnitsAssociative
<1> HIDE DEF x
<1>11. (p1 \o x) \o z = p1 \o (x \o z)
  BY <1>2, <1>8, <1>10, UnitsAssociative
<1> HIDE DEF X
<1>12. blob = PutBytes32(A) \o X
  BY <1>9, <1>10, <1>11 DEF X, p1
<1>13. GetBytes32(PutBytes32(A) \o X) = Got(A, X)
  BY <1>2, <1>10, WrittenIsRead
<1>14. blob \in Seq(Unit)
  BY <1>2, <1>10, <1>12 DEF p1
<1>15. GetBytes32(blob).ok = TRUE /\ GetBytes32(blob).val = A
  BY <1>12, <1>13, GotFields
<1> QED BY <1>14, <1>15 DEF blob, A

\* What is read of a line: the values that were written, and nothing is left.
LEMMA LineFields ==
  ASSUME NEW c, Encodable(c), NEW kf, KeyIs(c.key, kf)
  PROVE  LET algo == c.key.algo
             f == Read(MarshalLine(c).blob, CertFields(algo))
             n == FieldCount[algo] + 2
         IN  /\ CertFields(algo) \in Seq(Kinds)
             /\ f.ok /\ f.rest = <<>> /\ f.val[2] = c.nonce
             /\ SubSeq(f.val, 3, n) = ValsOf(kf)
             /\ SubSeq(f.val, n + 1, Len(f.val)) = BodyVals(c)
<1> DEFINE algo == c.key.algo
           F == AllFields(c, kf)
           n == FieldCount[algo] + 2
           h == <<CertAlgo(algo), c.nonce>>
           k == ValsOf(kf)
           t == BodyVals(c)
           v == (h \o k) \o t
           b == MarshalLine(c).blob
           K == CertFields(algo)
<1>1. /\ F \in Seq(Field) /\ b = Bytes(F) /\ KindsOf(F) = K /\ ValsOf(F) = v
  BY LineIs
<1>2. K \in Seq(Kinds) /\ b \in Seq(Unit)
  BY <1>1, FieldsAre
<1>3. Read(Bytes(F) \o <<>>, KindsOf(F)) = Got(ValsOf(F), <<>>)
  <2>1. <<>> \in Seq(Unit)
    OBVIOUS
  <2> QED BY <1>1, <2>1, FieldsWrittenAreRead
<1>4. b \o <<>> = b
  BY <1>2
<1> HIDE DEF F, b, K
<1>5. Read(b, K) = Got(v, <<>>)
  BY <1>1, <1>3, <1>4
<1>6. h \in Seq(Seq(Unit)) /\ Len(h) = 2 /\ h[2] = c.nonce
  <2>1. CertAlgo(algo) \in Seq(Unit) /\ c.nonce \in Seq(Unit)
    BY AlgoFound DEF Encodable, Certs
  <2> QED BY <2>1
<1>7. k \in Seq(Seq(Unit)) /\ n = Len(k) + 2
  <2>1. kf \in Seq(Field) /\ KindsOf(kf) = Strings(FieldCount[algo])
    BY DEF KeyIs
  <2>2. k \in Seq(Seq(Unit)) /\ Len(k) = Len(kf) /\ Len(KindsOf(kf)) = Len(kf)
    BY <2>1, FieldsAre
  <2>3. algo \in DOMAIN FieldCount
    BY DEF Encodable, Certs
  <2>4. FieldCount[algo] \in Nat
    BY <2>3, FormatAssumption
  <2> HIDE DEF algo
  <2>5. Len(Strings(FieldCount[algo])) = FieldCount[algo]
    BY <2>4 DEF Strings
  <2> QED BY <2>1, <2>2, <2>5
<1>8. t \in Seq(Seq(Unit))
  <2> DEFINE B == CertBody(c)
             s == <<Str(c.signature)>>
  <2>1. B \in Seq(Field)
    BY BodyIs
  <2>2. ValsOf(F) \in Seq(Seq(Unit))
    BY <1>1, FieldsAre
  <2>3. /\ c.keyID \in Seq(Unit) /\ PackStringList(c.validPrincipals) \in Seq(Unit)
        /\ PackOptions(c.criticalOptions) \in Seq(Unit)
        /\ PackOptions(c.extensions) \in Seq(Unit)
        /\ c.reserved \in Seq(Unit) /\ c.signatureKey \in Seq(Unit)
        /\ c.signature \in Seq(Unit)
    BY DEF Encodable, Fits
  <2>4. /\ PutUint64(c.serial) \in Seq(Unit) /\ PutUint64(c.validAfter) \in Seq(Unit)
        /\ PutUint64(c.validBefore) \in Seq(Unit) /\ PutUint32(c.certType) \in Seq(Unit)
    <3>1. /\ c.serial \in 0 .. MaxUint64 /\ c.validAfter \in 0 .. MaxUint64
          /\ c.validBefore \in 0 .. MaxUint64 /\ c.certType \in Unit
      BY CertTypeIsUnit DEF Encodable, Certs
    <3> QED BY <3>1, NumberUnits, SmallNumber
  <2> QED BY <2>3, <2>4 DEF BodyVals
<1> HIDE DEF h, k, t, n
<1>9. /\ v[2] = h[2] /\ SubSeq(v, 3, n) = k /\ SubSeq(v, n + 1, Len(v)) = t
  <2> DEFINE U == Seq(Unit)
  <2>1. h \in Seq(U) /\ k \in Seq(U) /\ t \in Seq(U) /\ Len(h) = 2 /\ n = Len(k) + 2
    BY <1>6, <1>7, <1>8
  <2> HIDE DEF U
  <2>2. HasParts((h \o k) \o t, h, k, t, n)
    BY <2>1, Middle
  <2> HIDE DEF v
  <2>3. HasParts(v, h, k, t, n)
    BY <2>2 DEF v
  <2> QED BY <2>3 DEF HasParts
<1> HIDE DEF v
<1>10. Got(v, <<>>).ok = TRUE /\ Got(v, <<>>).val = v /\ Got(v, <<>>).rest = <<>>
  BY GotFields
<1> QED BY <1>2, <1>5, <1>6, <1>9, <1>10 DEF K, b, k, t, n

\* A certificate is its fields.
LEMMA CertIs ==
  ASSUME NEW c \in Certs
  PROVE  c = [nonce |-> c.nonce, key |-> c.key, serial |-> c.serial,
               certType |-> c.certType, keyID |-> c.keyID,
               validPrincipals |-> c.validPrincipals, validAfter |-> c.validAfter,
               validBefore |-> c.validBefore,
               criticalOptions |-> c.criticalOptions,
               extensions |-> c.extensions, reserved |-> c.reserved,
               signatureKey |-> c.signatureKey, signature |-> c.signature]
<1> DEFINE A1 == Seq(Unit)
           A2 == [algo : DOMAIN FieldCount, blob : Seq(Unit)]
           A3 == 0 .. MaxUint64
           A4 == {UserCert, HostCert}
           A5 == Seq(Seq(Unit))
           A6 == Seq(Option)
<1>1. c \in [nonce           : A1,
   key             : A2,
   serial          : A3,
   certType        : A4,
   keyID           : A1,
   validPrincipals : A5,
   validAfter      : A3,
   validBefore     : A3,
   criticalOptions : A6,
   extensions      : A6,
   reserved        : A1,
   signatureKey    : A1,
   signature       : A1]
  BY DEF Certs
<1> HIDE DEF A1, A2, A3, A4, A5, A6
<1> QED BY <1>1

\* A certificate with other options.
LEMMA CertWith ==
  ASSUME NEW c \in Certs, NEW x, NEW y
  PROVE  [c EXCEPT !.criticalOptions = x, !.extensions = y] = [nonce |-> c.nonce, key |-> c.key, serial |-> c.serial,
               certType |-> c.certType, keyID |-> c.keyID,
               validPrincipals |-> c.validPrincipals, validAfter |-> c.validAfter,
               validBefore |-> c.validBefore,
               criticalOptions |-> x,
               extensions |-> y, reserved |-> c.reserved,
               signatureKey |-> c.signatureKey, signature |-> c.signature]
<1> DEFINE a1 == c.nonce
           a2 == c.key
           a3 == c.serial
           a4 == c.certType
           a5 == c.keyID
           a6 == c.validPrincipals
           a7 == c.validAfter
           a8 == c.validBefore
           a9 == c.criticalOptions
           b1 == c.extensions
           b2 == c.reserved
           b3 == c.signatureKey
           b4 == c.signature
           r == [nonce |-> a1, key |-> a2, serial |-> a3, certType |-> a4, keyID |-> a5,
                 validPrincipals |-> a6, validAfter |-> a7, validBefore |-> a8,
                 criticalOptions |-> a9, extensions |-> b1, reserved |-> b2,
                 signatureKey |-> b3, signature |-> b4]
           t == [nonce |-> a1, key |-> a2, serial |-> a3, certType |-> a4, keyID |-> a5,
                 validPrincipals |-> a6, validAfter |-> a7, validBefore |-> a8,
                 criticalOptions |-> x, extensions |-> y, reserved |-> b2,
                 signatureKey |-> b3, signature |-> b4]
           u == [nonce |-> a1, key |-> a2, serial |-> a3, certType |-> a4, keyID |-> a5,
                 validPrincipals |-> a6, validAfter |-> a7, validBefore |-> a8,
                 criticalOptions |-> x, extensions |-> b1, reserved |-> b2,
                 signatureKey |-> b3, signature |-> b4]
<1>1. c = r
  BY CertIs
<1> HIDE DEF a1, a2, a3, a4, a5, a6, a7, a8, a9, b1, b2, b3, b4
<1>2. [r EXCEPT !.criticalOptions = x] = u
  OBVIOUS
<1>3. [u EXCEPT !.extensions = y] = t
  OBVIOUS
<1>4. [c EXCEPT !.criticalOptions = x, !.extensions = y] =
        [[c EXCEPT !.criticalOptions = x] EXCEPT !.extensions = y]
  OBVIOUS
<1> HIDE DEF r, t, u
<1>5. [c EXCEPT !.criticalOptions = x, !.extensions = y] = t
  BY <1>1, <1>2, <1>3, <1>4
<1> QED BY <1>5 DEF t, a1, a2, a3, a4, a5, a6, a7, a8, a9, b1, b2, b3, b4

\* What was parsed.
LEMMA ParsedFields == \A v : Parsed(v).ok = TRUE /\ Parsed(v).val = v
BY DEF Parsed

\* The values after the key give the certificate back.
LEMMA BodyRead ==
  ASSUME NEW c, Encodable(c)
  PROVE  LET b == BodyVals(c)
         IN  /\ Uint64(b[1]) = c.serial /\ Uint32(b[2]) = c.certType /\ b[3] = c.keyID
             /\ GetStringList(b[4]) = Got(c.validPrincipals, <<>>)
             /\ Uint64(b[5]) = c.validAfter /\ Uint64(b[6]) = c.validBefore
             /\ UnpackOptions(b[7]) = Parsed(SortedByName(c.criticalOptions))
             /\ UnpackOptions(b[8]) = Parsed(SortedByName(c.extensions))
             /\ b[9] = c.reserved /\ b[10] = c.signatureKey /\ b[11] = c.signature
<1>1. /\ BodyVals(c)[1] = PutUint64(c.serial) /\ BodyVals(c)[2] = PutUint32(c.certType)
      /\ BodyVals(c)[3] = c.keyID
      /\ BodyVals(c)[4] = PackStringList(c.validPrincipals)
      /\ BodyVals(c)[5] = PutUint64(c.validAfter)
      /\ BodyVals(c)[6] = PutUint64(c.validBefore)
      /\ BodyVals(c)[7] = PackOptions(c.criticalOptions)
      /\ BodyVals(c)[8] = PackOptions(c.extensions)
      /\ BodyVals(c)[9] = c.reserved /\ BodyVals(c)[10] = c.signatureKey
      /\ BodyVals(c)[11] = c.signature
  BY DEF BodyVals
<1>2. /\ c.serial \in 0 .. MaxUint64 /\ c.validAfter \in 0 .. MaxUint64
      /\ c.validBefore \in 0 .. MaxUint64 /\ c.certType \in Unit
  BY CertTypeIsUnit DEF Encodable, Certs
<1>3. /\ Uint64(PutUint64(c.serial)) = c.serial
      /\ Uint64(PutUint64(c.validAfter)) = c.validAfter
      /\ Uint64(PutUint64(c.validBefore)) = c.validBefore
      /\ Uint32(PutUint32(c.certType)) = c.certType
  BY <1>2, NumberUnits, SmallNumber
<1>4. GetStringList(PackStringList(c.validPrincipals)) = Got(c.validPrincipals, <<>>)
  <2>1. /\ c.validPrincipals \in Seq(Seq(Unit))
        /\ \A i \in DOMAIN c.validPrincipals : Fits(c.validPrincipals[i])
    BY DEF Encodable, Certs
  <2> DEFINE p == c.validPrincipals
  <2> HIDE DEF p
  <2> QED BY <2>1, StringListRead DEF p
<1>5. /\ UnpackOptions(PackOptions(c.criticalOptions)) = Parsed(SortedByName(c.criticalOptions))
      /\ UnpackOptions(PackOptions(c.extensions)) = Parsed(SortedByName(c.extensions))
  <2>1. c.criticalOptions \in Seq(Option) /\ c.extensions \in Seq(Option)
    BY DEF Encodable, Certs
  <2> QED BY <2>1, OptionsRead
<1> QED BY <1>1, <1>3, <1>4, <1>5

\* A line is read as the certificate it was made of.
THEOREM LineRead ==
  ASSUME NEW c, Encodable(c), NEW kf, KeyIs(c.key, kf)
  PROVE  ParseCertificate(MarshalLine(c).blob) = Parsed(Canonical(c))
<1> DEFINE blob == MarshalLine(c).blob
           algo == c.key.algo
           f == Read(blob, CertFields(algo))
           n == FieldCount[algo] + 2
           b == BodyVals(c)
           parts == SubSeq(f.val, n + 1, Len(f.val))
           ks == SubSeq(f.val, 3, n)
           record == [nonce           |-> f.val[2],
                      key             |-> [algo |-> algo,
                                           blob |-> PutBytes32(algo) \o PackStringList(ks)],
                      serial          |-> Uint64(parts[1]),
                      certType        |-> Uint32(parts[2]),
                      keyID           |-> parts[3],
                      validPrincipals |-> GetStringList(parts[4]).val,
                      validAfter      |-> Uint64(parts[5]),
                      validBefore     |-> Uint64(parts[6]),
                      criticalOptions |-> UnpackOptions(parts[7]).val,
                      extensions      |-> UnpackOptions(parts[8]).val,
                      reserved        |-> parts[9],
                      signatureKey    |-> parts[10],
                      signature       |-> parts[11]]
<1>1. GetBytes32(blob).ok /\ GetBytes32(blob).val = CertAlgo(algo)
  BY LineBegins
<1>2. algo \in DOMAIN FieldCount /\ c.certType \in {UserCert, HostCert}
  BY DEF Encodable, Certs
<1>3. BaseAlgo(CertAlgo(algo)) = Parsed(algo)
  BY <1>2, AlgoFound
<1>4. ParseCertificate(blob) = CertificateOf(algo, f)
  <2>1. Parsed(algo).ok = TRUE /\ Parsed(algo).val = algo
    BY ParsedFields
  <2> HIDE DEF blob, algo
  <2> QED BY <1>1, <1>3, <2>1 DEF ParseCertificate
<1>5. /\ f.ok /\ f.rest = <<>> /\ f.val[2] = c.nonce /\ ks = ValsOf(kf) /\ parts = b
  BY LineFields
<1>6. CertificateOf(algo, f) =
        IF /\ f.ok /\ f.rest = <<>> /\ Uint32(parts[2]) \in {UserCert, HostCert}
           /\ GetStringList(parts[4]).ok /\ UnpackOptions(parts[7]).ok
           /\ UnpackOptions(parts[8]).ok
        THEN Parsed(record) ELSE Refused
  BY DEF CertificateOf
<1>7. PutBytes32(algo) \o PackStringList(ks) = c.key.blob
  <2>1. /\ kf \in Seq(Field) /\ KindsOf(kf) = Strings(FieldCount[algo])
        /\ c.key.blob = PutBytes32(algo) \o Bytes(kf)
    BY DEF KeyIs
  <2>2. \A i \in 1 .. Len(kf) : kf[i].kind = "string"
    <3>1. DOMAIN kf = 1 .. Len(kf)
      BY <2>1
    <3>2. \A i \in DOMAIN kf : KindsOf(kf)[i] = kf[i].kind
      BY DEF KindsOf
    <3>3. DOMAIN KindsOf(kf) = DOMAIN kf
      BY DEF KindsOf
    <3>4. \A i \in DOMAIN Strings(FieldCount[algo]) : Strings(FieldCount[algo])[i] = "string"
      BY DEF Strings
    <3> HIDE DEF algo
    <3> QED BY <2>1, <3>1, <3>2, <3>3, <3>4
  <2>3. PackStringList(ValsOf(kf)) = Bytes(kf)
    BY <2>1, <2>2, StringFields
  <2> QED BY <1>5, <2>1, <2>3
<1>8. c.key = [algo |-> algo, blob |-> c.key.blob]
  BY DEF Encodable, Certs
<1>9. /\ Uint64(b[1]) = c.serial /\ Uint32(b[2]) = c.certType /\ b[3] = c.keyID
      /\ GetStringList(b[4]) = Got(c.validPrincipals, <<>>)
      /\ Uint64(b[5]) = c.validAfter /\ Uint64(b[6]) = c.validBefore
      /\ UnpackOptions(b[7]) = Parsed(SortedByName(c.criticalOptions))
      /\ UnpackOptions(b[8]) = Parsed(SortedByName(c.extensions))
      /\ b[9] = c.reserved /\ b[10] = c.signatureKey /\ b[11] = c.signature
  BY BodyRead
<1>10. /\ Got(c.validPrincipals, <<>>).ok = TRUE
       /\ Got(c.validPrincipals, <<>>).val = c.validPrincipals
       /\ Parsed(SortedByName(c.criticalOptions)).ok = TRUE
       /\ Parsed(SortedByName(c.criticalOptions)).val = SortedByName(c.criticalOptions)
       /\ Parsed(SortedByName(c.extensions)).ok = TRUE
       /\ Parsed(SortedByName(c.extensions)).val = SortedByName(c.extensions)
  BY GotFields, ParsedFields
<1> HIDE DEF blob, algo, f, b, parts, ks
<1>11. /\ Uint32(parts[2]) \in {UserCert, HostCert} /\ GetStringList(parts[4]).ok
       /\ UnpackOptions(parts[7]).ok /\ UnpackOptions(parts[8]).ok
  BY <1>2, <1>5, <1>9, <1>10
<1>12. CertificateOf(algo, f) = Parsed(record)
  <2> HIDE DEF record
  <2> QED BY <1>5, <1>6, <1>11
<1>13. record = [nonce           |-> c.nonce,
                 key             |-> c.key,
                 serial          |-> c.serial,
                 certType        |-> c.certType,
                 keyID           |-> c.keyID,
                 validPrincipals |-> c.validPrincipals,
                 validAfter      |-> c.validAfter,
                 validBefore     |-> c.validBefore,
                 criticalOptions |-> SortedByName(c.criticalOptions),
                 extensions      |-> SortedByName(c.extensions),
                 reserved        |-> c.reserved,
                 signatureKey    |-> c.signatureKey,
                 signature       |-> c.signature]
  <2>1. [algo |-> algo, blob |-> PutBytes32(algo) \o PackStringList(ks)] = c.key
    BY <1>7, <1>8
  <2>2. /\ f.val[2] = c.nonce /\ Uint64(parts[1]) = c.serial /\ Uint32(parts[2]) = c.certType
        /\ parts[3] = c.keyID /\ GetStringList(parts[4]).val = c.validPrincipals
        /\ Uint64(parts[5]) = c.validAfter /\ Uint64(parts[6]) = c.validBefore
        /\ UnpackOptions(parts[7]).val = SortedByName(c.criticalOptions)
        /\ UnpackOptions(parts[8]).val = SortedByName(c.extensions)
        /\ parts[9] = c.reserved /\ parts[10] = c.signatureKey /\ parts[11] = c.signature
    BY <1>5, <1>9, <1>10
  <2> QED BY <2>1, <2>2
<1>14. Canonical(c) = [nonce           |-> c.nonce,
                       key             |-> c.key,
                       serial          |-> c.serial,
                       certType        |-> c.certType,
                       keyID           |-> c.keyID,
                       validPrincipals |-> c.validPrincipals,
                       validAfter      |-> c.validAfter,
                       validBefore     |-> c.validBefore,
                       criticalOptions |-> SortedByName(c.criticalOptions),
                       extensions      |-> SortedByName(c.extensions),
                       reserved        |-> c.reserved,
                       signatureKey    |-> c.signatureKey,
                       signature       |-> c.signature]
  <2>1. c \in Certs
    BY DEF Encodable
  <2> QED BY <2>1, CertWith DEF Canonical
<1> HIDE DEF record
<1>15. ParseCertificate(blob) = Parsed(Canonical(c))
  BY <1>4, <1>12, <1>13, <1>14
<1> QED BY <1>15 DEF blob

\* A certificate is read of a known algorithm, of all of its fields and of nothing else.
LEMMA ParseNeeds ==
  ASSUME NEW b, ParseCertificate(b).ok
  PROVE  LET algo == BaseAlgo(GetBytes32(b).val).val
             f    == Read(b, CertFields(algo))
         IN  /\ GetBytes32(b).ok /\ BaseAlgo(GetBytes32(b).val).ok
             /\ ParseCertificate(b) = CertificateOf(algo, f)
             /\ f.ok /\ f.rest = <<>>
<1> DEFINE r == BaseAlgo(GetBytes32(b).val)
           f == Read(b, CertFields(r.val))
<1>1. Refused.ok = FALSE
  BY DEF Refused
<1>2. GetBytes32(b).ok /\ r.ok /\ ParseCertificate(b) = CertificateOf(r.val, f)
  <2> DEFINE a == IF GetBytes32(b).ok THEN r ELSE Refused
  <2>1. ParseCertificate(b) =
          IF a.ok THEN CertificateOf(a.val, Read(b, CertFields(a.val))) ELSE Refused
    BY DEF ParseCertificate
  <2> HIDE DEF r
  <2>2. a.ok
    BY <1>1, <2>1
  <2>3. GetBytes32(b).ok /\ a = r
    BY <1>1, <2>2
  <2> HIDE DEF a
  <2> QED BY <2>1, <2>2, <2>3 DEF f
<1> HIDE DEF f, r
<1>3. CertificateOf(r.val, f).ok
  BY <1>2
<1>4. f.ok /\ f.rest = <<>>
  BY <1>1, <1>3 DEF CertificateOf
<1> QED BY <1>2, <1>4 DEF f, r

\* A certificate that goes on is none.
LEMMA LineExtended ==
  ASSUME NEW c, Encodable(c), NEW kf, KeyIs(c.key, kf), NEW x \in Seq(Unit), x # <<>>
  PROVE  ~ ParseCertificate(MarshalLine(c).blob \o x).ok
<1> DEFINE B == MarshalLine(c).blob
           algo == c.key.algo
           K == CertFields(algo)
<1>1. B \in Seq(Unit) /\ GetBytes32(B).ok /\ GetBytes32(B).val = CertAlgo(algo)
  BY LineBegins
<1>2. K \in Seq(Kinds) /\ Read(B, K).ok /\ Read(B, K).rest = <<>>
  BY LineFields
<1>3. BaseAlgo(CertAlgo(algo)) = Parsed(algo)
  BY AlgoFound DEF Encodable, Certs
<1> HIDE DEF B, K, algo
<1>4. GetBytes32(B \o x).val = CertAlgo(algo)
  <2>1. GetBytes32(B \o x) = Got(GetBytes32(B).val, GetBytes32(B).rest \o x)
    BY <1>1, StringExtends
  <2> QED BY <1>1, <2>1, GotFields
<1>5. Read(B \o x, K).rest = x
  <2>1. Read(B \o x, K) = Got(Read(B, K).val, Read(B, K).rest \o x)
    BY <1>1, <1>2, ReadExtends
  <2>2. <<>> \o x = x
    OBVIOUS
  <2> QED BY <1>2, <2>1, <2>2, GotFields
<1>6. ASSUME ParseCertificate(B \o x).ok PROVE FALSE
  <2>1. Read(B \o x, CertFields(BaseAlgo(GetBytes32(B \o x).val).val)).rest = <<>>
    BY <1>6, ParseNeeds
  <2>2. BaseAlgo(GetBytes32(B \o x).val).val = algo
    BY <1>3, <1>4, ParsedFields
  <2> QED BY <1>5, <2>1, <2>2 DEF K
<1> QED BY <1>6 DEF B

\* The beginning of a certificate is none.
LEMMA LineCut ==
  ASSUME NEW c, Encodable(c), NEW kf, KeyIs(c.key, kf),
         NEW p \in Seq(Unit), NEW x \in Seq(Unit), x # <<>>, p \o x = MarshalLine(c).blob
  PROVE  ~ ParseCertificate(p).ok
<1> DEFINE B == MarshalLine(c).blob
           algo == c.key.algo
           K == CertFields(algo)
<1>1. B \in Seq(Unit) /\ GetBytes32(B).ok /\ GetBytes32(B).val = CertAlgo(algo)
  BY LineBegins
<1>2. K \in Seq(Kinds) /\ Read(B, K).ok /\ Read(B, K).rest = <<>>
  BY LineFields
<1>3. BaseAlgo(CertAlgo(algo)) = Parsed(algo)
  BY AlgoFound DEF Encodable, Certs
<1>4. p \o x = B
  OBVIOUS
<1> HIDE DEF B, K, algo
<1>5. ASSUME ParseCertificate(p).ok PROVE FALSE
  <2> DEFINE a == BaseAlgo(GetBytes32(p).val).val
  <2>1. GetBytes32(p).ok /\ Read(p, CertFields(a)).ok /\ Read(p, CertFields(a)).rest = <<>>
    BY <1>5, ParseNeeds
  <2>2. GetBytes32(p \o x) = Got(GetBytes32(p).val, GetBytes32(p).rest \o x)
    BY <2>1, StringExtends
  <2>3. GetBytes32(p).val = CertAlgo(algo)
    BY <1>1, <1>4, <2>2, GotFields
  <2>4. a = algo
    BY <1>3, <2>3, ParsedFields
  <2>5. Read(p, K).ok /\ Read(p, K).rest = <<>>
    BY <2>1, <2>4 DEF K
  <2>6. Read(p \o x, K) = Got(Read(p, K).val, Read(p, K).rest \o x)
    BY <1>2, <2>5, ReadExtends
  <2>7. <<>> \o x = x
    OBVIOUS
  <2>8. Read(p \o x, K).rest = x
    BY <2>5, <2>6, <2>7, GotFields
  <2> QED BY <1>2, <1>4, <2>8
<1> QED BY <1>5

\* A certificate name that is accepted stands for a known algorithm.
LEMMA BaseAlgoKnown ==
  ASSUME NEW name, BaseAlgo(name).ok PROVE BaseAlgo(name).val \in DOMAIN FieldCount
<1>1. Refused.ok = FALSE
  BY DEF Refused
<1> QED BY <1>1 DEF BaseAlgo, Parsed

\* The fields of a certificate: strings, and the eleven that follow the key.
LEMMA CertFieldsAre ==
  ASSUME NEW algo \in DOMAIN FieldCount
  PROVE  LET n == FieldCount[algo] + 2
             K == CertFields(algo)
         IN  /\ FieldCount[algo] \in Nat /\ n \in Nat /\ K \in Seq(Kinds) /\ Len(K) = n + 11
             /\ \A i \in 1 .. n : K[i] = "string"
             /\ K[n + 1] = "uint64" /\ K[n + 2] = "uint32" /\ K[n + 3] = "string"
             /\ K[n + 4] = "string" /\ K[n + 5] = "uint64" /\ K[n + 6] = "uint64"
             /\ K[n + 7] = "string" /\ K[n + 8] = "string" /\ K[n + 9] = "string"
             /\ K[n + 10] = "string" /\ K[n + 11] = "string"
<1> DEFINE n == FieldCount[algo] + 2
           s == Strings(n)
           t == <<"uint64", "uint32", "string", "string", "uint64", "uint64",
                  "string", "string", "string", "string", "string">>
           K == s \o t
<1>1. FieldCount[algo] \in Nat /\ n \in Nat
  BY FormatAssumption
<1> HIDE DEF n
<1>2. s \in Seq(Kinds) /\ Len(s) = n /\ \A i \in 1 .. n : s[i] = "string"
  BY <1>1 DEF Strings, Kinds
<1>3. t \in Seq(Kinds) /\ Len(t) = 11
  BY DEF Kinds
<1>4. /\ t[1] = "uint64" /\ t[2] = "uint32" /\ t[3] = "string" /\ t[4] = "string"
      /\ t[5] = "uint64" /\ t[6] = "uint64" /\ t[7] = "string" /\ t[8] = "string"
      /\ t[9] = "string" /\ t[10] = "string" /\ t[11] = "string"
  OBVIOUS
<1> HIDE DEF s, t
<1>5. /\ K \in Seq(Kinds) /\ Len(K) = Len(s) + Len(t)
      /\ \A i \in 1 .. Len(s) + Len(t) : K[i] = IF i <= Len(s) THEN s[i] ELSE t[i - Len(s)]
  BY <1>2, <1>3, ConcatProperties
<1> HIDE DEF K
<1>6. Len(K) = n + 11 /\ \A i \in 1 .. n : K[i] = "string"
  BY <1>1, <1>2, <1>3, <1>5
<1>7. ASSUME NEW j \in 1 .. 11 PROVE K[n + j] = t[j]
  <2>1. n + j \in 1 .. Len(s) + Len(t) /\ ~ (n + j <= Len(s)) /\ (n + j) - Len(s) = j
    BY <1>1, <1>2, <1>3
  <2> QED BY <1>5, <2>1
<1>8. /\ K[n + 1] = t[1] /\ K[n + 2] = t[2] /\ K[n + 3] = t[3] /\ K[n + 4] = t[4]
      /\ K[n + 5] = t[5] /\ K[n + 6] = t[6] /\ K[n + 7] = t[7] /\ K[n + 8] = t[8]
      /\ K[n + 9] = t[9] /\ K[n + 10] = t[10] /\ K[n + 11] = t[11]
  <2>1. /\ 1 \in 1 .. 11 /\ 2 \in 1 .. 11 /\ 3 \in 1 .. 11 /\ 4 \in 1 .. 11 /\ 5 \in 1 .. 11
        /\ 6 \in 1 .. 11 /\ 7 \in 1 .. 11 /\ 8 \in 1 .. 11 /\ 9 \in 1 .. 11
        /\ 10 \in 1 .. 11 /\ 11 \in 1 .. 11
    OBVIOUS
  <2> QED BY <1>7, <2>1
<1>9. K = CertFields(algo)
  BY DEF K, s, t, n, CertFields
<1> QED BY <1>1, <1>4, <1>5, <1>6, <1>8, <1>9 DEF n

\* A piece of a sequence.
LEMMA PieceIs ==
  ASSUME NEW S, NEW s \in Seq(S), NEW a \in Nat, a >= 1, NEW z \in Nat, z <= Len(s), a <= z + 1
  PROVE  /\ SubSeq(s, a, z) \in Seq(S) /\ Len(SubSeq(s, a, z)) = (z - a) + 1
         /\ \A i \in 1 .. (z - a) + 1 : SubSeq(s, a, z)[i] = s[(a + i) - 1]
OBVIOUS

\* The values read as the fields of a certificate.
LEMMA CertValues ==
  ASSUME NEW b \in Seq(Unit), NEW algo \in DOMAIN FieldCount, Read(b, CertFields(algo)).ok
  PROVE  LET f == Read(b, CertFields(algo))
             n == FieldCount[algo] + 2
             v == SubSeq(f.val, n + 1, Len(f.val))
         IN  /\ Fits(f.val[2])
             /\ \E kf \in Seq(Field) : /\ KindsOf(kf) = Strings(FieldCount[algo])
                                       /\ ValsOf(kf) = SubSeq(f.val, 3, n)
             /\ v[1] \in Seq(Unit) /\ Len(v[1]) = 2 /\ Fits(v[3]) /\ Fits(v[4])
             /\ v[5] \in Seq(Unit) /\ Len(v[5]) = 2 /\ v[6] \in Seq(Unit) /\ Len(v[6]) = 2
             /\ Fits(v[7]) /\ Fits(v[8]) /\ Fits(v[9]) /\ Fits(v[10]) /\ Fits(v[11])
<1> DEFINE K == CertFields(algo)
           m == FieldCount[algo]
           n == m + 2
<1>1. /\ m \in Nat /\ n \in Nat /\ K \in Seq(Kinds) /\ Len(K) = n + 11
      /\ \A i \in 1 .. n : K[i] = "string"
      /\ K[n + 1] = "uint64" /\ K[n + 2] = "uint32" /\ K[n + 3] = "string"
      /\ K[n + 4] = "string" /\ K[n + 5] = "uint64" /\ K[n + 6] = "uint64"
      /\ K[n + 7] = "string" /\ K[n + 8] = "string" /\ K[n + 9] = "string"
      /\ K[n + 10] = "string" /\ K[n + 11] = "string"
  BY CertFieldsAre
<1>2. Read(b, K).ok
  OBVIOUS
<1> HIDE DEF K, m
<1>3. PICK F \in Seq(Field), r \in Seq(Unit) :
        KindsOf(F) = K /\ Read(b, K) = Got(ValsOf(F), r)
  BY <1>1, <1>2, FieldsReadAreWritten
<1> DEFINE val == ValsOf(F)
<1>4. Read(b, K).val = val
  BY <1>3, GotFields
<1>5. Len(F) = n + 11 /\ val \in Seq(Seq(Unit)) /\ Len(val) = n + 11
  <2>1. Len(KindsOf(F)) = Len(F) /\ val \in Seq(Seq(Unit)) /\ Len(val) = Len(F)
    BY FieldsAre
  <2> QED BY <1>1, <1>3, <2>1
<1>6. ASSUME NEW i \in 1 .. n + 11
      PROVE  /\ F[i] \in Field /\ F[i].kind = K[i] /\ F[i].val = val[i]
             /\ FieldOK(K[i], val[i]) /\ val[i] \in Seq(Unit)
  <2>1. DOMAIN F = 1 .. n + 11
    BY <1>5
  <2>2. F[i] \in Field
    BY <1>5, <2>1, ElementOf
  <2>3. KindsOf(F)[i] = F[i].kind /\ val[i] = F[i].val
    BY <2>1 DEF KindsOf, ValsOf
  <2>4. FieldOK(F[i].kind, F[i].val) /\ F[i].val \in Seq(Unit)
    BY <2>2, FieldIs
  <2> QED BY <1>3, <2>2, <2>3, <2>4
<1>7. /\ \A v : FieldOK("string", v) => Fits(v)
      /\ \A v : FieldOK("uint64", v) => v \in Seq(Unit) /\ Len(v) = 2
  BY DEF FieldOK, Fits
<1> HIDE DEF val, n
<1>8. Fits(val[2])
  <2>1. 2 \in 1 .. n + 11 /\ 2 \in 1 .. n
    BY <1>1 DEF n
  <2>2. K[2] = "string" /\ FieldOK(K[2], val[2])
    BY <1>1, <1>6, <2>1
  <2> QED BY <1>7, <2>2
<1>9. /\ val[n + 1] \in Seq(Unit) /\ Len(val[n + 1]) = 2
      /\ Fits(val[n + 3]) /\ Fits(val[n + 4])
      /\ val[n + 5] \in Seq(Unit) /\ Len(val[n + 5]) = 2
      /\ val[n + 6] \in Seq(Unit) /\ Len(val[n + 6]) = 2
      /\ Fits(val[n + 7]) /\ Fits(val[n + 8]) /\ Fits(val[n + 9]) /\ Fits(val[n + 10])
      /\ Fits(val[n + 11])
  <2>1. /\ n + 1 \in 1 .. n + 11 /\ n + 3 \in 1 .. n + 11 /\ n + 4 \in 1 .. n + 11
        /\ n + 5 \in 1 .. n + 11 /\ n + 6 \in 1 .. n + 11 /\ n + 7 \in 1 .. n + 11
        /\ n + 8 \in 1 .. n + 11 /\ n + 9 \in 1 .. n + 11 /\ n + 10 \in 1 .. n + 11
        /\ n + 11 \in 1 .. n + 11
    BY <1>1
  <2>2. /\ FieldOK("uint64", val[n + 1]) /\ FieldOK("string", val[n + 3])
        /\ FieldOK("string", val[n + 4]) /\ FieldOK("uint64", val[n + 5])
        /\ FieldOK("uint64", val[n + 6]) /\ FieldOK("string", val[n + 7])
        /\ FieldOK("string", val[n + 8]) /\ FieldOK("string", val[n + 9])
        /\ FieldOK("string", val[n + 10]) /\ FieldOK("string", val[n + 11])
    BY <1>1, <1>6, <2>1
  <2> QED BY <1>7, <2>2
<1>10. \E kf \in Seq(Field) : KindsOf(kf) = Strings(m) /\ ValsOf(kf) = SubSeq(val, 3, n)
  <2> DEFINE kf == SubSeq(F, 3, n)
             w == SubSeq(val, 3, n)
  <2>1. /\ kf \in Seq(Field) /\ Len(kf) = m
        /\ \A i \in 1 .. m : kf[i] = F[i + 2]
    <3>1. n <= Len(F) /\ 3 <= n + 1 /\ 3 >= 1 /\ 3 \in Nat /\ n \in Nat /\ (n - 3) + 1 = m
          /\ \A i \in 1 .. m : (3 + i) - 1 = i + 2
      BY <1>1, <1>5 DEF n
    <3> QED BY <3>1, PieceIs
  <2>2. /\ w \in Seq(Seq(Unit)) /\ Len(w) = m
        /\ \A i \in 1 .. m : w[i] = val[i + 2]
    <3> DEFINE U == Seq(Unit)
    <3>1. n <= Len(val) /\ 3 <= n + 1 /\ 3 >= 1 /\ 3 \in Nat /\ n \in Nat /\ (n - 3) + 1 = m
          /\ val \in Seq(U) /\ \A i \in 1 .. m : (3 + i) - 1 = i + 2
      BY <1>1, <1>5 DEF n
    <3> HIDE DEF U
    <3>2. /\ w \in Seq(U) /\ Len(w) = (n - 3) + 1
          /\ \A i \in 1 .. (n - 3) + 1 : w[i] = val[(3 + i) - 1]
      BY <3>1, PieceIs
    <3> HIDE DEF w
    <3> QED BY <3>1, <3>2 DEF U
  <2> HIDE DEF kf, w
  <2>3. \A i \in 1 .. m : i + 2 \in 1 .. n /\ i + 2 \in 1 .. n + 11
    BY <1>1 DEF n
  <2>4. KindsOf(kf) \in Seq(Kinds) /\ Len(KindsOf(kf)) = m
        /\ ValsOf(kf) \in Seq(Seq(Unit)) /\ Len(ValsOf(kf)) = m
    BY <2>1, FieldsAre
  <2>5. \A i \in 1 .. m : KindsOf(kf)[i] = kf[i].kind /\ ValsOf(kf)[i] = kf[i].val
    <3>1. DOMAIN kf = 1 .. m
      BY <2>1
    <3> QED BY <3>1 DEF KindsOf, ValsOf
  <2>6. \A i \in 1 .. m : kf[i].kind = "string" /\ kf[i].val = w[i]
    <3> TAKE i \in 1 .. m
    <3>1. i + 2 \in 1 .. n /\ i + 2 \in 1 .. n + 11
      BY <2>3
    <3>2. F[i + 2].kind = K[i + 2] /\ F[i + 2].val = val[i + 2] /\ K[i + 2] = "string"
      BY <1>1, <1>6, <3>1
    <3> QED BY <2>1, <2>2, <3>2
  <2>7. Strings(m) \in Seq(Kinds) /\ Len(Strings(m)) = m /\ \A i \in 1 .. m : Strings(m)[i] = "string"
    BY <1>1 DEF Strings, Kinds
  <2>8. KindsOf(kf) = Strings(m)
    <3> DEFINE x == KindsOf(kf)
               y == Strings(m)
    <3>1. x \in Seq(Kinds) /\ y \in Seq(Kinds) /\ Len(x) = Len(y) /\ \A i \in 1 .. Len(x) : x[i] = y[i]
      BY <2>4, <2>5, <2>6, <2>7
    <3> HIDE DEF x, y
    <3>2. x = y
      BY <3>1, SeqEqual
    <3> QED BY <3>2 DEF x, y
  <2>9. ValsOf(kf) = w
    <3> DEFINE x == ValsOf(kf)
               U == Seq(Unit)
    <3>1. x \in Seq(U) /\ w \in Seq(U) /\ Len(x) = Len(w) /\ \A i \in 1 .. Len(x) : x[i] = w[i]
      BY <2>2, <2>4, <2>5, <2>6
    <3> HIDE DEF x, U
    <3>2. x = w
      BY <3>1, SeqEqual
    <3> QED BY <3>2 DEF x
  <2> QED BY <2>1, <2>8, <2>9 DEF w
<1> DEFINE v == SubSeq(val, n + 1, Len(val))
<1>11. \A j \in 1 .. 11 : v[j] = val[n + j]
  <2> DEFINE U == Seq(Unit)
             a == n + 1
             z == Len(val)
  <2>1. /\ z \in Nat /\ a \in Nat /\ a >= 1 /\ z <= Len(val) /\ a <= z + 1
        /\ (z - a) + 1 = 11 /\ val \in Seq(U) /\ \A j \in 1 .. 11 : (a + j) - 1 = n + j
    BY <1>1, <1>5
  <2> HIDE DEF U, a, z
  <2>2. \A j \in 1 .. (z - a) + 1 : SubSeq(val, a, z)[j] = val[(a + j) - 1]
    <3>1. z \in Nat /\ a \in Nat /\ a >= 1 /\ z <= Len(val) /\ a <= z + 1 /\ val \in Seq(U)
      BY <2>1
    <3>2. /\ SubSeq(val, a, z) \in Seq(U) /\ Len(SubSeq(val, a, z)) = (z - a) + 1
          /\ \A j \in 1 .. (z - a) + 1 : SubSeq(val, a, z)[j] = val[(a + j) - 1]
      BY <3>1, PieceIs
    <3> QED BY <3>2
  <2>3. \A j \in 1 .. 11 : SubSeq(val, a, z)[j] = val[n + j]
    BY <2>1, <2>2
  <2> QED BY <2>3 DEF a, z
<1>12. /\ v[1] = val[n + 1] /\ v[3] = val[n + 3] /\ v[4] = val[n + 4] /\ v[5] = val[n + 5]
       /\ v[6] = val[n + 6] /\ v[7] = val[n + 7] /\ v[8] = val[n + 8] /\ v[9] = val[n + 9]
       /\ v[10] = val[n + 10] /\ v[11] = val[n + 11]
  <2> HIDE DEF v
  <2>1. /\ 1 \in 1 .. 11 /\ 3 \in 1 .. 11 /\ 4 \in 1 .. 11
        /\ 5 \in 1 .. 11 /\ 6 \in 1 .. 11 /\ 7 \in 1 .. 11 /\ 8 \in 1 .. 11 /\ 9 \in 1 .. 11
        /\ 10 \in 1 .. 11 /\ 11 \in 1 .. 11
    OBVIOUS
  <2> QED BY <1>11, <2>1
<1> QED BY <1>4, <1>8, <1>9, <1>10, <1>12 DEF K, m, n

\* Whatever is read as a certificate could have been written.
THEOREM ReadIsEncodable ==
  ASSUME NEW blob \in Seq(Unit), ParseCertificate(blob).ok
  PROVE  LET c == ParseCertificate(blob).val
         IN  Encodable(c) /\ \E kf : KeyIs(c.key, kf)
<1> DEFINE algo == BaseAlgo(GetBytes32(blob).val).val
           f == Read(blob, CertFields(algo))
           m == FieldCount[algo]
           n == m + 2
           parts == SubSeq(f.val, n + 1, Len(f.val))
           ks == SubSeq(f.val, 3, n)
           record == [nonce           |-> f.val[2],
                      key             |-> [algo |-> algo,
                                           blob |-> PutBytes32(algo) \o PackStringList(ks)],
                      serial          |-> Uint64(parts[1]),
                      certType        |-> Uint32(parts[2]),
                      keyID           |-> parts[3],
                      validPrincipals |-> GetStringList(parts[4]).val,
                      validAfter      |-> Uint64(parts[5]),
                      validBefore     |-> Uint64(parts[6]),
                      criticalOptions |-> UnpackOptions(parts[7]).val,
                      extensions      |-> UnpackOptions(parts[8]).val,
                      reserved        |-> parts[9],
                      signatureKey    |-> parts[10],
                      signature       |-> parts[11]]
<1>1. /\ BaseAlgo(GetBytes32(blob).val).ok /\ f.ok
      /\ ParseCertificate(blob) = CertificateOf(algo, f)
  BY ParseNeeds
<1>2. algo \in DOMAIN FieldCount
  BY <1>1, BaseAlgoKnown
<1>3. /\ Fits(f.val[2])
      /\ parts[1] \in Seq(Unit) /\ Len(parts[1]) = 2 /\ Fits(parts[3]) /\ Fits(parts[4])
      /\ parts[5] \in Seq(Unit) /\ Len(parts[5]) = 2 /\ parts[6] \in Seq(Unit)
      /\ Len(parts[6]) = 2
      /\ Fits(parts[7]) /\ Fits(parts[8]) /\ Fits(parts[9]) /\ Fits(parts[10])
      /\ Fits(parts[11])
  BY <1>1, <1>2, CertValues
<1>4. PICK kf \in Seq(Field) : KindsOf(kf) = Strings(m) /\ ValsOf(kf) = ks
  BY <1>1, <1>2, CertValues
<1>5. CertificateOf(algo, f) =
        IF /\ f.ok /\ f.rest = <<>> /\ Uint32(parts[2]) \in {UserCert, HostCert}
           /\ GetStringList(parts[4]).ok /\ UnpackOptions(parts[7]).ok
           /\ UnpackOptions(parts[8]).ok
        THEN Parsed(record) ELSE Refused
  BY DEF CertificateOf
<1>6. m \in Nat /\ algo \in Seq(Unit)
  BY <1>2, FormatAssumption
<1>7. \A i \in 1 .. Len(kf) : kf[i].kind = "string"
  <2> HIDE DEF m
  <2>1. DOMAIN kf = 1 .. Len(kf)
    BY <1>4
  <2>2. \A i \in DOMAIN kf : KindsOf(kf)[i] = kf[i].kind
    BY DEF KindsOf
  <2>3. DOMAIN KindsOf(kf) = DOMAIN kf
    BY DEF KindsOf
  <2>4. \A i \in DOMAIN Strings(m) : Strings(m)[i] = "string"
    BY DEF Strings
  <2> QED BY <1>4, <2>1, <2>2, <2>3, <2>4
<1>8. PackStringList(ks) = Bytes(kf) /\ Bytes(kf) \in Seq(Unit)
  <2>1. PackStringList(ValsOf(kf)) = Bytes(kf)
    BY <1>7, StringFields
  <2> QED BY <1>4, <2>1, FieldsAre
<1>9. PutBytes32(algo) \in Seq(Unit)
  <2>1. Fits(algo)
    <3>1. Len(algo) + 2 < Base /\ Len(algo) \in Nat /\ Base \in Nat
      BY <1>2, <1>6, FormatAssumption, BaseAssumption
    <3>2. Len(algo) < Base
      BY <3>1
    <3> QED BY <1>6, <3>2 DEF Fits
  <2> QED BY <2>1, PutString
<1> HIDE DEF algo, f, m, parts, ks
<1>10. /\ Uint32(parts[2]) \in {UserCert, HostCert} /\ GetStringList(parts[4]).ok
       /\ UnpackOptions(parts[7]).ok /\ UnpackOptions(parts[8]).ok
       /\ ParseCertificate(blob) = Parsed(record)
  <2> HIDE DEF record
  <2>1. Refused.ok = FALSE /\ ParseCertificate(blob).ok
    BY DEF Refused
  <2> QED BY <1>1, <1>5, <2>1
<1> DEFINE c == record
<1>11. /\ c.nonce = f.val[2] /\ c.key.algo = algo
       /\ c.key.blob = PutBytes32(algo) \o PackStringList(ks)
       /\ c.key = [algo |-> algo, blob |-> PutBytes32(algo) \o PackStringList(ks)]
       /\ c.serial = Uint64(parts[1]) /\ c.certType = Uint32(parts[2]) /\ c.keyID = parts[3]
       /\ c.validPrincipals = GetStringList(parts[4]).val
       /\ c.validAfter = Uint64(parts[5]) /\ c.validBefore = Uint64(parts[6])
       /\ c.criticalOptions = UnpackOptions(parts[7]).val
       /\ c.extensions = UnpackOptions(parts[8]).val
       /\ c.reserved = parts[9] /\ c.signatureKey = parts[10] /\ c.signature = parts[11]
  OBVIOUS
<1>12. c.key \in [algo : DOMAIN FieldCount, blob : Seq(Unit)]
  <2>1. PutBytes32(algo) \o PackStringList(ks) \in Seq(Unit)
    BY <1>8, <1>9
  <2> HIDE DEF record
  <2> QED BY <1>2, <1>11, <2>1
<1>13. /\ c.serial \in 0 .. MaxUint64 /\ c.validAfter \in 0 .. MaxUint64
       /\ c.validBefore \in 0 .. MaxUint64
  <2> HIDE DEF record
  <2>1. /\ Uint64(parts[1]) \in 0 .. MaxUint64 /\ Uint64(parts[5]) \in 0 .. MaxUint64
        /\ Uint64(parts[6]) \in 0 .. MaxUint64
    BY <1>3, UnitsNumber
  <2> QED BY <1>11, <2>1
<1>14. /\ c.validPrincipals \in Seq(Seq(Unit))
       /\ \A i \in DOMAIN c.validPrincipals : Fits(c.validPrincipals[i])
       /\ Fits(PackStringList(c.validPrincipals))
  <2> HIDE DEF record
  <2> DEFINE w == parts[4]
             items == GetStringList(w).val
  <2>1. w \in Seq(Unit) /\ GetStringList(w).ok /\ Fits(w)
    BY <1>3, <1>10 DEF Fits
  <2> HIDE DEF w
  <2>2. /\ items \in Seq(Seq(Unit)) /\ \A i \in DOMAIN items : Fits(items[i])
        /\ PackStringList(items) = w
    BY <2>1, StringListWritten
  <2>3. c.validPrincipals = items
    BY <1>11 DEF w
  <2> HIDE DEF items
  <2> QED BY <2>1, <2>2, <2>3
<1>15. ASSUME NEW w, Fits(w), UnpackOptions(w).ok
       PROVE  UnpackOptions(w).val \in Seq(Option) /\ Fits(PackOptions(UnpackOptions(w).val))
  <2>1. w \in Seq(Unit) /\ Len(w) < Base
    BY <1>15 DEF Fits
  <2> DEFINE o == UnpackOptions(w).val
  <2>2. o \in Seq(Option) /\ Len(PackOptions(o)) <= Len(w)
    BY <1>15, <2>1, OptionsWritten
  <2> HIDE DEF o
  <2>3. PackOptions(o) \in Seq(Unit)
    BY <2>2, OptionsRead
  <2>4. Len(PackOptions(o)) < Base
    <3> DEFINE l == Len(PackOptions(o))
               lw == Len(w)
    <3>1. l \in Nat /\ lw \in Nat /\ Base \in Nat /\ l <= lw /\ lw < Base
      BY <2>1, <2>2, <2>3, BaseAssumption
    <3> HIDE DEF l, lw
    <3>2. l < Base
      BY <3>1
    <3> QED BY <3>2 DEF l
  <2> QED BY <2>2, <2>3, <2>4 DEF Fits, o
<1>16. /\ c.criticalOptions \in Seq(Option) /\ Fits(PackOptions(c.criticalOptions))
       /\ c.extensions \in Seq(Option) /\ Fits(PackOptions(c.extensions))
  <2> HIDE DEF record
  <2> QED BY <1>3, <1>10, <1>11, <1>15
<1>17. /\ Fits(c.nonce) /\ Fits(c.keyID) /\ Fits(c.reserved) /\ Fits(c.signatureKey)
       /\ Fits(c.signature) /\ c.certType \in {UserCert, HostCert}
  <2> HIDE DEF record
  <2> QED BY <1>3, <1>10, <1>11
<1>18. c \in Certs
  <2> DEFINE U == Seq(Unit)
             k == c.key
             A2 == [algo : DOMAIN FieldCount, blob : Seq(Unit)]
             A3 == 0 .. MaxUint64
             A4 == {UserCert, HostCert}
             A5 == Seq(Seq(Unit))
             A6 == Seq(Option)
             p1 == c.nonce
             p3 == c.serial
             p4 == c.certType
             p5 == c.keyID
             p6 == c.validPrincipals
             p7 == c.validAfter
             p8 == c.validBefore
             p9 == c.criticalOptions
             q1 == c.extensions
             q2 == c.reserved
             q3 == c.signatureKey
             q4 == c.signature
  <2>1. /\ p1 \in U /\ k \in A2 /\ p3 \in A3 /\ p4 \in A4 /\ p5 \in U /\ p6 \in A5
        /\ p7 \in A3 /\ p8 \in A3 /\ p9 \in A6 /\ q1 \in A6 /\ q2 \in U /\ q3 \in U /\ q4 \in U
    <3> HIDE DEF record
    <3> QED BY <1>12, <1>13, <1>14, <1>16, <1>17 DEF Fits
  <2>2. c = [nonce |-> p1, key |-> k, serial |-> p3, certType |-> p4, keyID |-> p5,
             validPrincipals |-> p6, validAfter |-> p7, validBefore |-> p8,
             criticalOptions |-> p9, extensions |-> q1, reserved |-> q2, signatureKey |-> q3,
             signature |-> q4]
    OBVIOUS
  <2> HIDE DEF U, A2, A3, A4, A5, A6, k, p1, p3, p4, p5, p6, p7, p8, p9, q1, q2, q3, q4, record
  <2>3. c \in [nonce           : U,
               key             : A2,
               serial          : A3,
               certType        : A4,
               keyID           : U,
               validPrincipals : A5,
               validAfter      : A3,
               validBefore     : A3,
               criticalOptions : A6,
               extensions      : A6,
               reserved        : U,
               signatureKey    : U,
               signature       : U]
    BY <2>1, <2>2
  <2> QED BY <2>3 DEF Certs, U, A2, A3, A4, A5, A6
<1>19. KeyIs(c.key, kf)
  <2> HIDE DEF record
  <2> QED BY <1>4, <1>8, <1>11 DEF KeyIs, m
<1>20. ParseCertificate(blob).val = c
  <2> HIDE DEF record
  <2> QED BY <1>10, ParsedFields
<1> HIDE DEF record
<1>21. Encodable(c)
  BY <1>14, <1>16, <1>17, <1>18 DEF Encodable
<1> QED BY <1>19, <1>20, <1>21

\* An accepted key is its name and the fields of its kind.
LEMMA AcceptedKey ==
  ASSUME NEW l, l.blob \in Seq(Unit), ParseAuthorizedKey(l).ok
  PROVE  LET key == ParseAuthorizedKey(l).val
         IN  /\ key.algo \in DOMAIN FieldCount /\ key.algo = l.name /\ key.blob = l.blob
             /\ \E kf : KeyIs(key, kf)
<1> DEFINE a == l.name
           b == l.blob
           m == FieldCount[a]
           s == Strings(m)
           o == <<"string">>
           K == o \o s
           key == [algo |-> a, blob |-> b]
<1>1. /\ a \in DOMAIN FieldCount /\ GetBytes32(b).ok /\ GetBytes32(b).val = a
      /\ Read(b, K).ok /\ Read(b, K).rest = <<>> /\ ParseAuthorizedKey(l).val = key
  <2>1. Refused.ok = FALSE /\ Parsed(key).val = key
    BY ParsedFields DEF Refused
  <2> QED BY <2>1 DEF ParseAuthorizedKey, CheckKeyFields
<1>2. b \in Seq(Unit) /\ m \in Nat
  BY <1>1, FormatAssumption
<1> HIDE DEF a, b, m
<1>3. s \in Seq(Kinds) /\ Len(s) = m /\ \A i \in 1 .. m : s[i] = "string"
  BY <1>2 DEF Strings, Kinds
<1>4. o \in Seq(Kinds) /\ Len(o) = 1 /\ o[1] = "string"
  BY DEF Kinds
<1> HIDE DEF s, o
<1>5. /\ K \in Seq(Kinds) /\ Len(K) = Len(o) + Len(s)
      /\ \A i \in 1 .. Len(o) + Len(s) : K[i] = IF i <= Len(o) THEN o[i] ELSE s[i - Len(o)]
  <2>1. o \in Seq(Kinds) /\ s \in Seq(Kinds)
    BY <1>3, <1>4
  <2> QED BY <2>1, ConcatProperties
<1> HIDE DEF K
<1>6. Len(K) = m + 1 /\ \A i \in 1 .. m + 1 : K[i] = "string"
  <2>1. Len(K) = m + 1
    BY <1>2, <1>3, <1>4, <1>5
  <2>2. ASSUME NEW i \in 1 .. m + 1 PROVE K[i] = "string"
    <3>1. i \in 1 .. Len(o) + Len(s) /\ (i = 1 \/ (~ (i <= Len(o)) /\ i - Len(o) \in 1 .. m))
      BY <1>2, <1>3, <1>4
    <3> QED BY <1>3, <1>4, <1>5, <3>1
  <2> QED BY <2>1, <2>2
<1>7. PICK F \in Seq(Field), r \in Seq(Unit) :
        KindsOf(F) = K /\ Read(b, K) = Got(ValsOf(F), r) /\ b = Bytes(F) \o r
  BY <1>1, <1>2, <1>5, FieldsReadAreWritten
<1>8. b = Bytes(F)
  <2>1. r = <<>>
    BY <1>1, <1>7, GotFields
  <2>2. Bytes(F) \in Seq(Unit)
    BY FieldsAre
  <2>3. Bytes(F) \o <<>> = Bytes(F)
    BY <2>2
  <2> QED BY <1>7, <2>1, <2>3
<1>9. Len(F) = m + 1
  <2>1. Len(KindsOf(F)) = Len(F)
    BY FieldsAre
  <2> QED BY <1>6, <1>7, <2>1
<1>10. ASSUME NEW i \in 1 .. m + 1 PROVE F[i] \in Field /\ F[i].kind = "string"
  <2>1. DOMAIN F = 1 .. m + 1
    BY <1>9
  <2>2. F[i] \in Field
    BY <1>9, ElementOf
  <2>3. KindsOf(F)[i] = F[i].kind
    BY <2>1 DEF KindsOf
  <2> QED BY <1>6, <1>7, <2>2, <2>3
<1> DEFINE x == F[1]
           kf == SubSeq(F, 2, m + 1)
<1>11. x \in Field /\ x.kind = "string"
  <2>1. 1 \in 1 .. m + 1
    BY <1>2
  <2> QED BY <1>10, <2>1
<1>12. /\ kf \in Seq(Field) /\ Len(kf) = m /\ \A i \in 1 .. m : kf[i] = F[i + 1]
  <2>1. m + 1 <= Len(F) /\ 2 <= (m + 1) + 1 /\ 2 >= 1 /\ 2 \in Nat /\ m + 1 \in Nat
    BY <1>2, <1>9
  <2>2. /\ SubSeq(F, 2, m + 1) \in Seq(Field) /\ Len(SubSeq(F, 2, m + 1)) = ((m + 1) - 2) + 1
        /\ \A i \in 1 .. ((m + 1) - 2) + 1 : SubSeq(F, 2, m + 1)[i] = F[(2 + i) - 1]
    BY <2>1, PieceIs
  <2>3. ((m + 1) - 2) + 1 = m /\ \A i \in 1 .. m : (2 + i) - 1 = i + 1
    BY <1>2
  <2> QED BY <2>2, <2>3
<1> HIDE DEF kf
<1>13. F = <<x>> \o kf
  <2> DEFINE y == <<x>>
             z == y \o kf
  <2>1. y \in Seq(Field) /\ Len(y) = 1 /\ y[1] = x
    <3> HIDE DEF x
    <3> QED BY <1>11
  <2> HIDE DEF y
  <2>2. /\ z \in Seq(Field) /\ Len(z) = Len(y) + Len(kf)
        /\ \A i \in 1 .. Len(y) + Len(kf) : z[i] = IF i <= Len(y) THEN y[i] ELSE kf[i - Len(y)]
    <3>1. y \in Seq(Field) /\ kf \in Seq(Field)
      BY <1>12, <2>1
    <3> QED BY <3>1, ConcatProperties
  <2> HIDE DEF z
  <2>3. Len(z) = Len(F)
    BY <1>2, <1>9, <1>12, <2>1, <2>2
  <2>4. ASSUME NEW i \in 1 .. Len(F) PROVE F[i] = z[i]
    <3>0. i \in Int /\ i \in 1 .. m + 1 /\ i \in 1 .. Len(y) + Len(kf)
      BY <1>2, <1>9, <1>12, <2>1
    <3>1. CASE i = 1
      <4>1. z[1] = y[1]
        BY <2>1, <2>2, <3>0, <3>1
      <4> QED BY <2>1, <3>1, <4>1
    <3>2. CASE i # 1
      <4>1. i - 1 \in 1 .. m /\ (i - 1) + 1 = i /\ ~ (i <= Len(y)) /\ i - Len(y) = i - 1
        BY <1>2, <2>1, <3>0, <3>2
      <4>2. z[i] = kf[i - 1]
        BY <2>2, <3>0, <4>1
      <4>3. kf[i - 1] = F[(i - 1) + 1]
        BY <1>12, <4>1
      <4> QED BY <4>1, <4>2, <4>3
    <3> QED BY <3>1, <3>2
  <2>5. F = z
    BY <2>2, <2>3, <2>4, SeqEqual
  <2> QED BY <2>5 DEF z, y
<1> HIDE DEF x
<1>14. /\ <<x>> \in Seq(Field) /\ Bytes(<<x>>) = PutBytes32(x.val) /\ Fits(x.val)
  <2>1. Put("string", x.val) = PutBytes32(x.val)
    BY DEF Put
  <2>2. Fits(x.val)
    <3>1. FieldOK(x.kind, x.val)
      BY <1>11, FieldIs
    <3> QED BY <1>11, <3>1 DEF FieldOK, Fits
  <2> QED BY <1>11, <2>1, <2>2, BytesOne
<1>15. Bytes(F) = PutBytes32(x.val) \o Bytes(kf)
  <2>1. Bytes(<<x>> \o kf) = Bytes(<<x>>) \o Bytes(kf)
    BY <1>12, <1>14, FieldsJoin
  <2> QED BY <1>13, <1>14, <2>1
<1>16. x.val = a
  <2>1. Bytes(kf) \in Seq(Unit)
    BY <1>12, FieldsAre
  <2>2. x.val \in Seq(Unit) /\ Len(x.val) < Base
    BY <1>14 DEF Fits
  <2>3. GetBytes32(PutBytes32(x.val) \o Bytes(kf)) = Got(x.val, Bytes(kf))
    BY <2>1, <2>2, WrittenIsRead
  <2> QED BY <1>1, <1>8, <1>15, <2>3, GotFields
<1>17. KindsOf(kf) = Strings(m)
  <2> DEFINE p == KindsOf(kf)
  <2>1. p \in Seq(Kinds) /\ Len(p) = m
    BY <1>12, FieldsAre
  <2>2. \A i \in 1 .. m : p[i] = kf[i].kind
    <3>1. DOMAIN kf = 1 .. m
      BY <1>12
    <3> QED BY <3>1 DEF KindsOf
  <2>3. \A i \in 1 .. m : kf[i].kind = "string"
    <3> TAKE i \in 1 .. m
    <3>1. i + 1 \in 1 .. m + 1
      BY <1>2
    <3> QED BY <1>10, <1>12, <3>1
  <2> HIDE DEF p
  <2>4. p = s
    <3>1. Len(p) = Len(s) /\ \A i \in 1 .. Len(p) : p[i] = s[i]
      BY <1>3, <2>1, <2>2, <2>3
    <3> QED BY <1>3, <2>1, <3>1, SeqEqual
  <2> QED BY <2>4 DEF p, s
<1>18. key.algo = a /\ key.blob = b
  OBVIOUS
<1>19. KeyIs(key, kf)
  <2> HIDE DEF key
  <2> QED BY <1>8, <1>12, <1>15, <1>16, <1>17, <1>18 DEF KeyIs, m
<1> QED BY <1>1, <1>18, <1>19 DEF a, b

\* A certificate with another signature.
Resigned(c, s) == [c EXCEPT !.signature = s]

\* Another signature changes nothing else.
LEMMA ResignedIs ==
  ASSUME NEW c \in Certs, NEW s \in Seq(Unit)
  PROVE  LET d == Resigned(c, s)
         IN  /\ d \in Certs
             /\ d.nonce = c.nonce /\ d.key = c.key /\ d.serial = c.serial
             /\ d.certType = c.certType /\ d.keyID = c.keyID
             /\ d.validPrincipals = c.validPrincipals /\ d.validAfter = c.validAfter
             /\ d.validBefore = c.validBefore /\ d.criticalOptions = c.criticalOptions
             /\ d.extensions = c.extensions /\ d.reserved = c.reserved
             /\ d.signatureKey = c.signatureKey /\ d.signature = s
<1> DEFINE d == Resigned(c, s)
           A1 == Seq(Unit)
           A2 == [algo : DOMAIN FieldCount, blob : Seq(Unit)]
           A3 == 0 .. MaxUint64
           A4 == {UserCert, HostCert}
           A5 == Seq(Seq(Unit))
           A6 == Seq(Option)
           S == [nonce           : A1,
                 key             : A2,
                 serial          : A3,
                 certType        : A4,
                 keyID           : A1,
                 validPrincipals : A5,
                 validAfter      : A3,
                 validBefore     : A3,
                 criticalOptions : A6,
                 extensions      : A6,
                 reserved        : A1,
                 signatureKey    : A1,
                 signature       : A1]
<1>1. c \in S /\ s \in A1
  BY DEF Certs
<1> HIDE DEF A1, A2, A3, A4, A5, A6
<1>2. d \in S
  BY <1>1 DEF Resigned
<1>3. /\ d.nonce = c.nonce /\ d.key = c.key /\ d.serial = c.serial
      /\ d.certType = c.certType /\ d.keyID = c.keyID
      /\ d.validPrincipals = c.validPrincipals /\ d.validAfter = c.validAfter
      /\ d.validBefore = c.validBefore /\ d.criticalOptions = c.criticalOptions
      /\ d.extensions = c.extensions /\ d.reserved = c.reserved
      /\ d.signatureKey = c.signatureKey /\ d.signature = s
  BY <1>1 DEF Resigned
<1> HIDE DEF d
<1>4. d \in Certs
  BY <1>2 DEF Certs, A1, A2, A3, A4, A5, A6
<1> QED BY <1>3, <1>4 DEF d

\* The signature is not signed.
LEMMA ResignedSigned ==
  ASSUME NEW c, Encodable(c), NEW kf, KeyIs(c.key, kf), NEW s, Fits(s)
  PROVE  LET d == Resigned(c, s)
         IN  /\ Encodable(d) /\ KeyIs(d.key, kf) /\ ToBeSigned(d) = ToBeSigned(c)
             /\ MarshalLine(d).blob = ToBeSigned(c) \o PutBytes32(s)
<1> DEFINE d == Resigned(c, s)
<1>1. /\ d \in Certs
      /\ d.nonce = c.nonce /\ d.key = c.key /\ d.serial = c.serial
      /\ d.certType = c.certType /\ d.keyID = c.keyID
      /\ d.validPrincipals = c.validPrincipals /\ d.validAfter = c.validAfter
      /\ d.validBefore = c.validBefore /\ d.criticalOptions = c.criticalOptions
      /\ d.extensions = c.extensions /\ d.reserved = c.reserved
      /\ d.signatureKey = c.signatureKey /\ d.signature = s
  BY ResignedIs DEF Encodable, Fits
<1> HIDE DEF d
<1>2. Encodable(d) /\ KeyIs(d.key, kf)
  BY <1>1 DEF Encodable
<1>3. ToBeSigned(d) = ToBeSigned(c)
  BY <1>1 DEF ToBeSigned
<1>4. MarshalLine(d).blob = ToBeSigned(c) \o PutBytes32(s)
  BY <1>1, <1>3 DEF MarshalLine
<1> QED BY <1>2, <1>3, <1>4 DEF d

\* Two certificates that say the same, their signatures and the order of their
\* options left aside.
SaySame(c, d) ==
  /\ c.nonce = d.nonce /\ c.key = d.key /\ c.serial = d.serial /\ c.certType = d.certType
  /\ c.keyID = d.keyID /\ c.validPrincipals = d.validPrincipals
  /\ c.validAfter = d.validAfter /\ c.validBefore = d.validBefore
  /\ SortedByName(c.criticalOptions) = SortedByName(d.criticalOptions)
  /\ SortedByName(c.extensions) = SortedByName(d.extensions)
  /\ c.reserved = d.reserved /\ c.signatureKey = d.signatureKey

\* The order of options changes nothing else.
LEMMA CanonicalIs ==
  ASSUME NEW c \in Certs
  PROVE  LET d == Canonical(c)
         IN  /\ d.nonce = c.nonce /\ d.key = c.key /\ d.serial = c.serial
             /\ d.certType = c.certType /\ d.keyID = c.keyID
             /\ d.validPrincipals = c.validPrincipals /\ d.validAfter = c.validAfter
             /\ d.validBefore = c.validBefore
             /\ d.criticalOptions = SortedByName(c.criticalOptions)
             /\ d.extensions = SortedByName(c.extensions) /\ d.reserved = c.reserved
             /\ d.signatureKey = c.signatureKey /\ d.signature = c.signature
<1> DEFINE x == SortedByName(c.criticalOptions)
           y == SortedByName(c.extensions)
<1>1. Canonical(c) =
        [nonce |-> c.nonce, key |-> c.key, serial |-> c.serial, certType |-> c.certType,
         keyID |-> c.keyID, validPrincipals |-> c.validPrincipals,
         validAfter |-> c.validAfter, validBefore |-> c.validBefore, criticalOptions |-> x,
         extensions |-> y, reserved |-> c.reserved, signatureKey |-> c.signatureKey,
         signature |-> c.signature]
  BY CertWith DEF Canonical
<1> HIDE DEF x, y
<1> QED BY <1>1 DEF x, y

\* What is signed decides what a certificate says: no two certificates that say
\* something different are signed with the same bytes.
THEOREM SignedDecides ==
  ASSUME NEW c, Encodable(c), NEW kf, KeyIs(c.key, kf),
         NEW d, Encodable(d), NEW kg, KeyIs(d.key, kg),
         ToBeSigned(c) = ToBeSigned(d)
  PROVE  SaySame(c, d)
<1> DEFINE s == <<>>
           x == Resigned(c, s)
           y == Resigned(d, s)
<1>1. Fits(s)
  BY BaseAssumption DEF Fits
<1>2. /\ Encodable(x) /\ KeyIs(x.key, kf)
      /\ MarshalLine(x).blob = ToBeSigned(c) \o PutBytes32(s)
  BY <1>1, ResignedSigned
<1>3. /\ Encodable(y) /\ KeyIs(y.key, kg)
      /\ MarshalLine(y).blob = ToBeSigned(d) \o PutBytes32(s)
  BY <1>1, ResignedSigned
<1>4. Parsed(Canonical(x)) = Parsed(Canonical(y))
  <2> HIDE DEF x, y
  <2>1. ParseCertificate(MarshalLine(x).blob) = Parsed(Canonical(x))
    BY <1>2, LineRead
  <2>2. ParseCertificate(MarshalLine(y).blob) = Parsed(Canonical(y))
    BY <1>3, LineRead
  <2> QED BY <1>2, <1>3, <2>1, <2>2
<1>5. Canonical(x) = Canonical(y)
  BY <1>4, ParsedFields
<1>0. c \in Certs /\ d \in Certs /\ s \in Seq(Unit)
  BY DEF Encodable
<1> HIDE DEF s
<1>6. /\ x.nonce = c.nonce /\ x.key = c.key /\ x.serial = c.serial
      /\ x.certType = c.certType /\ x.keyID = c.keyID
      /\ x.validPrincipals = c.validPrincipals /\ x.validAfter = c.validAfter
      /\ x.validBefore = c.validBefore /\ x.criticalOptions = c.criticalOptions
      /\ x.extensions = c.extensions /\ x.reserved = c.reserved
      /\ x.signatureKey = c.signatureKey
  BY <1>0, ResignedIs
<1>7. /\ y.nonce = d.nonce /\ y.key = d.key /\ y.serial = d.serial
      /\ y.certType = d.certType /\ y.keyID = d.keyID
      /\ y.validPrincipals = d.validPrincipals /\ y.validAfter = d.validAfter
      /\ y.validBefore = d.validBefore /\ y.criticalOptions = d.criticalOptions
      /\ y.extensions = d.extensions /\ y.reserved = d.reserved
      /\ y.signatureKey = d.signatureKey
  BY <1>0, ResignedIs
<1> HIDE DEF x, y
<1>8. SaySame(x, y)
  <2>1. x \in Certs /\ y \in Certs
    BY <1>2, <1>3 DEF Encodable
  <2> DEFINE p == Canonical(x)
             q == Canonical(y)
  <2>2. /\ p.nonce = x.nonce /\ p.key = x.key /\ p.serial = x.serial
        /\ p.certType = x.certType /\ p.keyID = x.keyID
        /\ p.validPrincipals = x.validPrincipals /\ p.validAfter = x.validAfter
        /\ p.validBefore = x.validBefore
        /\ p.criticalOptions = SortedByName(x.criticalOptions)
        /\ p.extensions = SortedByName(x.extensions) /\ p.reserved = x.reserved
        /\ p.signatureKey = x.signatureKey
    BY <2>1, CanonicalIs
  <2>3. /\ q.nonce = y.nonce /\ q.key = y.key /\ q.serial = y.serial
        /\ q.certType = y.certType /\ q.keyID = y.keyID
        /\ q.validPrincipals = y.validPrincipals /\ q.validAfter = y.validAfter
        /\ q.validBefore = y.validBefore
        /\ q.criticalOptions = SortedByName(y.criticalOptions)
        /\ q.extensions = SortedByName(y.extensions) /\ q.reserved = y.reserved
        /\ q.signatureKey = y.signatureKey
    BY <2>1, CanonicalIs
  <2>4. p = q
    BY <1>5
  <2> HIDE DEF p, q
  <2> QED BY <2>2, <2>3, <2>4 DEF SaySame
<1> QED BY <1>6, <1>7, <1>8 DEF SaySame

\* Sorting the options changes neither what is signed nor what is meant.
LEMMA CanonicalSigned ==
  ASSUME NEW c \in Certs, NamesDecide(c.criticalOptions), NamesDecide(c.extensions)
  PROVE  ToBeSigned(Canonical(c)) = ToBeSigned(c)
<1> DEFINE d == Canonical(c)
<1>1. /\ d.nonce = c.nonce /\ d.key = c.key /\ d.serial = c.serial
      /\ d.certType = c.certType /\ d.keyID = c.keyID
      /\ d.validPrincipals = c.validPrincipals /\ d.validAfter = c.validAfter
      /\ d.validBefore = c.validBefore
      /\ d.criticalOptions = SortedByName(c.criticalOptions)
      /\ d.extensions = SortedByName(c.extensions) /\ d.reserved = c.reserved
      /\ d.signatureKey = c.signatureKey
  BY CanonicalIs
<1>2. ASSUME NEW o \in Seq(Option), NamesDecide(o)
      PROVE  PackOptions(SortedByName(o)) = PackOptions(o)
  <2> DEFINE s == SortedByName(o)
  <2>1. SortedByName(s) = s
    BY <1>2, OptionsStaySorted
  <2>2. DOMAIN s = DOMAIN o
    BY DEF SortedByName
  <2> HIDE DEF s
  <2>3. PackOptions(s) = PackOptions(o)
    BY <2>1, <2>2 DEF PackOptions, s
  <2> QED BY <2>3 DEF s
<1>3. c.criticalOptions \in Seq(Option) /\ c.extensions \in Seq(Option)
  BY DEF Certs
<1>4. /\ PackOptions(d.criticalOptions) = PackOptions(c.criticalOptions)
      /\ PackOptions(d.extensions) = PackOptions(c.extensions)
  BY <1>1, <1>2, <1>3
<1> HIDE DEF d
<1>5. ToBeSigned(d) = ToBeSigned(c)
  BY <1>1, <1>4 DEF ToBeSigned
<1> QED BY <1>5 DEF d

\* Two strings, written and read.
LEMMA TwoRead ==
  ASSUME NEW v, Fits(v), NEW w, Fits(w)
  PROVE  LET b == PutBytes32(v) \o PutBytes32(w)
         IN  /\ b \in Seq(Unit) /\ Read(b, <<"string", "string">>) = Got(<<v, w>>, <<>>)
             /\ GetBytes32(b) = Got(v, PutBytes32(w))
<1> DEFINE g == <<Str(v), Str(w)>>
           b == PutBytes32(v) \o PutBytes32(w)
<1>1. g \in GroupsOf(TwoStrings) /\ Bytes(g) = b /\ ValsOf(g) = <<v, w>>
  BY TwoGroup
<1> HIDE DEF g
<1>2. /\ g \in Seq(Field) /\ KindsOf(g) = TwoStrings
  BY <1>1 DEF GroupsOf
<1>3. <<>> \in Seq(Unit) /\ v \in Seq(Unit) /\ Len(v) < Base /\ PutBytes32(w) \in Seq(Unit)
      /\ PutBytes32(v) \in Seq(Unit)
  BY PutString DEF Fits
<1>4. Read(Bytes(g) \o <<>>, KindsOf(g)) = Got(ValsOf(g), <<>>)
  BY <1>2, <1>3, FieldsWrittenAreRead
<1>5. b \in Seq(Unit)
  BY <1>3
<1>6. b \o <<>> = b
  <2> HIDE DEF b
  <2> QED BY <1>5
<1>7. GetBytes32(b) = Got(v, PutBytes32(w))
  BY <1>3, WrittenIsRead
<1> HIDE DEF b
<1>8. Read(b, <<"string", "string">>) = Got(<<v, w>>, <<>>)
  BY <1>1, <1>2, <1>4, <1>6 DEF TwoStrings
<1> QED BY <1>5, <1>7, <1>8 DEF b

\* Whatever two strings were read from is the two as they are written.
LEMMA TwoWritten ==
  ASSUME NEW b \in Seq(Unit), NEW f, f = Read(b, <<"string", "string">>), f.ok, f.rest = <<>>
  PROVE  /\ Fits(f.val[1]) /\ Fits(f.val[2])
         /\ b = PutBytes32(f.val[1]) \o PutBytes32(f.val[2])
<1>1. TwoStrings \in Seq(Kinds) /\ f = Read(b, TwoStrings)
  BY StringKinds DEF TwoStrings
<1>2. PICK g \in Seq(Field), r \in Seq(Unit) :
        KindsOf(g) = TwoStrings /\ Read(b, TwoStrings) = Got(ValsOf(g), r) /\ b = Bytes(g) \o r
  BY <1>1, FieldsReadAreWritten
<1>3. f.val = ValsOf(g) /\ r = <<>>
  BY <1>1, <1>2, GotFields
<1>4. b = Bytes(g)
  <2>1. Bytes(g) \in Seq(Unit)
    BY FieldsAre
  <2>2. Bytes(g) \o <<>> = Bytes(g)
    BY <2>1
  <2> QED BY <1>2, <1>3, <2>2
<1>5. g \in GroupsOf(TwoStrings)
  BY <1>2 DEF GroupsOf
<1>6. /\ Fits(g[1].val) /\ Fits(g[2].val)
      /\ Bytes(g) = PutBytes32(g[1].val) \o PutBytes32(g[2].val)
      /\ ValsOf(g) = <<g[1].val, g[2].val>>
  BY <1>5, GroupTwo
<1>7. f.val[1] = g[1].val /\ f.val[2] = g[2].val
  BY <1>3, <1>6
<1> QED BY <1>4, <1>6, <1>7

\* The name of the signature algorithm fits.
LEMMA NameFits == Fits(Ed25519Name) /\ Ed25519Name \in DOMAIN FieldCount
<1>1. Ed25519Name \in DOMAIN FieldCount
  BY FormatAssumption
<1>2. Ed25519Name \in Seq(Unit) /\ Len(Ed25519Name) + 2 < Base
  BY <1>1, FormatAssumption
<1>3. Len(Ed25519Name) \in Nat /\ Base \in Nat
  BY <1>2, BaseAssumption
<1>4. Len(Ed25519Name) < Base
  BY <1>2, <1>3
<1> QED BY <1>1, <1>2, <1>4 DEF Fits

\* A raw key is found in its blob.
LEMMA RawKeyFound ==
  ASSUME NEW pk, Fits(pk), Len(pk) = KeySize
  PROVE  LET key == NewEd25519PublicKey(pk)
         IN  /\ key.algo = Ed25519Name /\ key.blob \in Seq(Unit)
             /\ key = [algo |-> Ed25519Name, blob |-> key.blob]
             /\ RawKey(key) = Parsed(pk)
             /\ GetBytes32(key.blob).ok /\ GetBytes32(key.blob).val = Ed25519Name
<1> DEFINE b == PutBytes32(Ed25519Name) \o PutBytes32(pk)
           key == NewEd25519PublicKey(pk)
           v == <<Ed25519Name, pk>>
<1>1. /\ b \in Seq(Unit) /\ Read(b, <<"string", "string">>) = Got(v, <<>>)
      /\ GetBytes32(b) = Got(Ed25519Name, PutBytes32(pk))
  BY NameFits, TwoRead
<1>2. key = [algo |-> Ed25519Name, blob |-> b] /\ key.algo = Ed25519Name /\ key.blob = b
  BY DEF NewEd25519PublicKey
<1>3. v[2] = pk
  OBVIOUS
<1> HIDE DEF b, key, v
<1>4. RawKey(key) = Parsed(pk)
  <2>1. Got(v, <<>>).ok = TRUE /\ Got(v, <<>>).val = v
    BY GotFields
  <2> QED BY <1>1, <1>2, <1>3, <2>1 DEF RawKey
<1>5. GetBytes32(b).ok = TRUE /\ GetBytes32(b).val = Ed25519Name
  BY <1>1, GotFields
<1> QED BY <1>1, <1>2, <1>4, <1>5 DEF key

\* An accepted signature is the one of this message by this key.
LEMMA AcceptedSignature ==
  ASSUME NEW c, c.signature \in Seq(Unit), NEW pk, SignatureOK(c, pk)
  PROVE  c.signature = PutBytes32(Ed25519Name) \o PutBytes32(pk \o ToBeSigned(c))
<1> DEFINE s == c.signature
           f == Read(s, <<"string", "string">>)
<1>1. /\ f.ok /\ f.val[1] = Ed25519Name /\ f.rest = <<>> /\ f.val[2] = pk \o ToBeSigned(c)
  BY DEF SignatureOK, Ed25519Verify
<1>2. s \in Seq(Unit)
  OBVIOUS
<1> DEFINE g == f
<1> HIDE DEF s, g
<1>3. s = PutBytes32(f.val[1]) \o PutBytes32(f.val[2])
  BY <1>1, <1>2, TwoWritten
<1> QED BY <1>1, <1>3 DEF s

\* A signature that Sign wrote is accepted for the key and the message it was made with.
LEMMA WrittenSignature ==
  ASSUME NEW c, NEW p \in Seq(Unit), NEW m \in Seq(Unit), NEW q,
         Fits(c.signature),
         c.signature = PutBytes32(Ed25519Name) \o PutBytes32(Ed25519Sign(p, m))
  PROVE  SignatureOK(c, q) <=> p \o m = q \o ToBeSigned(c)
<1> DEFINE s == c.signature
           w == p \o m
           f == Read(s, <<"string", "string">>)
           v == <<Ed25519Name, w>>
<1>1. s = PutBytes32(Ed25519Name) \o PutBytes32(w) /\ s \in Seq(Unit) /\ Len(s) < Base
  BY DEF Fits, Ed25519Sign
<1>2. w \in Seq(Unit)
  OBVIOUS
<1> HIDE DEF s, w
<1>3. Fits(w)
  <2> DEFINE a == PutUint32(Len(w))
             z == a \o w
             y == PutBytes32(Ed25519Name)
  <2>1. a \in Seq(Unit)
    <3>1. \A k \in Nat : k % Base \in 0 .. Base - 1
      BY BaseAssumption
    <3>2. Len(w) % Base \in Unit
      BY <1>2, <3>1 DEF Unit
    <3> QED BY <3>2 DEF PutUint32
  <2>2. y \in Seq(Unit)
    BY NameFits, PutString
  <2>3. s = y \o z
    BY <1>1 DEF PutBytes32
  <2> HIDE DEF a, y
  <2>4. z \in Seq(Unit) /\ Len(z) = Len(a) + Len(w) /\ Len(a) \in Nat /\ Len(w) \in Nat
    BY <1>2, <2>1
  <2> HIDE DEF z
  <2>5. Len(y \o z) = Len(y) + Len(z) /\ Len(y) \in Nat
    <3>1. y \in Seq(Unit) /\ z \in Seq(Unit)
      BY <2>2, <2>4
    <3> QED BY <3>1, ConcatProperties
  <2>6. Len(w) <= Len(s)
    BY <2>3, <2>4, <2>5
  <2>7. Len(s) \in Nat /\ Base \in Nat
    BY <1>1, BaseAssumption
  <2>8. Len(w) < Base
    BY <1>1, <2>4, <2>6, <2>7
  <2> QED BY <1>2, <2>8 DEF Fits
<1>4. Read(PutBytes32(Ed25519Name) \o PutBytes32(w), <<"string", "string">>) = Got(v, <<>>)
  BY <1>3, NameFits, TwoRead
<1>5. f = Got(v, <<>>) /\ v[1] = Ed25519Name /\ v[2] = w
  BY <1>1, <1>4
<1> HIDE DEF v
<1>6. f.ok = TRUE /\ f.val = v /\ f.rest = <<>>
  BY <1>5, GotFields
<1>7. SignatureOK(c, q) <=> (f.ok /\ f.val[1] = Ed25519Name /\ f.rest = <<>>
                               /\ f.val[2] = q \o ToBeSigned(c))
  BY DEF SignatureOK, Ed25519Verify, s
<1>8. SignatureOK(c, q) <=> w = q \o ToBeSigned(c)
  BY <1>5, <1>6, <1>7
<1> QED BY <1>8 DEF w

-----------------------------------------------------------------------------
\* What the authority makes.

\* A certificate that was signed by s[1] and names s[2].
Genuine(c, s) ==
  /\ Encodable(c) /\ NamesDecide(c.criticalOptions) /\ NamesDecide(c.extensions)
  /\ \E kf : KeyIs(c.key, kf)
  /\ c.signatureKey = NewEd25519PublicKey(s[2]).blob
  /\ c.signature = PutBytes32(Ed25519Name) \o PutBytes32(Ed25519Sign(s[1], ToBeSigned(c)))

\* The signers are the authority, the stranger, or the stranger under the authority's name.
LEMMA SignersAre ==
  ASSUME NEW s \in Signers
  PROVE  /\ s[1] \in {CA, Stranger} /\ s[2] \in {CA, Stranger}
         /\ s[1] = CA => s = <<CA, CA>>
         /\ s = <<CA, CA>> => s[1] = CA /\ s[2] = CA
         /\ Fits(s[1]) /\ Len(s[1]) = KeySize /\ Fits(s[2]) /\ Len(s[2]) = KeySize
<1>1. CA # Stranger /\ \A pk \in {CA, Stranger} : Fits(pk) /\ Len(pk) = KeySize
  BY ArtifactAssumption
<1>2. s[1] \in {CA, Stranger} /\ s[2] \in {CA, Stranger}
  BY DEF Signers
<1>3. s[1] = CA => s = <<CA, CA>>
  BY <1>1 DEF Signers
<1> QED BY <1>1, <1>2, <1>3

\* Whatever key line was accepted, the signed certificate names its signer.
LEMMA SignedIsGenuine ==
  ASSUME NEW l \in KeyLines, NEW draft \in Drafts, NEW s \in Signers, ParseAuthorizedKey(l).ok
  PROVE  Genuine(Signed(l, draft, s), s)
<1> DEFINE key == ParseAuthorizedKey(l).val
           pub == NewEd25519PublicKey(s[2])
           d == [draft EXCEPT !.key = key]
           e == [d EXCEPT !.signatureKey = pub.blob]
           sig == PutBytes32(Ed25519Name) \o PutBytes32(Ed25519Sign(s[1], ToBeSigned(e)))
           c == [e EXCEPT !.signature = sig]
<1>1. Signed(l, draft, s) = c
  BY DEF Signed, SignCert
<1>2. /\ Encodable(c) /\ NamesDecide(c.criticalOptions) /\ NamesDecide(c.extensions)
  <2> HIDE DEF c
  <2> QED BY <1>1, ArtifactAssumption
<1> HIDE DEF key, pub, sig
<1>3. DOMAIN draft = DOMAIN c
  OBVIOUS
<1>4. {"nonce", "key", "serial", "certType", "keyID", "validPrincipals", "validAfter",
       "validBefore", "criticalOptions", "extensions", "reserved", "signatureKey",
       "signature"} = DOMAIN c
  <2> HIDE DEF c
  <2> DEFINE r == [nonce |-> c.nonce, key |-> c.key, serial |-> c.serial,
               certType |-> c.certType, keyID |-> c.keyID,
               validPrincipals |-> c.validPrincipals, validAfter |-> c.validAfter,
               validBefore |-> c.validBefore,
               criticalOptions |-> c.criticalOptions,
               extensions |-> c.extensions, reserved |-> c.reserved,
               signatureKey |-> c.signatureKey, signature |-> c.signature]
  <2>1. c = r
    BY <1>2, CertIs DEF Encodable
  <2>2. DOMAIN r = {"nonce", "key", "serial", "certType", "keyID", "validPrincipals",
                    "validAfter", "validBefore", "criticalOptions", "extensions", "reserved",
                    "signatureKey", "signature"}
    OBVIOUS
  <2> HIDE DEF r
  <2> QED BY <2>1, <2>2
<1>5. DOMAIN d = DOMAIN draft /\ DOMAIN e = DOMAIN draft
  OBVIOUS
<1>6. c.key = key /\ c.signatureKey = pub.blob /\ c.signature = sig
  BY <1>3, <1>4, <1>5
<1>7. /\ c.nonce = e.nonce /\ c.key = e.key /\ c.serial = e.serial /\ c.certType = e.certType
      /\ c.keyID = e.keyID /\ c.validPrincipals = e.validPrincipals
      /\ c.validAfter = e.validAfter /\ c.validBefore = e.validBefore
      /\ c.criticalOptions = e.criticalOptions /\ c.extensions = e.extensions
      /\ c.reserved = e.reserved /\ c.signatureKey = e.signatureKey
  <2> HIDE DEF e
  <2> QED BY <1>3, <1>4, <1>5
<1> HIDE DEF c, e
<1>8. ToBeSigned(c) = ToBeSigned(e)
  BY <1>7 DEF ToBeSigned
<1>9. l.blob \in Seq(Unit) /\ \E kf : KeyIs(key, kf)
  <2>1. key.blob \in Seq(Unit)
    BY <1>2, <1>6 DEF Encodable, Certs
  <2>2. key.blob = l.blob
    <3>1. Parsed([algo |-> l.name, blob |-> l.blob]).val = [algo |-> l.name, blob |-> l.blob]
          /\ Refused.ok = FALSE
      BY ParsedFields DEF Refused
    <3>2. key = [algo |-> l.name, blob |-> l.blob]
      BY <3>1 DEF ParseAuthorizedKey, key
    <3> QED BY <3>2
  <2>3. l.blob \in Seq(Unit)
    BY <2>1, <2>2
  <2> QED BY <2>3, AcceptedKey DEF key
<1>10. c.signature = PutBytes32(Ed25519Name) \o PutBytes32(Ed25519Sign(s[1], ToBeSigned(c)))
  BY <1>6, <1>8 DEF sig
<1>11. Genuine(c, s)
  BY <1>2, <1>6, <1>9, <1>10 DEF Genuine, pub
<1> QED BY <1>1, <1>11

\* A genuine certificate, read from its line, is verified if and only if the
\* authority signed it under its own name.
LEMMA GenuineIsRead ==
  ASSUME NEW s \in Signers, NEW c, Genuine(c, s)
  PROVE  /\ ParseCertificateLine(MarshalLine(c)) = Parsed(Canonical(c))
         /\ VerifyCert(Canonical(c), CAPublic) <=> s = <<CA, CA>>
<1> DEFINE d == Canonical(c)
<1>1. Encodable(c) /\ c \in Certs /\ NamesDecide(c.criticalOptions) /\ NamesDecide(c.extensions)
  BY DEF Genuine, Encodable
<1>2. PICK kf : KeyIs(c.key, kf)
  BY DEF Genuine
<1>3. d.key = c.key /\ d.signatureKey = c.signatureKey /\ d.signature = c.signature
  BY <1>1, CanonicalIs
<1>4. ToBeSigned(d) = ToBeSigned(c)
  BY <1>1, CanonicalSigned
<1> HIDE DEF d
<1>5. ParseCertificateLine(MarshalLine(c)) = Parsed(d)
  <2>1. ParseCertificate(MarshalLine(c).blob) = Parsed(d)
    BY <1>1, <1>2, LineRead DEF d
  <2>2. MarshalLine(c).name = CertAlgo(d.key.algo)
    BY <1>3 DEF MarshalLine
  <2>3. Parsed(d).ok = TRUE /\ Parsed(d).val = d
    BY ParsedFields
  <2> QED BY <2>1, <2>2, <2>3 DEF ParseCertificateLine, OfAlgo
<1> DEFINE m == ToBeSigned(c)
           p == s[1]
           q == s[2]
           kq == NewEd25519PublicKey(q)
<1>6. m \in Seq(Unit)
  BY <1>1, <1>2, SignedIs
<1>7. /\ p \in {CA, Stranger} /\ q \in {CA, Stranger}
      /\ p = CA => s = <<CA, CA>>
      /\ s = <<CA, CA>> => p = CA /\ q = CA
      /\ Fits(p) /\ Len(p) = KeySize /\ Fits(q) /\ Len(q) = KeySize
      /\ Fits(CA) /\ Len(CA) = KeySize
  <2>1. Fits(CA) /\ Len(CA) = KeySize
    BY ArtifactAssumption
  <2> QED BY <2>1, SignersAre
<1>8. c.signature = PutBytes32(Ed25519Name) \o PutBytes32(Ed25519Sign(p, m))
      /\ d.signatureKey = kq.blob
  BY <1>3 DEF Genuine
<1> HIDE DEF m, p, q
<1>9. SignatureCAOK(d)
  <2>1. GetBytes32(kq.blob).ok /\ GetBytes32(kq.blob).val = Ed25519Name
    BY <1>7, RawKeyFound
  <2> QED BY <1>8, <2>1, NameFits DEF SignatureCAOK
<1>10. RawKey(CAPublic).ok = TRUE /\ RawKey(CAPublic).val = CA
  <2>1. RawKey(NewEd25519PublicKey(CA)) = Parsed(CA)
    BY <1>7, RawKeyFound
  <2> QED BY <2>1, ParsedFields DEF CAPublic
<1>11. d.signatureKey = CAPublic.blob <=> q = CA
  <2>1. ASSUME kq.blob = CAPublic.blob PROVE q = CA
    <3>1. kq = [algo |-> Ed25519Name, blob |-> kq.blob] /\ RawKey(kq) = Parsed(q)
      BY <1>7, RawKeyFound
    <3>2. CAPublic = [algo |-> Ed25519Name, blob |-> CAPublic.blob]
      BY <1>7, RawKeyFound DEF CAPublic
    <3> HIDE DEF kq
    <3>3. kq = CAPublic
      BY <2>1, <3>1, <3>2
    <3> QED BY <1>10, <3>1, <3>3, ParsedFields
  <2> QED BY <1>8, <2>1 DEF CAPublic
<1>12. SignatureOK(d, CA) <=> p = CA
  <2>1. Fits(c.signature) /\ p \in Seq(Unit) /\ CA \in Seq(Unit)
    BY <1>1, <1>7 DEF Encodable, Fits
  <2>2. SignatureOK(d, CA) <=> p \o m = CA \o m
    <3>1. /\ Fits(d.signature)
          /\ d.signature = PutBytes32(Ed25519Name) \o PutBytes32(Ed25519Sign(p, m))
      BY <1>3, <1>8, <2>1
    <3>2. SignatureOK(d, CA) <=> p \o m = CA \o ToBeSigned(d)
      BY <1>6, <2>1, <3>1, WrittenSignature
    <3> QED BY <1>4, <3>2 DEF m
  <2>3. ASSUME p \o m = CA \o m PROVE p = CA
    <3>1. GetUnits(p \o m, Len(p)) = Got(p, m) /\ GetUnits(CA \o m, Len(CA)) = Got(CA, m)
      BY <1>6, <2>1, UnitsRead
    <3> DEFINE x == p \o m
               y == CA \o m
    <3>2. x = y /\ Len(p) = Len(CA)
      BY <1>7, <2>3
    <3>3. GetUnits(x, Len(p)) = Got(p, m) /\ GetUnits(y, Len(CA)) = Got(CA, m)
      BY <3>1
    <3> HIDE DEF x, y
    <3>4. Got(p, m) = Got(CA, m)
      BY <3>2, <3>3
    <3>5. Got(p, m).val = p /\ Got(CA, m).val = CA
      BY GotFields
    <3> QED BY <3>4, <3>5
  <2> QED BY <2>2, <2>3
<1>13. VerifyCert(d, CAPublic) <=> q = CA /\ p = CA
  BY <1>9, <1>10, <1>11, <1>12 DEF VerifyCert
<1>14. VerifyCert(d, CAPublic) <=> s = <<CA, CA>>
  BY <1>7, <1>13
<1> QED BY <1>5, <1>14 DEF d

-----------------------------------------------------------------------------
\* Certificates.

\* The bytes of a certificate, as the damage has left them.
Damaged(blob) ==
  /\ line.blob \in Seq(Unit)
  /\ damage = "none"     => line.blob = blob
  /\ damage = "cut"      => \E x \in Seq(Unit) : x # <<>> /\ line.blob \o x = blob
  /\ damage = "extended" => line.blob = blob \o << 0 >>

CertInv ==
  /\ made.kind = "nothing" => damage = "none"
  /\ made.kind # "certificate" => verdict = Unread
  /\ made.kind = "certificate" =>
       /\ made.signer \in Signers /\ Genuine(made.cert, made.signer)
       /\ line = [name |-> CertAlgo(made.cert.key.algo), blob |-> line.blob]
       /\ Damaged(MarshalLine(made.cert).blob)
       /\ verdict \in {Unread, Verdict(line)}

\* A certificate line is a sequence of units.
LEMMA LineIsSeq ==
  ASSUME NEW s, NEW c, Genuine(c, s)
  PROVE  MarshalLine(c).blob \in Seq(Unit)
<1>1. PICK kf : KeyIs(c.key, kf)
  BY DEF Genuine
<1>2. Encodable(c)
  BY DEF Genuine
<1> QED BY <1>1, <1>2, LineBegins

\* What damage leaves is a sequence of units again.
LEMMA CutIs ==
  ASSUME NEW b \in Seq(Unit), NEW n \in 0 .. Len(b) - 1
  PROVE  /\ SubSeq(b, 1, n) \in Seq(Unit)
         /\ \E x \in Seq(Unit) : x # <<>> /\ SubSeq(b, 1, n) \o x = b
<1> DEFINE x == SubSeq(b, n + 1, Len(b))
<1>1. Len(b) \in Nat /\ n \in Nat /\ n \in 0 .. Len(b) /\ n < Len(b)
  OBVIOUS
<1>2. x \in Seq(Unit) /\ Len(x) = Len(b) - n /\ SubSeq(b, 1, n) \in Seq(Unit)
  BY <1>1
<1>3. SubSeq(b, 1, n) \o x = b
  BY <1>1, CutAndJoined
<1> HIDE DEF x
<1>4. x # <<>>
  BY <1>1, <1>2
<1> QED BY <1>2, <1>3, <1>4

\* A sequence of units with one unit off is one again.
LEMMA AlteredIs ==
  ASSUME NEW b \in Seq(Unit), NEW i \in DOMAIN b, NEW d \in {1, Base - 1}
  PROVE  [b EXCEPT ![i] = (@ + d) % Base] \in Seq(Unit)
<1> DEFINE u == (b[i] + d) % Base
<1>1. Base \in Nat /\ Base > 0 /\ i \in 1 .. Len(b)
  BY BaseAssumption
<1>2. b[i] \in Unit
  BY <1>1, ElementOf
<1>3. b[i] + d \in Nat
  BY <1>1, <1>2 DEF Unit
<1>4. u \in Unit
  <2>1. \A k \in Nat : k % Base \in 0 .. Base - 1
    BY <1>1
  <2> QED BY <1>3, <2>1 DEF Unit
<1>5. [b EXCEPT ![i] = (@ + d) % Base] = [b EXCEPT ![i] = u]
  OBVIOUS
<1> HIDE DEF u
<1> DEFINE K == Unit
<1> HIDE DEF K
<1>6. b \in Seq(K) /\ u \in K
  BY <1>4 DEF K
<1>7. [b EXCEPT ![i] = u] \in Seq(K)
  BY <1>1, <1>6
<1> QED BY <1>5, <1>7 DEF K

Exchanged(b, i, n) ==
  SubSeq(b, 1, i - 1) \o SubSeq(b, i + n, i + 2 * n - 1)
    \o SubSeq(b, i, i + n - 1) \o SubSeq(b, i + 2 * n, Len(b))

\* A sequence of units with two pieces exchanged is one again.
LEMMA ExchangedIs ==
  ASSUME NEW b \in Seq(Unit), NEW i \in DOMAIN b, NEW n \in 1 .. 7,
         i + 2 * n - 1 <= Len(b)
  PROVE  Exchanged(b, i, n) \in Seq(Unit)
<1>1. i \in 1 .. Len(b) /\ Len(b) \in Nat /\ n \in Nat /\ i \in Nat
  OBVIOUS
<1>2. ASSUME NEW a \in Int, NEW z \in Int, a >= 1, z <= Len(b)
      PROVE  SubSeq(b, a, z) \in Seq(Unit)
  <2>1. \A j \in a .. z : b[j] \in Unit
    <3> TAKE j \in a .. z
    <3>1. j \in 1 .. Len(b)
      BY <1>1, <1>2
    <3> QED BY <3>1, ElementOf
  <2> QED BY <2>1, SubSeqProperties
<1>3. /\ SubSeq(b, 1, i - 1) \in Seq(Unit)
      /\ SubSeq(b, i + n, i + 2 * n - 1) \in Seq(Unit)
      /\ SubSeq(b, i, i + n - 1) \in Seq(Unit)
      /\ SubSeq(b, i + 2 * n, Len(b)) \in Seq(Unit)
  <2>1. i - 1 \in Int /\ i - 1 <= Len(b) /\ 1 \in Int /\ 1 >= 1
    BY <1>1
  <2>2. /\ i + n \in Int /\ i + n >= 1 /\ i + 2 * n - 1 \in Int /\ i + 2 * n - 1 <= Len(b)
    BY <1>1
  <2>3. i \in Int /\ i >= 1 /\ i + n - 1 \in Int /\ i + n - 1 <= Len(b)
    BY <1>1
  <2>4. i + 2 * n \in Int /\ i + 2 * n >= 1 /\ Len(b) \in Int /\ Len(b) <= Len(b)
    BY <1>1
  <2>5. SubSeq(b, 1, i - 1) \in Seq(Unit)
    BY <1>2, <2>1
  <2>6. SubSeq(b, i + n, i + 2 * n - 1) \in Seq(Unit)
    BY <1>2, <2>2
  <2>7. SubSeq(b, i, i + n - 1) \in Seq(Unit)
    BY <1>2, <2>3
  <2>8. SubSeq(b, i + 2 * n, Len(b)) \in Seq(Unit)
    BY <1>2, <2>4
  <2> QED BY <2>5, <2>6, <2>7, <2>8
<1> DEFINE p == SubSeq(b, 1, i - 1)
           q == SubSeq(b, i + n, i + 2 * n - 1)
           r == SubSeq(b, i, i + n - 1)
           s == SubSeq(b, i + 2 * n, Len(b))
<1> HIDE DEF p, q, r, s
<1>4. p \in Seq(Unit) /\ q \in Seq(Unit) /\ r \in Seq(Unit) /\ s \in Seq(Unit)
  BY <1>3 DEF p, q, r, s
<1>5. p \o q \o r \o s \in Seq(Unit)
  BY <1>4
<1> QED BY <1>5 DEF p, q, r, s, Exchanged

\* Nothing has been made at the start.
LEMMA CertInvStart == Init => CertInv
BY DEF Init, CertInv, Unread

\* Every step of Certify, the damages and ReadCert keeps the certificate what it is.
LEMMA CertInvKept == CertInv /\ [Next]_vars => CertInv'
<1> SUFFICES ASSUME CertInv, [Next]_vars PROVE CertInv'
  OBVIOUS
<1> DEFINE Kept == UNCHANGED <<made, line, damage, verdict>>
<1>1. CASE Kept
  <2>1. CertInv' <=> CertInv
    BY <1>1 DEF CertInv, Damaged
  <2> QED BY <2>1
<1>2. CASE Certify
  <2>1. PICK l \in KeyLines, draft \in Drafts, s \in Signers :
          /\ ParseAuthorizedKey(l).ok
          /\ made' = [kind |-> "certificate", cert |-> Signed(l, draft, s), signer |-> s]
          /\ line' = MarshalLine(Signed(l, draft, s))
    BY <1>2 DEF Certify
  <2> DEFINE c == Signed(l, draft, s)
  <2>2. made.kind = "nothing" /\ damage' = damage /\ verdict' = verdict
    BY <1>2 DEF Certify
  <2>3. Genuine(c, s)
    BY <2>1, SignedIsGenuine
  <2>4. made'.kind = "certificate" /\ made'.cert = c /\ made'.signer = s /\ line' = MarshalLine(c)
    BY <2>1
  <2> HIDE DEF c
  <2>5. MarshalLine(c).blob \in Seq(Unit) /\ MarshalLine(c).name = CertAlgo(c.key.algo)
    BY <2>3, LineIsSeq DEF MarshalLine
  <2>6. damage' = "none" /\ verdict' = Unread
    BY <2>2 DEF CertInv
  <2>7. Damaged(MarshalLine(made.cert).blob)'
    BY <2>4, <2>5, <2>6 DEF Damaged
  <2>8. line' = [name |-> CertAlgo(made'.cert.key.algo), blob |-> line'.blob]
    <3>1. MarshalLine(c) = [name |-> CertAlgo(c.key.algo), blob |-> MarshalLine(c).blob]
      BY DEF MarshalLine
    <3> QED BY <2>4, <3>1
  <2> QED BY <2>3, <2>4, <2>5, <2>6, <2>7, <2>8 DEF CertInv
<1>3. CASE Export
  <2>1. made.kind = "nothing" /\ made'.kind = "krl" /\ damage' = damage /\ verdict' = verdict
    BY <1>3 DEF Export
  <2> QED BY <2>1 DEF CertInv
<1>4. CASE Import
  <2>1. made.kind = "nothing" /\ made'.kind = "foreign" /\ damage' = damage /\ verdict' = verdict
    BY <1>4 DEF Import
  <2> QED BY <2>1 DEF CertInv
<1>5. ASSUME NEW kind \in {"cut", "extended", "altered", "exchanged"}, NEW blob, Spoil(kind, blob),
             made.kind = "certificate" =>
               /\ blob \in Seq(Unit)
               /\ kind = "cut" => \E x \in Seq(Unit) : x # <<>> /\ blob \o x = line.blob
               /\ kind = "extended" => blob = line.blob \o << 0 >>
      PROVE  CertInv'
  <2>1. /\ made.kind # "nothing" /\ damage = "none" /\ verdict = Unread /\ damage' = kind
        /\ line' = [line EXCEPT !.blob = blob] /\ made' = made /\ verdict' = verdict
    BY <1>5 DEF Spoil
  <2>2. CASE made.kind # "certificate"
    BY <2>1, <2>2 DEF CertInv
  <2>3. CASE made.kind = "certificate"
    <3> DEFINE c == made.cert
               A == CertAlgo(c.key.algo)
               B == MarshalLine(c).blob
    <3>1. /\ Genuine(c, made.signer) /\ made.signer \in Signers
          /\ line = [name |-> A, blob |-> line.blob] /\ line.blob = B
      BY <2>1, <2>3 DEF CertInv, Damaged
    <3> HIDE DEF A
    <3>2. line' = [name |-> A, blob |-> blob] /\ line'.blob = blob
      BY <2>1, <3>1
    <3> HIDE DEF B
    <3>3. /\ blob \in Seq(Unit)
          /\ kind = "cut" => \E x \in Seq(Unit) : x # <<>> /\ blob \o x = B
          /\ kind = "extended" => blob = B \o << 0 >>
      BY <1>5, <2>3, <3>1
    <3>4. Damaged(B)'
      <4>1. B' = B
        BY <2>1 DEF B
      <4> QED BY <1>5, <2>1, <3>2, <3>3, <4>1 DEF Damaged
    <3>5. line' = [name |-> A', blob |-> line'.blob]
      BY <2>1, <3>2 DEF A
    <3> QED BY <2>1, <2>3, <3>1, <3>4, <3>5 DEF CertInv, A, B
  <2> QED BY <2>2, <2>3
<1>6. ASSUME made.kind = "certificate" PROVE line.blob \in Seq(Unit)
  BY <1>6 DEF CertInv, Damaged
<1>7. CASE Cut
  <2>1. PICK n \in 0 .. Len(line.blob) - 1 : Spoil("cut", SubSeq(line.blob, 1, n))
    BY <1>7 DEF Cut
  <2> DEFINE b == line.blob
             r == SubSeq(b, 1, n)
  <2>2. made.kind = "certificate" =>
          r \in Seq(Unit) /\ \E x \in Seq(Unit) : x # <<>> /\ r \o x = b
    BY <1>6, CutIs
  <2> HIDE DEF r
  <2> QED BY <1>5, <2>1, <2>2 DEF r
<1>8. CASE Extend
  <2>1. Spoil("extended", Append(line.blob, 0))
    BY <1>8 DEF Extend
  <2>2. made.kind = "certificate" =>
          /\ Append(line.blob, 0) \in Seq(Unit)
          /\ Append(line.blob, 0) = line.blob \o << 0 >>
    <3> SUFFICES ASSUME made.kind = "certificate"
                 PROVE  /\ Append(line.blob, 0) \in Seq(Unit)
                        /\ Append(line.blob, 0) = line.blob \o << 0 >>
      OBVIOUS
    <3>1. 0 \in Unit
      BY BaseAssumption DEF Unit
    <3> DEFINE b == line.blob
    <3>2. b \in Seq(Unit)
      BY <1>6
    <3> HIDE DEF b
    <3> QED BY <3>1, <3>2 DEF b
  <2> QED BY <1>5, <2>1, <2>2
<1>9. CASE Alter
  <2>1. PICK i \in DOMAIN line.blob, d \in {1, Base - 1} :
          Spoil("altered", [line.blob EXCEPT ![i] = (@ + d) % Base])
    BY <1>9 DEF Alter
  <2>2. made.kind = "certificate" => [line.blob EXCEPT ![i] = (@ + d) % Base] \in Seq(Unit)
    BY <1>6, AlteredIs
  <2> QED BY <1>5, <2>1, <2>2
<1>10. CASE Exchange
  <2> DEFINE b == line.blob
  <2>1. PICK i \in DOMAIN b, n \in 1 .. 7 :
          i + 2 * n - 1 <= Len(b) /\ Spoil("exchanged", Exchanged(b, i, n))
    BY <1>10 DEF Exchange, Exchanged
  <2>2. made.kind = "certificate" => Exchanged(b, i, n) \in Seq(Unit)
    <3> SUFFICES ASSUME made.kind = "certificate" PROVE Exchanged(b, i, n) \in Seq(Unit)
      OBVIOUS
    <3>1. b \in Seq(Unit)
      BY <1>6
    <3> HIDE DEF b
    <3> QED BY <2>1, <3>1, ExchangedIs
  <2> QED BY <1>5, <2>1, <2>2
<1>11. CASE ReadCert
  <2>1. /\ made.kind = "certificate" /\ verdict' = Verdict(line)
        /\ made' = made /\ line' = line /\ damage' = damage
    BY <1>11 DEF ReadCert
  <2>2. Verdict(line)' = Verdict(line)
    BY <2>1
  <2>3. Damaged(MarshalLine(made.cert).blob)' <=> Damaged(MarshalLine(made.cert).blob)
    BY <2>1 DEF Damaged
  <2> QED BY <2>1, <2>2, <2>3 DEF CertInv
<1>12. CASE ReadKrl
  <2>1. Kept
    BY <1>12 DEF ReadKrl
  <2> QED BY <1>1, <2>1
<1>13. CASE Finished \/ UNCHANGED vars
  <2>1. Kept
    BY <1>13 DEF Finished, vars
  <2> QED BY <1>1, <2>1
<1> QED BY <1>2, <1>3, <1>4, <1>7, <1>8, <1>9, <1>10, <1>11, <1>12, <1>13 DEF Next

\* A certificate line is what MarshalLine wrote and the damage left, and the verdict is
\* ParseCertificateLine's and Verify's of it.
THEOREM CertificatesKept == Spec => []CertInv
BY CertInvStart, CertInvKept, PTL DEF Spec

\* What the reader of a certificate says.
LEMMA VerdictIs ==
  ASSUME NEW l
  PROVE  LET p == ParseCertificateLine(l)
             v == Verdict(l)
         IN  /\ v.state = "read" <=> p.ok
             /\ v # Unread
             /\ v.state = "read" => v.cert = p.val /\ v.verified = VerifyCert(p.val, CAPublic)
<1> DEFINE p == ParseCertificateLine(l)
           w == VerifyCert(p.val, CAPublic)
<1> HIDE DEF p, w
<1>1. CASE p.ok
  <2>1. Verdict(l) = [state |-> "read", cert |-> p.val, verified |-> w]
    BY <1>1 DEF Verdict, p, w
  <2>2. Verdict(l).state = "read" /\ Verdict(l).cert = p.val /\ Verdict(l).verified = w
    BY <2>1
  <2>3. Verdict(l) # Unread
    <3>1. Unread.state = "unread"
      BY DEF Unread
    <3> QED BY <2>2, <3>1
  <2> QED BY <1>1, <2>2, <2>3 DEF p, w
<1>2. CASE ~ p.ok
  <2>1. Verdict(l) = [state |-> "refused"]
    BY <1>2 DEF Verdict, p
  <2>2. Verdict(l).state = "refused"
    BY <2>1
  <2>3. Unread.state = "unread"
    BY DEF Unread
  <2> QED BY <1>2, <2>2, <2>3 DEF p
<1> QED BY <1>1, <1>2

\* A line is read only if its blob is.
LEMMA LineParsed ==
  ASSUME NEW l, ParseCertificateLine(l).ok
  PROVE  ParseCertificate(l.blob).ok /\ ParseCertificateLine(l) = ParseCertificate(l.blob)
<1>1. Refused.ok = FALSE
  BY DEF Refused
<1> QED BY <1>1 DEF ParseCertificateLine, OfAlgo

\* Certificates that say the same and carry the same signature mean the same.
LEMMA SameMeaning ==
  ASSUME NEW c \in Certs, NEW d \in Certs, SaySame(c, d), c.signature = d.signature
  PROVE  Meaning(c) = Meaning(d)
<1> DEFINE x == ToSet(c.criticalOptions)
           y == ToSet(c.extensions)
           u == ToSet(d.criticalOptions)
           w == ToSet(d.extensions)
<1>1. /\ c.criticalOptions \in Seq(Option) /\ c.extensions \in Seq(Option)
      /\ d.criticalOptions \in Seq(Option) /\ d.extensions \in Seq(Option)
  BY DEF Certs
<1>2. x = u /\ y = w
  <2>1. /\ ToSet(SortedByName(c.criticalOptions)) = x
        /\ ToSet(SortedByName(d.criticalOptions)) = u
        /\ ToSet(SortedByName(c.extensions)) = y
        /\ ToSet(SortedByName(d.extensions)) = w
    BY <1>1, SortedSameSet
  <2> QED BY <2>1 DEF SaySame
<1>3. /\ c.nonce = d.nonce /\ c.key = d.key /\ c.serial = d.serial /\ c.certType = d.certType
      /\ c.keyID = d.keyID /\ c.validPrincipals = d.validPrincipals
      /\ c.validAfter = d.validAfter /\ c.validBefore = d.validBefore
      /\ c.reserved = d.reserved /\ c.signatureKey = d.signatureKey
  BY DEF SaySame
<1>4. Meaning(c) = [c EXCEPT !.criticalOptions = x, !.extensions = y]
      /\ Meaning(d) = [d EXCEPT !.criticalOptions = u, !.extensions = w]
  BY DEF Meaning
<1> HIDE DEF x, y, u, w
<1>5. Meaning(c) =
        [nonce |-> c.nonce, key |-> c.key, serial |-> c.serial, certType |-> c.certType,
         keyID |-> c.keyID, validPrincipals |-> c.validPrincipals,
         validAfter |-> c.validAfter, validBefore |-> c.validBefore, criticalOptions |-> x,
         extensions |-> y, reserved |-> c.reserved, signatureKey |-> c.signatureKey,
         signature |-> c.signature]
  BY <1>4, CertWith
<1>6. Meaning(d) =
        [nonce |-> d.nonce, key |-> d.key, serial |-> d.serial, certType |-> d.certType,
         keyID |-> d.keyID, validPrincipals |-> d.validPrincipals,
         validAfter |-> d.validAfter, validBefore |-> d.validBefore, criticalOptions |-> u,
         extensions |-> w, reserved |-> d.reserved, signatureKey |-> d.signatureKey,
         signature |-> d.signature]
  BY <1>4, CertWith
<1> QED BY <1>2, <1>3, <1>5, <1>6

\* A sorted certificate means the same.
LEMMA CanonicalMeaning ==
  ASSUME NEW c \in Certs, NamesDecide(c.criticalOptions), NamesDecide(c.extensions),
         Canonical(c) \in Certs
  PROVE  Meaning(Canonical(c)) = Meaning(c)
<1> DEFINE d == Canonical(c)
<1>1. /\ d.nonce = c.nonce /\ d.key = c.key /\ d.serial = c.serial
      /\ d.certType = c.certType /\ d.keyID = c.keyID
      /\ d.validPrincipals = c.validPrincipals /\ d.validAfter = c.validAfter
      /\ d.validBefore = c.validBefore
      /\ d.criticalOptions = SortedByName(c.criticalOptions)
      /\ d.extensions = SortedByName(c.extensions) /\ d.reserved = c.reserved
      /\ d.signatureKey = c.signatureKey /\ d.signature = c.signature
  BY CanonicalIs
<1>2. /\ SortedByName(d.criticalOptions) = SortedByName(c.criticalOptions)
      /\ SortedByName(d.extensions) = SortedByName(c.extensions)
  <2>1. c.criticalOptions \in Seq(Option) /\ c.extensions \in Seq(Option)
    BY DEF Certs
  <2> HIDE DEF d
  <2> QED BY <1>1, <2>1, OptionsStaySorted
<1>3. d \in Certs
  OBVIOUS
<1> HIDE DEF d
<1>4. SaySame(d, c)
  BY <1>1, <1>2 DEF SaySame
<1>5. Meaning(d) = Meaning(c)
  BY <1>1, <1>3, <1>4, SameMeaning
<1> QED BY <1>5 DEF d

\* CertRoundTrip follows: an undamaged line is read as the certificate with sorted options.
LEMMA RoundTripNow == CertInv => CertRoundTrip
<1> SUFFICES ASSUME CertInv, made.kind = "certificate", damage = "none", verdict # Unread
             PROVE  /\ ReadOK
                    /\ Meaning(verdict.cert) = Meaning(made.cert)
                    /\ verdict.verified <=> made.signer = <<CA, CA>>
  BY DEF CertRoundTrip
<1> DEFINE c == made.cert
           s == made.signer
           d == Canonical(c)
<1>1. /\ s \in Signers /\ Genuine(c, s) /\ verdict = Verdict(line)
      /\ line = [name |-> CertAlgo(c.key.algo), blob |-> line.blob]
      /\ line.blob = MarshalLine(c).blob
  BY DEF CertInv, Damaged
<1>2. line = MarshalLine(c)
  <2>1. MarshalLine(c) = [name |-> CertAlgo(c.key.algo), blob |-> MarshalLine(c).blob]
    BY DEF MarshalLine
  <2> QED BY <1>1, <2>1
<1>3. /\ ParseCertificateLine(line) = Parsed(d)
      /\ VerifyCert(d, CAPublic) <=> s = <<CA, CA>>
  BY <1>1, <1>2, GenuineIsRead
<1>4. c \in Certs /\ NamesDecide(c.criticalOptions) /\ NamesDecide(c.extensions)
  BY <1>1 DEF Genuine, Encodable
<1>5. d \in Certs
  <2>1. line.blob \in Seq(Unit)
    BY DEF CertInv, Damaged
  <2>2. ParseCertificateLine(line).ok = TRUE /\ ParseCertificateLine(line).val = d
    BY <1>3, ParsedFields
  <2>3. ParseCertificate(line.blob).ok /\ ParseCertificate(line.blob).val = d
    BY <2>2, LineParsed
  <2>4. Encodable(ParseCertificate(line.blob).val)
    BY <2>1, <2>3, ReadIsEncodable
  <2> HIDE DEF d
  <2> QED BY <2>3, <2>4 DEF Encodable
<1>6. Meaning(d) = Meaning(c)
  BY <1>4, <1>5, CanonicalMeaning
<1> HIDE DEF d, s
<1>7. Parsed(d).ok = TRUE /\ Parsed(d).val = d
  BY ParsedFields
<1>8. /\ verdict.state = "read" /\ verdict.cert = d
      /\ verdict.verified = VerifyCert(d, CAPublic)
  BY <1>1, <1>3, <1>7, VerdictIs
<1> QED BY <1>3, <1>6, <1>8 DEF ReadOK, s

\* For every set of key lines, drafts and keys, a certificate that nothing has
\* happened to is read as it was meant, whatever key file was accepted, and is
\* verified if and only if the authority signed it under its own name.
THEOREM CertificatesRoundTrip == Spec => []CertRoundTrip
BY CertificatesKept, RoundTripNow, PTL

\* CertIsWhole follows: neither a beginning nor a continuation of a line is read.
LEMMA WholeNow == CertInv => CertIsWhole
<1> SUFFICES ASSUME CertInv, damage \in {"cut", "extended"}, verdict # Unread
             PROVE  ~ ReadOK
  BY DEF CertIsWhole
<1> DEFINE c == made.cert
           B == MarshalLine(c).blob
           b == line.blob
<1>1. /\ Genuine(c, made.signer) /\ verdict = Verdict(line) /\ b \in Seq(Unit)
      /\ damage = "cut"      => \E x \in Seq(Unit) : x # <<>> /\ b \o x = B
      /\ damage = "extended" => b = B \o << 0 >>
  BY DEF CertInv, Damaged
<1>2. Encodable(c)
  BY <1>1 DEF Genuine
<1>3. PICK kf : KeyIs(c.key, kf)
  BY <1>1 DEF Genuine
<1>4. ~ ParseCertificate(b).ok
  <2>1. CASE damage = "cut"
    <3>1. PICK x \in Seq(Unit) : x # <<>> /\ b \o x = B
      BY <1>1, <2>1
    <3> HIDE DEF b
    <3> QED BY <1>1, <1>2, <1>3, <3>1, LineCut
  <2>2. CASE damage = "extended"
    <3> DEFINE x == << 0 >>
    <3>1. x \in Seq(Unit) /\ x # <<>>
      BY BaseAssumption DEF Unit
    <3> HIDE DEF x
    <3>2. ~ ParseCertificate(B \o x).ok
      BY <1>2, <1>3, <3>1, LineExtended
    <3> QED BY <1>1, <2>2, <3>2 DEF x
  <2> QED BY <2>1, <2>2
<1>5. ~ ParseCertificateLine(line).ok
  BY <1>4, LineParsed
<1> QED BY <1>1, <1>5, VerdictIs DEF ReadOK

\* For every length of the cut: no beginning of a certificate is one.
THEOREM CertificatesAreWhole == Spec => []CertIsWhole
BY CertificatesKept, WholeNow, PTL

\* What ed25519 gives: a signature that is accepted was made with the authority's
\* private key, and of the message it is accepted for.
Unforged ==
  ReadOK =>
    (verdict.verified =>
       /\ made.signer[1] = CA
       /\ ToBeSigned(verdict.cert) = ToBeSigned(made.cert))

\* VerifiedMeansSigned follows: who agree on the message agree on the certificate.
LEMMA MeansSignedNow == CertInv /\ Unforged => VerifiedMeansSigned
<1> SUFFICES ASSUME CertInv, Unforged, ReadOK, verdict.verified
             PROVE  /\ made.signer = <<CA, CA>>
                    /\ Meaning(verdict.cert) = Meaning(made.cert)
  BY DEF VerifiedMeansSigned
<1> DEFINE c == made.cert
           s == made.signer
           d == verdict.cert
           b == line.blob
<1>0. verdict # Unread
  <2>1. Unread.state = "unread"
    BY DEF Unread
  <2> QED BY <2>1 DEF ReadOK
<1>1. /\ s \in Signers /\ Genuine(c, s) /\ verdict = Verdict(line) /\ b \in Seq(Unit)
  BY <1>0 DEF CertInv, Damaged
<1>2. /\ ParseCertificateLine(line).ok /\ d = ParseCertificateLine(line).val
      /\ VerifyCert(d, CAPublic)
  BY <1>1, VerdictIs DEF ReadOK
<1>3. ParseCertificate(b).ok /\ d = ParseCertificate(b).val
  BY <1>2, LineParsed
<1>4. s[1] = CA /\ ToBeSigned(d) = ToBeSigned(c)
  BY DEF Unforged
<1>5. s = <<CA, CA>>
  BY <1>1, <1>4, SignersAre
<1>6. Encodable(c)
  BY <1>1 DEF Genuine
<1>7. PICK kf : KeyIs(c.key, kf)
  BY <1>1 DEF Genuine
<1>8. c.signature = PutBytes32(Ed25519Name) \o PutBytes32(CA \o ToBeSigned(c))
  <2>1. c.signature = PutBytes32(Ed25519Name) \o PutBytes32(Ed25519Sign(s[1], ToBeSigned(c)))
    BY <1>1 DEF Genuine
  <2>2. Ed25519Sign(s[1], ToBeSigned(c)) = CA \o ToBeSigned(c)
    BY <1>4 DEF Ed25519Sign
  <2> QED BY <2>1, <2>2
<1> HIDE DEF b, d, c, s
<1>9. Encodable(d)
  BY <1>1, <1>3, ReadIsEncodable
<1>10. PICK kg : KeyIs(d.key, kg)
  BY <1>1, <1>3, ReadIsEncodable
<1>11. SaySame(d, c)
  BY <1>4, <1>6, <1>7, <1>9, <1>10, SignedDecides
<1>12. d.signature = PutBytes32(Ed25519Name) \o PutBytes32(CA \o ToBeSigned(d))
  <2>1. RawKey(CAPublic).val = CA
    <3>1. RawKey(NewEd25519PublicKey(CA)) = Parsed(CA)
      <4>1. Fits(CA) /\ Len(CA) = KeySize
        BY ArtifactAssumption
      <4> QED BY <4>1, RawKeyFound
    <3> QED BY <3>1, ParsedFields DEF CAPublic
  <2>2. SignatureOK(d, CA)
    BY <1>2, <2>1 DEF VerifyCert
  <2>3. d.signature \in Seq(Unit)
    BY <1>9 DEF Encodable, Fits
  <2> QED BY <2>2, <2>3, AcceptedSignature
<1>13. d.signature = c.signature
  BY <1>4, <1>8, <1>12
<1>14. Meaning(d) = Meaning(c)
  <2>1. c \in Certs /\ d \in Certs
    BY <1>6, <1>9 DEF Encodable
  <2> QED BY <1>11, <1>13, <2>1, SameMeaning
<1> QED BY <1>5, <1>14 DEF d, c, s

\* If signatures cannot be forged, a certificate that verifies means what the
\* authority signed, whatever has happened to its bytes.
THEOREM VerifiedCertificatesMeanSigned == Spec => [](Unforged => VerifiedMeansSigned)
BY CertificatesKept, MeansSignedNow, PTL

-----------------------------------------------------------------------------
\* Revocation lists.

\* The parts of what fits fit.
LEMMA PartFits ==
  ASSUME NEW a \in Seq(Unit), NEW v \in Seq(Unit), Fits(a \o v)
  PROVE  Fits(a) /\ Fits(v)
<1>1. Len(a \o v) = Len(a) + Len(v) /\ Len(a) \in Nat /\ Len(v) \in Nat
  BY ConcatProperties
<1>2. Len(a \o v) < Base /\ Base \in Nat
  BY BaseAssumption DEF Fits
<1>3. Len(a) < Base /\ Len(v) < Base
  BY <1>1, <1>2
<1> QED BY <1>3 DEF Fits

\* A string that fits with its length fits.
LEMMA PutFits ==
  ASSUME NEW v \in Seq(Unit), Fits(PutBytes32(v))
  PROVE  Fits(v)
<1> DEFINE a == PutUint32(Len(v))
<1>1. a \in Seq(Unit)
  <2>1. \A k \in Nat : k % Base \in 0 .. Base - 1
    BY BaseAssumption
  <2>2. Len(v) % Base \in Unit
    BY <2>1 DEF Unit
  <2> QED BY <2>2 DEF PutUint32
<1>2. Fits(a \o v)
  BY DEF PutBytes32
<1> HIDE DEF a
<1> QED BY <1>1, <1>2, PartFits

\* A tagged field, written and read.
ByteAndString == <<"byte", "string">>
ByteOf(tag) == [kind |-> "byte", val |-> <<tag>>]

\* A tagged field is read back, and the rest stays.
LEMMA NextWritten ==
  ASSUME NEW tag \in Unit, NEW data, Fits(data), NEW x \in Seq(Unit)
  PROVE  /\ Section(tag, data) \in Seq(Unit) /\ Section(tag, data) # <<>>
         /\ NextOf(Section(tag, data) \o x) = Got(<<<<tag>>, data>>, x)
<1> DEFINE u == <<tag>>
           p == ByteOf(tag)
           q == Str(data)
           g == <<p, q>>
           b == Section(tag, data)
<1>1. p \in Field /\ p.kind = "byte" /\ p.val = u /\ Put("byte", u) = u
  <2>1. u \in Seq(Unit) /\ Len(u) = 1
    OBVIOUS
  <2> HIDE DEF u
  <2>2. [kind |-> "byte", val |-> u] \in Field
    BY <2>1 DEF Field, FieldOK, Kinds
  <2> QED BY <2>2 DEF ByteOf, Put, u
<1>2. q \in Field /\ q.kind = "string" /\ q.val = data /\ Put("string", data) = PutBytes32(data)
  BY StrIs
<1> HIDE DEF u, p, q
<1>3. /\ g \in Seq(Field) /\ KindsOf(g) = <<p.kind, q.kind>>
      /\ Bytes(g) = Put(p.kind, p.val) \o Put(q.kind, q.val)
      /\ ValsOf(g) = <<p.val, q.val>>
  BY <1>1, <1>2, BytesTwo
<1> HIDE DEF g
<1>4. b = u \o PutBytes32(data)
  BY DEF Section, PutByte, u
<1>5. /\ b = Bytes(g) /\ KindsOf(g) = ByteAndString /\ ValsOf(g) = <<u, data>>
  BY <1>1, <1>2, <1>3, <1>4 DEF ByteAndString
<1>6. b \in Seq(Unit)
  BY <1>3, <1>5, FieldsAre
<1>7. b # <<>>
  <2>1. u \in Seq(Unit) /\ Len(u) = 1
    BY DEF u
  <2>2. PutBytes32(data) \in Seq(Unit)
    BY PutString
  <2> DEFINE w == PutBytes32(data)
  <2> HIDE DEF w
  <2>3. w \in Seq(Unit) /\ u \in Seq(Unit)
    BY <2>1, <2>2 DEF w
  <2>4. Len(u \o w) = Len(u) + Len(w) /\ Len(w) \in Nat
    BY <2>3, ConcatProperties
  <2>5. Len(u \o w) # 0
    BY <2>1, <2>4
  <2> QED BY <1>4, <2>5 DEF w
<1>8. Read(Bytes(g) \o x, KindsOf(g)) = Got(ValsOf(g), x)
  BY <1>3, FieldsWrittenAreRead
<1> HIDE DEF b
<1>9. NextOf(b \o x) = Got(<<u, data>>, x)
  BY <1>5, <1>8 DEF NextOf, ByteAndString
<1> QED BY <1>6, <1>7, <1>9 DEF b, u

\* A tag and a string are kinds of fields.
LEMMA NextKinds == ByteAndString \in Seq(Kinds) /\ ByteAndString # <<>>
BY DEF ByteAndString, Kinds

\* There is no next field in nothing.
LEMMA NextNone == ~ NextOf(<<>>).ok
<1> SUFFICES ASSUME NextOf(<<>>).ok PROVE FALSE
  OBVIOUS
<1>1. Read(<<>>, ByteAndString).ok /\ <<>> \in Seq(Unit)
  BY DEF NextOf, ByteAndString
<1>2. PICK g \in Seq(Field), r \in Seq(Unit) :
        KindsOf(g) = ByteAndString /\ <<>> = Bytes(g) \o r
  BY <1>1, NextKinds, FieldsReadAreWritten
<1>3. g \in GroupsOf(ByteAndString)
  BY <1>2 DEF GroupsOf
<1>4. Bytes(g) \in Seq(Unit) /\ Len(Bytes(g)) >= 1
  BY <1>3, NextKinds, GroupIs
<1> DEFINE b == Bytes(g)
<1> HIDE DEF b
<1>5. b \in Seq(Unit) /\ r \in Seq(Unit) /\ Len(b) >= 1
  BY <1>4 DEF b
<1>6. Len(b \o r) = Len(b) + Len(r) /\ Len(b) \in Nat /\ Len(r) \in Nat
  BY <1>5, ConcatProperties
<1>7. Len(b \o r) # 0
  BY <1>5, <1>6
<1> QED BY <1>2, <1>7 DEF b

\* A part of a tagged field is none.
LEMMA NextCut ==
  ASSUME NEW tag \in Unit, NEW data, Fits(data), NEW b \in Seq(Unit), NEW x \in Seq(Unit),
         x # <<>>, b \o x = Section(tag, data)
  PROVE  ~ NextOf(b).ok
<1> SUFFICES ASSUME NextOf(b).ok PROVE FALSE
  OBVIOUS
<1> DEFINE s == Section(tag, data)
<1>1. /\ s \in Seq(Unit) /\ NextOf(s \o <<>>) = Got(<<<<tag>>, data>>, <<>>)
  <2>1. <<>> \in Seq(Unit)
    OBVIOUS
  <2> QED BY <2>1, NextWritten
<1>2. b \o x = s
  OBVIOUS
<1> HIDE DEF s
<1>3. s \o <<>> = s
  BY <1>1
<1>4. NextOf(s).rest = <<>>
  BY <1>1, <1>3, GotFields
<1>5. Read(b, ByteAndString).ok
  BY DEF NextOf, ByteAndString
<1>6. /\ Read(b, ByteAndString).rest \in Seq(Unit)
      /\ Read(b \o x, ByteAndString) =
           Got(Read(b, ByteAndString).val, Read(b, ByteAndString).rest \o x)
  BY <1>5, NextKinds, ReadExtends
<1> DEFINE r == Read(b, ByteAndString).rest
<1> DEFINE v == Read(b, ByteAndString).val
<1>8. r \in Seq(Unit)
  BY <1>6
<1>12. Read(b \o x, ByteAndString) = Got(v, r \o x)
  BY <1>6
<1> HIDE DEF r, v
<1>7. NextOf(s).rest = r \o x
  <2>1. NextOf(b \o x) = Got(v, r \o x)
    BY <1>12 DEF NextOf, ByteAndString
  <2>2. Got(v, r \o x).rest = r \o x
    BY GotFields
  <2> QED BY <1>2, <2>1, <2>2
<1>9. Len(r \o x) = Len(r) + Len(x) /\ Len(r) \in Nat /\ Len(x) \in Nat
  BY <1>8, ConcatProperties
<1>10. Len(x) # 0
  OBVIOUS
<1>11. Len(r \o x) # 0
  BY <1>9, <1>10
<1> QED BY <1>4, <1>7, <1>11

\* The lists of a revocation list: serials once each and in order.
LEMMA SerialsListed ==
  ASSUME NEW serials \in Seq(0 .. MaxUint64)
  PROVE  LET d == DedupSorted(serials)
         IN  /\ d \in Seq(0 .. MaxUint64) /\ DOMAIN d = 1 .. Len(d) /\ Len(d) \in Nat
             /\ ToSet(d) = ToSet(serials)
             /\ \A i, j \in DOMAIN d : i < j => d[i] < d[j]
<1> DEFINE S == ToSet(serials)
           n == Cardinality(S)
           d == DedupSorted(serials)
           Up(t) == \A i, j \in DOMAIN t : i < j => t[i] < t[j]
<1>1. S = {serials[i] : i \in 1 .. Len(serials)} /\ serials \in [1 .. Len(serials) -> 0 .. MaxUint64]
  <2> DEFINE T == 0 .. MaxUint64
  <2>1. serials \in Seq(T)
    OBVIOUS
  <2> HIDE DEF T
  <2>2. serials \in [1 .. Len(serials) -> T] /\ DOMAIN serials = 1 .. Len(serials)
    BY <2>1
  <2>3. S = {serials[i] : i \in 1 .. Len(serials)}
    BY <2>2 DEF ToSet
  <2> QED BY <2>2, <2>3 DEF T
<1>2. IsFiniteSet(S)
  <2> DEFINE m == Len(serials)
             T == 0 .. MaxUint64
  <2>1. m \in Nat /\ serials \in [1 .. m -> T] /\ S = {serials[i] : i \in 1 .. m}
    BY <1>1
  <2> HIDE DEF m, T, S
  <2> QED BY <2>1, ElementsFinite
<1>3. S \in SUBSET Int /\ S \subseteq 0 .. MaxUint64
  BY <1>1
<1> HIDE DEF S
<1>4. n \in Nat
  BY <1>2, FS_CardinalityType
<1>5. PICK t \in [1 .. n -> S] : \A i, j \in 1 .. n : i < j => t[i] < t[j]
  BY <1>2, <1>3, IncreasingListExists
<1>6. d = CHOOSE u \in [1 .. n -> S] : Up(u)
  BY DEF DedupSorted, S
<1>7. d \in [1 .. n -> S] /\ Up(d)
  <2>1. \E u \in [1 .. n -> S] : Up(u)
    BY <1>5
  <2> QED BY <1>6, <2>1
<1> HIDE DEF d
<1>8. DOMAIN d = 1 .. n /\ \A i, j \in 1 .. n : i < j => d[i] < d[j]
  BY <1>7
<1>9. \A x \in S : \E i \in 1 .. n : d[i] = x
  BY <1>2, <1>3, <1>7, <1>8, IncreasingListIsAll
<1> HIDE DEF n
<1>10. ToSet(d) = S
  BY <1>7, <1>8, <1>9 DEF ToSet
<1>11. d \in Seq(0 .. MaxUint64) /\ Len(d) = n
  <2> DEFINE T == 0 .. MaxUint64
  <2>1. d \in [1 .. n -> T]
    BY <1>3, <1>7
  <2> HIDE DEF T
  <2>2. d \in Seq(T) /\ Len(d) = n
    BY <1>4, <2>1
  <2> QED BY <2>2 DEF T
<1> QED BY <1>4, <1>7, <1>8, <1>10, <1>11 DEF S, d

\* Key IDs in order, as often as they were given.
LEMMA KeyIDsListed ==
  ASSUME NEW ids \in Seq(Seq(Unit)), \A i \in DOMAIN ids : Fits(ids[i])
  PROVE  LET s == SortedIDs(ids)
         IN  /\ s \in Seq(Seq(Unit)) /\ \A i \in DOMAIN s : Fits(s[i])
             /\ \E p \in Bijection(DOMAIN s, DOMAIN ids) :
                  \A i \in DOMAIN s : s[i] = ids[p[i]]
<1> DEFINE n == Len(ids)
           p == Sorting(ids)
           s == SortedIDs(ids)
<1>1. n \in Nat /\ DOMAIN ids = 1 .. n /\ ids \in [1 .. n -> Seq(Unit)]
  OBVIOUS
<1>2. s = [i \in 1 .. n |-> ids[p[i]]]
  BY <1>1 DEF SortedIDs
<1> HIDE DEF p
<1>3. p \in Bijection(1 .. n, 1 .. n)
  <2> DEFINE m == n
  <2>1. m \in Nat /\ ids \in [1 .. m -> Seq(Unit)]
    BY <1>1
  <2> HIDE DEF m
  <2>2. Sorting(ids) \in Bijection(1 .. m, 1 .. m)
    BY <2>1, SortingSorts
  <2> QED BY <2>2 DEF m, p
<1>4. \A i \in 1 .. n : p[i] \in 1 .. n
  BY <1>3 DEF Bijection, Injection
<1>5. s \in Seq(Seq(Unit)) /\ DOMAIN s = 1 .. n /\ \A i \in 1 .. n : s[i] = ids[p[i]]
  <2> DEFINE m == n
             K == Seq(Unit)
  <2>1. m \in Nat /\ s \in [1 .. m -> K]
    BY <1>1, <1>2, <1>4
  <2>2. DOMAIN s = 1 .. m
    BY <1>2
  <2>3. \A i \in 1 .. m : s[i] = ids[p[i]]
    BY <1>2
  <2> HIDE DEF m, K, s
  <2>4. s \in Seq(K)
    BY <2>1
  <2> QED BY <2>2, <2>3, <2>4 DEF m, K
<1> HIDE DEF s
<1>6. \A i \in DOMAIN s : Fits(s[i])
  BY <1>1, <1>4, <1>5
<1>7. p \in Bijection(DOMAIN s, DOMAIN ids) /\ \A i \in DOMAIN s : s[i] = ids[p[i]]
  BY <1>1, <1>3, <1>5
<1> QED BY <1>5, <1>6, <1>7 DEF s

OneUint64 == <<"uint64">>

\* A list of serials, written and read.
LEMMA SerialListRead ==
  ASSUME NEW d \in Seq(0 .. MaxUint64)
  PROVE  LET b == Concat([i \in DOMAIN d |-> PutUint64(d[i])])
         IN  b \in Seq(Unit) /\ SerialsIn(b) = Got(d, <<>>)
<1> DEFINE n == Len(d)
           groups == [i \in 1 .. n |-> <<U64(d[i])>>]
           b == Concat([i \in DOMAIN d |-> PutUint64(d[i])])
<1>1. n \in Nat /\ DOMAIN d = 1 .. n /\ \A i \in 1 .. n : d[i] \in 0 .. MaxUint64
  <2> DEFINE T == 0 .. MaxUint64
  <2>1. d \in Seq(T)
    OBVIOUS
  <2> HIDE DEF T
  <2>2. n \in Nat /\ DOMAIN d = 1 .. n /\ \A i \in 1 .. n : d[i] \in T
    BY <2>1
  <2> QED BY <2>2 DEF T
<1>2. OneUint64 \in Seq(Kinds) /\ OneUint64 # <<>>
  BY DEF OneUint64, Kinds
<1>3. ASSUME NEW x \in 0 .. MaxUint64
      PROVE  /\ <<U64(x)>> \in GroupsOf(OneUint64)
             /\ Bytes(<<U64(x)>>) = PutUint64(x) /\ ValsOf(<<U64(x)>>) = <<PutUint64(x)>>
  <2> DEFINE f == U64(x)
  <2>1. /\ f \in Field /\ f.kind = "uint64" /\ f.val = PutUint64(x)
        /\ Put("uint64", PutUint64(x)) = PutUint64(x)
    BY NumberFields
  <2> HIDE DEF f
  <2>2. /\ <<f>> \in Seq(Field) /\ Bytes(<<f>>) = Put(f.kind, f.val)
        /\ KindsOf(<<f>>) = <<f.kind>> /\ ValsOf(<<f>>) = <<f.val>>
    BY <2>1, BytesOne
  <2> QED BY <2>1, <2>2 DEF f, GroupsOf, OneUint64
<1>4. \A i \in 1 .. n : /\ groups[i] \in GroupsOf(OneUint64)
                        /\ Bytes(groups[i]) = PutUint64(d[i])
                        /\ ValsOf(groups[i]) = <<PutUint64(d[i])>>
  BY <1>1, <1>3
<1>5. groups \in Seq(GroupsOf(OneUint64)) /\ Len(groups) = n /\ DOMAIN groups = 1 .. n
  <2> DEFINE K == GroupsOf(OneUint64)
  <2>1. groups \in [1 .. n -> K]
    BY <1>4
  <2> HIDE DEF groups, K, n
  <2>2. groups \in Seq(K) /\ Len(groups) = n /\ DOMAIN groups = 1 .. n
    BY <1>1, <2>1
  <2> QED BY <2>2 DEF K
<1> HIDE DEF groups
<1>6. b = AllBytes(groups)
  BY <1>1, <1>4, <1>5 DEF AllBytes
<1>7. b \in Seq(Unit) /\ ReadAll(b, OneUint64) = Got(AllVals(groups), <<>>)
  <2>1. b \in Seq(Unit)
    BY <1>2, <1>5, <1>6, GroupsAre
  <2>2. ReadAll(AllBytes(groups), OneUint64) = Got(AllVals(groups), <<>>)
    BY <1>2, <1>5, GroupsWrittenAreRead
  <2> QED BY <1>6, <2>1, <2>2
<1> DEFINE all == ReadAll(b, OneUint64)
           v == AllVals(groups)
<1>8. [i \in DOMAIN v |-> Uint64(v[i][1])] = d
  <2>1. DOMAIN v = 1 .. n /\ \A i \in 1 .. n : v[i] = <<PutUint64(d[i])>>
    BY <1>4, <1>5 DEF AllVals
  <2>2. \A i \in 1 .. n : v[i][1] = PutUint64(d[i])
    BY <2>1
  <2>3. \A i \in 1 .. n : Uint64(PutUint64(d[i])) = d[i]
    BY <1>1, NumberUnits
  <2>4. [i \in DOMAIN v |-> Uint64(v[i][1])] = [i \in 1 .. n |-> d[i]]
    BY <2>1, <2>2, <2>3
  <2> QED BY <1>1, <2>4
<1>9. all.ok = TRUE /\ all.val = v
  BY <1>7, GotFields
<1>10. SerialsIn(b) = IF all.ok THEN Got([i \in DOMAIN all.val |-> Uint64(all.val[i][1])], <<>>)
                                ELSE Short
  BY DEF SerialsIn, OneUint64
<1> QED BY <1>7, <1>8, <1>9, <1>10

\* A string is written as units, whatever its length.
LEMMA PutUnits ==
  ASSUME NEW v \in Seq(Unit)
  PROVE  PutBytes32(v) \in Seq(Unit)
<1> DEFINE a == PutUint32(Len(v))
<1>1. a \in Seq(Unit)
  <2>1. \A k \in Nat : k % Base \in 0 .. Base - 1
    BY BaseAssumption
  <2>2. Len(v) % Base \in Unit
    BY <2>1 DEF Unit
  <2> QED BY <2>2 DEF PutUint32
<1> HIDE DEF a
<1>2. a \o v \in Seq(Unit)
  BY <1>1
<1> QED BY <1>2 DEF PutBytes32, a

\* The tags of sections are bytes.
LEMMA TagsAre ==
  /\ SectionCertificates \in Unit /\ CertSectionSerialList \in Unit
  /\ CertSectionKeyID \in Unit /\ FormatVersion \in Unit
<1>1. Base \in Nat /\ Base > 35
  BY KrlAssumption, BaseAssumption DEF CertSectionKeyID
<1> QED BY <1>1 DEF SectionCertificates, CertSectionSerialList, CertSectionKeyID, FormatVersion, Unit

SerialPuts(k) == LET d == DedupSorted(k.serials) IN [i \in DOMAIN d |-> PutUint64(d[i])]
KeyIDPuts(k)  == LET s == SortedIDs(k.keyIDs) IN [i \in DOMAIN s |-> PutBytes32(s[i])]
SerialPart(k) == Subsection(CertSectionSerialList, SerialPuts(k))
KeyIDPart(k)  == Subsection(CertSectionKeyID, KeyIDPuts(k))

\* A subsection is left out or written with its tag.
LEMMA SubsectionIs ==
  ASSUME NEW tag \in Unit, NEW list \in Seq(Seq(Unit))
  PROVE  LET s == Subsection(tag, list)
         IN  /\ s \in Seq(Unit)
             /\ list = <<>> => s = <<>>
             /\ list # <<>> /\ Fits(s) =>
                  Fits(Concat(list)) /\ s = Section(tag, Concat(list)) /\ s # <<>>
<1> DEFINE s == Subsection(tag, list)
           b == Concat(list)
           t == <<tag>>
           p == PutBytes32(b)
<1>1. b \in Seq(Unit)
  BY ConcatIsSeq
<1>2. p \in Seq(Unit) /\ t \in Seq(Unit)
  <2> HIDE DEF b
  <2> QED BY <1>1, PutUnits
<1>3. /\ list = <<>> => s = <<>>
      /\ list # <<>> => s = t \o p /\ s = Section(tag, b)
  BY DEF Subsection, Section, PutByte
<1> HIDE DEF s
<1>4. s \in Seq(Unit)
  <2> HIDE DEF t, p
  <2>1. t \o p \in Seq(Unit)
    BY <1>2
  <2>2. <<>> \in Seq(Unit)
    OBVIOUS
  <2> QED BY <1>3, <2>1, <2>2, Zenon
<1>5. ASSUME list # <<>>, Fits(s) PROVE Fits(b) /\ s # <<>>
  <2>1. Fits(t \o p)
    BY <1>3, <1>5
  <2>2. Fits(p)
    <3> HIDE DEF t, p
    <3> QED BY <1>2, <2>1, PartFits
  <2>3. Fits(b)
    <3> HIDE DEF b
    <3> QED BY <1>1, <2>2, PutFits
  <2>4. Section(tag, b) # <<>>
    <3>1. <<>> \in Seq(Unit)
      OBVIOUS
    <3> HIDE DEF b
    <3> QED BY <2>3, <3>1, NextWritten
  <2> QED BY <1>3, <1>5, <2>3, <2>4
<1> QED BY <1>3, <1>4, <1>5 DEF s

\* A list of a KRL in its subsection.
HasList(part, tag, data, list) ==
  /\ part \in Seq(Unit)
  /\ part = <<>> => list = <<>>
  /\ part # <<>> =>
       \A x \in Seq(Unit) : /\ part \o x # <<>>
                            /\ NextOf(part \o x) = Got(<<<<tag>>, data>>, x)

\* A list and its subsection.
LEMMA HasListIs ==
  ASSUME NEW tag \in Unit, NEW puts \in Seq(Seq(Unit)), NEW list, list = <<>> <=> puts = <<>>,
         Fits(Subsection(tag, puts))
  PROVE  HasList(Subsection(tag, puts), tag, Concat(puts), list)
<1> DEFINE s == Subsection(tag, puts)
           b == Concat(puts)
<1>1. /\ s \in Seq(Unit)
      /\ puts = <<>> => s = <<>>
      /\ puts # <<>> => Fits(b) /\ s = Section(tag, b) /\ s # <<>>
  BY SubsectionIs
<1> HIDE DEF s, b
<1>2. CASE puts = <<>>
  BY <1>1, <1>2 DEF HasList, s, b
<1>3. CASE puts # <<>>
  <2>1. \A x \in Seq(Unit) : NextOf(s \o x) = Got(<<<<tag>>, b>>, x)
    BY <1>1, <1>3, NextWritten
  <2>2. \A x \in Seq(Unit) : s \o x # <<>>
    <3> TAKE x \in Seq(Unit)
    <3>1. s \in Seq(Unit) /\ s # <<>>
      BY <1>1, <1>3
    <3>2. Len(s) # 0 /\ Len(s) \in Nat /\ Len(x) \in Nat
      BY <3>1
    <3>3. Len(s \o x) = Len(s) + Len(x)
      BY <3>1, ConcatProperties
    <3>4. Len(s \o x) # 0
      BY <3>2, <3>3
    <3> QED BY <3>4
  <2> QED BY <1>1, <1>3, <2>1, <2>2 DEF HasList, s, b
<1> QED BY <1>2, <1>3

\* The lists of a KRL, as they are written and as they are read.
LEMMA PutsAre ==
  ASSUME NEW k, KrlFits(k)
  PROVE  /\ SerialPuts(k) \in Seq(Seq(Unit))
         /\ SerialPuts(k) = <<>> <=> DedupSorted(k.serials) = <<>>
         /\ SerialsIn(Concat(SerialPuts(k))) = Got(DedupSorted(k.serials), <<>>)
         /\ KeyIDPuts(k) \in Seq(Seq(Unit))
         /\ KeyIDPuts(k) = <<>> <=> SortedIDs(k.keyIDs) = <<>>
         /\ KeyIDsIn(Concat(KeyIDPuts(k))) = Got(SortedIDs(k.keyIDs), <<>>)
<1> DEFINE d == DedupSorted(k.serials)
           s == SortedIDs(k.keyIDs)
           T == 0 .. MaxUint64
           K == Seq(Unit)
<1>1. /\ k.serials \in Seq(T) /\ k.keyIDs \in Seq(K)
      /\ \A i \in DOMAIN k.keyIDs : Fits(k.keyIDs[i])
  BY DEF KrlFits
<1>2. d \in Seq(T)
  BY <1>1, SerialsListed
<1>3. s \in Seq(K) /\ \A i \in DOMAIN s : Fits(s[i])
  BY <1>1, KeyIDsListed
<1> HIDE DEF d, s
<1>4. SerialPuts(k) = [i \in DOMAIN d |-> PutUint64(d[i])]
  BY DEF SerialPuts, d
<1>5. KeyIDPuts(k) = [i \in DOMAIN s |-> PutBytes32(s[i])]
  BY DEF KeyIDPuts, s
<1>6. SerialsIn(Concat(SerialPuts(k))) = Got(d, <<>>)
  BY <1>2, <1>4, SerialListRead
<1>7. KeyIDsIn(Concat(KeyIDPuts(k))) = Got(s, <<>>)
  <2>1. Concat(KeyIDPuts(k)) = PackStringList(s)
    BY <1>5 DEF PackStringList
  <2>2. GetStringList(PackStringList(s)) = Got(s, <<>>)
    BY <1>3, StringListRead
  <2> QED BY <2>1, <2>2 DEF KeyIDsIn
<1>8. \A x \in T : PutUint64(x) \in K
  BY NumberUnits
<1>9. \A i \in DOMAIN s : PutBytes32(s[i]) \in K
  BY <1>3, PutString
<1> HIDE DEF T, K
<1>10. SerialPuts(k) \in Seq(K) /\ (SerialPuts(k) = <<>> <=> d = <<>>)
  BY <1>2, <1>4, <1>8
<1>11. KeyIDPuts(k) \in Seq(K) /\ (KeyIDPuts(k) = <<>> <=> s = <<>>)
  BY <1>3, <1>5, <1>9
<1> QED BY <1>6, <1>7, <1>10, <1>11 DEF d, s, K

\* The section of a certificate authority, read.
LEMMA SectionIs ==
  ASSUME NEW k, KrlFits(k)
  PROVE  /\ SectionHead(CertSection(k)) = Got(<<k.caKey, <<>>>>, SerialPart(k) \o KeyIDPart(k))
         /\ HasList(SerialPart(k), CertSectionSerialList, Concat(SerialPuts(k)),
                    DedupSorted(k.serials))
         /\ HasList(KeyIDPart(k), CertSectionKeyID, Concat(KeyIDPuts(k)), SortedIDs(k.keyIDs))
<1> DEFINE p == PutBytes32(k.caKey)
           q == PutBytes32(<<>>)
           s == SerialPart(k)
           t == KeyIDPart(k)
           c == CertSection(k)
<1>1. Fits(k.caKey) /\ Fits(<<>>) /\ Fits(c)
  <2>1. <<>> \in Seq(Unit) /\ Len(<<>>) = 0 /\ Base \in Nat /\ Base > 0
    BY BaseAssumption
  <2> QED BY <2>1 DEF KrlFits, Fits
<1>2. /\ SerialPuts(k) \in Seq(Seq(Unit)) /\ KeyIDPuts(k) \in Seq(Seq(Unit))
      /\ SerialPuts(k) = <<>> <=> DedupSorted(k.serials) = <<>>
      /\ KeyIDPuts(k) = <<>> <=> SortedIDs(k.keyIDs) = <<>>
  BY PutsAre
<1>3. c = p \o q \o s \o t
  BY DEF CertSection, SerialPart, KeyIDPart, SerialPuts, KeyIDPuts
<1>4. s \in Seq(Unit) /\ t \in Seq(Unit)
  BY <1>2, TagsAre, SubsectionIs DEF SerialPart, KeyIDPart
<1>5. p \in Seq(Unit) /\ q \in Seq(Unit)
  BY <1>1, PutString
<1>6. SectionHead((p \o q) \o (s \o t)) = Got(<<k.caKey, <<>>>>, s \o t)
  <2> DEFINE g == <<Str(k.caKey), Str(<<>>)>>
             x == s \o t
  <2>1. g \in GroupsOf(TwoStrings) /\ Bytes(g) = p \o q /\ ValsOf(g) = <<k.caKey, <<>>>>
    BY <1>1, TwoGroup
  <2> HIDE DEF g
  <2>2. g \in Seq(Field) /\ KindsOf(g) = TwoStrings
    BY <2>1 DEF GroupsOf
  <2>3. x \in Seq(Unit)
    <3> HIDE DEF s, t
    <3> QED BY <1>4
  <2> HIDE DEF x
  <2>4. Read(Bytes(g) \o x, KindsOf(g)) = Got(ValsOf(g), x)
    BY <2>2, <2>3, FieldsWrittenAreRead
  <2>5. SectionHead(Bytes(g) \o x) = Got(ValsOf(g), x)
    BY <2>2, <2>4 DEF SectionHead, TwoStrings
  <2> QED BY <2>1, <2>5 DEF x
<1> HIDE DEF p, q, s, t, c
<1>7. c = (p \o q) \o (s \o t)
  <2>1. p \o q \in Seq(Unit)
    BY <1>5
  <2> QED BY <1>3, <1>4, <2>1, UnitsAssociative
<1>8. Fits(s) /\ Fits(t)
  <2> DEFINE x == p \o q
             y == s \o t
  <2>1. x \in Seq(Unit) /\ y \in Seq(Unit)
    BY <1>4, <1>5
  <2>2. Fits(x \o y)
    BY <1>1, <1>7
  <2> HIDE DEF x, y
  <2>3. Fits(y)
    BY <2>1, <2>2, PartFits
  <2>4. Fits(s \o t)
    BY <2>3 DEF y
  <2> QED BY <1>4, <2>4, PartFits
<1>9. HasList(s, CertSectionSerialList, Concat(SerialPuts(k)), DedupSorted(k.serials))
  BY <1>2, <1>8, TagsAre, HasListIs DEF s, SerialPart
<1>10. HasList(t, CertSectionKeyID, Concat(KeyIDPuts(k)), SortedIDs(k.keyIDs))
  BY <1>2, <1>8, TagsAre, HasListIs DEF t, KeyIDPart
<1> QED BY <1>6, <1>7, <1>9, <1>10 DEF s, t, c

HeaderVals(k) ==
  <<PutUint64(Magic), PutUint32(FormatVersion), PutUint64(k.version),
    PutUint64(k.generatedAt), PutUint64(0), <<>>, k.comment>>

\* The header of a KRL, read.
LEMMA HeaderIs ==
  ASSUME NEW k, KrlFits(k), NEW x \in Seq(Unit)
  PROVE  /\ Header(k) \in Seq(Unit)
         /\ HeaderOf(Header(k) \o x) = Got(HeaderVals(k), x)
<1>1. /\ Magic \in 0 .. MaxUint64 /\ k.version \in 0 .. MaxUint64
      /\ k.generatedAt \in 0 .. MaxUint64 /\ 0 \in 0 .. MaxUint64 /\ FormatVersion \in Unit
  <2>1. 0 \in 0 .. MaxUint64
    <3>1. Magic \in 0 .. MaxUint64
      BY KrlAssumption
    <3> QED BY <3>1, BaseAssumption DEF MaxUint64
  <2> QED BY <2>1, KrlAssumption, TagsAre DEF KrlFits
<1>2. Fits(<<>>) /\ Fits(k.comment)
  <2>1. <<>> \in Seq(Unit) /\ Len(<<>>) = 0 /\ Base \in Nat /\ Base > 0
    BY BaseAssumption
  <2> QED BY <2>1 DEF KrlFits, Fits
<1> DEFINE x1 == U64(Magic)
           x2 == U32(FormatVersion)
           x3 == U64(k.version)
           x4 == U64(k.generatedAt)
           x5 == U64(0)
           x6 == Str(<<>>)
           x7 == Str(k.comment)
<1>3. \A n \in 0 .. MaxUint64 : /\ U64(n) \in Field /\ U64(n).kind = "uint64"
                                /\ U64(n).val = PutUint64(n)
                                /\ Put("uint64", PutUint64(n)) = PutUint64(n)
  BY NumberFields
<1>4. /\ x1 \in Field /\ x1.kind = "uint64" /\ x1.val = PutUint64(Magic)
      /\ Put("uint64", PutUint64(Magic)) = PutUint64(Magic)
  BY <1>1, <1>3
<1>5. /\ x2 \in Field /\ x2.kind = "uint32" /\ x2.val = PutUint32(FormatVersion)
      /\ Put("uint32", PutUint32(FormatVersion)) = PutUint32(FormatVersion)
  BY <1>1, NumberFields
<1>6. /\ x3 \in Field /\ x3.kind = "uint64" /\ x3.val = PutUint64(k.version)
      /\ Put("uint64", PutUint64(k.version)) = PutUint64(k.version)
  BY <1>1, <1>3
<1>7. /\ x4 \in Field /\ x4.kind = "uint64" /\ x4.val = PutUint64(k.generatedAt)
      /\ Put("uint64", PutUint64(k.generatedAt)) = PutUint64(k.generatedAt)
  BY <1>1, <1>3
<1>8. /\ x5 \in Field /\ x5.kind = "uint64" /\ x5.val = PutUint64(0)
      /\ Put("uint64", PutUint64(0)) = PutUint64(0)
  BY <1>1, <1>3
<1>9. /\ x6 \in Field /\ x6.kind = "string" /\ x6.val = <<>>
      /\ Put("string", <<>>) = PutBytes32(<<>>)
  BY <1>2, StrIs
<1>10. /\ x7 \in Field /\ x7.kind = "string" /\ x7.val = k.comment
       /\ Put("string", k.comment) = PutBytes32(k.comment)
  BY <1>2, StrIs
<1> DEFINE h == <<x1, x2, x3, x4, x5, x6, x7>>
           p == <<PutUint64(Magic), PutUint32(FormatVersion), PutUint64(k.version),
                  PutUint64(k.generatedAt), PutUint64(0), PutBytes32(<<>>),
                  PutBytes32(k.comment)>>
<1>11. Header(k) = Concat(p)
  BY DEF Header
<1> HIDE DEF x1, x2, x3, x4, x5, x6, x7
<1>12. h \in Seq(Field)
  BY <1>4, <1>5, <1>6, <1>7, <1>8, <1>9, <1>10
<1>13. Puts(h) = <<Put(x1.kind, x1.val), Put(x2.kind, x2.val), Put(x3.kind, x3.val),
                   Put(x4.kind, x4.val), Put(x5.kind, x5.val), Put(x6.kind, x6.val),
                   Put(x7.kind, x7.val)>>
  BY DEF Puts
<1>14. KindsOf(h) = <<x1.kind, x2.kind, x3.kind, x4.kind, x5.kind, x6.kind, x7.kind>>
  BY DEF KindsOf
<1>15. ValsOf(h) = <<x1.val, x2.val, x3.val, x4.val, x5.val, x6.val, x7.val>>
  BY DEF ValsOf
<1> HIDE DEF h
<1>16. Puts(h) = p
  BY <1>4, <1>5, <1>6, <1>7, <1>8, <1>9, <1>10, <1>13, Zenon
<1>17. KindsOf(h) = <<"uint64", "uint32", "uint64", "uint64", "uint64", "string", "string">>
  BY <1>4, <1>5, <1>6, <1>7, <1>8, <1>9, <1>10, <1>14
<1>18. ValsOf(h) = HeaderVals(k)
  BY <1>4, <1>5, <1>6, <1>7, <1>8, <1>9, <1>10, <1>15, Zenon DEF HeaderVals
<1> HIDE DEF p
<1>19. Header(k) = Bytes(h)
  BY <1>11, <1>16 DEF Bytes
<1>20. Bytes(h) \in Seq(Unit)
  BY <1>12, FieldsAre
<1>21. Read(Bytes(h) \o x, KindsOf(h)) = Got(ValsOf(h), x)
  BY <1>12, FieldsWrittenAreRead
<1>22. HeaderOf(Header(k) \o x) = Got(HeaderVals(k), x)
  BY <1>17, <1>18, <1>19, <1>21 DEF HeaderOf
<1> QED BY <1>19, <1>20, <1>22

\* The header says the version, the time and the comment.
LEMMA HeaderHas ==
  ASSUME NEW k, KrlFits(k)
  PROVE  /\ Uint64(HeaderVals(k)[1]) = Magic /\ Uint32(HeaderVals(k)[2]) = FormatVersion
         /\ Uint64(HeaderVals(k)[3]) = k.version
         /\ Uint64(HeaderVals(k)[4]) = k.generatedAt /\ HeaderVals(k)[7] = k.comment
<1>1. /\ Magic \in 0 .. MaxUint64 /\ k.version \in 0 .. MaxUint64
      /\ k.generatedAt \in 0 .. MaxUint64 /\ FormatVersion \in Unit
  BY KrlAssumption, TagsAre DEF KrlFits
<1>2. /\ HeaderVals(k)[1] = PutUint64(Magic) /\ HeaderVals(k)[2] = PutUint32(FormatVersion)
      /\ HeaderVals(k)[3] = PutUint64(k.version) /\ HeaderVals(k)[4] = PutUint64(k.generatedAt)
      /\ HeaderVals(k)[7] = k.comment
  BY DEF HeaderVals
<1>3. /\ Uint64(PutUint64(Magic)) = Magic /\ Uint32(PutUint32(FormatVersion)) = FormatVersion
      /\ Uint64(PutUint64(k.version)) = k.version
      /\ Uint64(PutUint64(k.generatedAt)) = k.generatedAt
  BY <1>1, NumberUnits, SmallNumber
<1> QED BY <1>2, <1>3

\* A KRL in the course of being read.
ReadSoFar(k, caKey, serials, keyIDs) ==
  [version |-> k.version, generatedAt |-> k.generatedAt, comment |-> k.comment,
   caKey |-> caKey, serials |-> serials, keyIDs |-> keyIDs]

CertTagged(k) == Section(SectionCertificates, CertSection(k))

\* The section of a KRL is not nothing, and no part of it is a tagged field.
LEMMA TaggedIs ==
  ASSUME NEW k, KrlFits(k)
  PROVE  /\ CertTagged(k) \in Seq(Unit) /\ CertTagged(k) # <<>>
         /\ NextOf(CertTagged(k)) = Got(<<<<SectionCertificates>>, CertSection(k)>>, <<>>)
         /\ \A b, x \in Seq(Unit) : x # <<>> /\ b \o x = CertTagged(k) => ~ NextOf(b).ok
<1> DEFINE s == CertTagged(k)
           c == CertSection(k)
           tag == SectionCertificates
<1>1. Fits(c) /\ tag \in Unit
  BY TagsAre DEF KrlFits
<1>2. <<>> \in Seq(Unit)
  OBVIOUS
<1>3. s = Section(tag, c)
  BY DEF CertTagged
<1> HIDE DEF s, c, tag
<1>4. s \in Seq(Unit) /\ s # <<>> /\ NextOf(s \o <<>>) = Got(<<<<tag>>, c>>, <<>>)
  BY <1>1, <1>2, <1>3, NextWritten
<1>5. s \o <<>> = s
  BY <1>4
<1>6. \A b, x \in Seq(Unit) : x # <<>> /\ b \o x = s => ~ NextOf(b).ok
  BY <1>1, <1>3, NextCut
<1> QED BY <1>4, <1>5, <1>6 DEF s, c, tag

\* A KRL is its header and one section.
LEMMA FileIs ==
  ASSUME NEW k, KrlFits(k)
  PROVE  /\ Marshal(k) = Header(k) \o CertTagged(k) /\ Marshal(k) \in Seq(Unit)
         /\ HeaderOf(Marshal(k)) = Got(HeaderVals(k), CertTagged(k))
<1> DEFINE t == CertTagged(k)
           h == Header(k)
<1>1. Marshal(k) = h \o t
  BY DEF Marshal, CertTagged
<1>2. t \in Seq(Unit)
  BY TaggedIs
<1> HIDE DEF t
<1>3. h \in Seq(Unit) /\ HeaderOf(h \o t) = Got(HeaderVals(k), t)
  BY <1>2, HeaderIs
<1> HIDE DEF h
<1>4. h \o t \in Seq(Unit)
  BY <1>2, <1>3
<1> QED BY <1>1, <1>3, <1>4 DEF t, h

\* A KRL that was cut: if its header is read, the rest is a part of the section.
LEMMA CutFile ==
  ASSUME NEW k, KrlFits(k), NEW b \in Seq(Unit), NEW x \in Seq(Unit), x # <<>>,
         b \o x = Marshal(k), HeaderOf(b).ok
  PROVE  /\ HeaderOf(b).val = HeaderVals(k) /\ HeaderOf(b).rest \in Seq(Unit)
         /\ HeaderOf(b).rest \o x = CertTagged(k)
<1> DEFINE kinds == <<"uint64", "uint32", "uint64", "uint64", "uint64", "string", "string">>
           r == HeaderOf(b).rest
           v == HeaderOf(b).val
           t == CertTagged(k)
           w == HeaderVals(k)
<1>1. kinds \in Seq(Kinds)
  BY DEF Kinds
<1>2. \A y : HeaderOf(y) = Read(y, kinds)
  BY DEF HeaderOf
<1> HIDE DEF kinds
<1>3. Read(b, kinds).ok
  BY <1>2
<1>4. /\ Read(b, kinds).rest \in Seq(Unit)
      /\ Read(b \o x, kinds) = Got(Read(b, kinds).val, Read(b, kinds).rest \o x)
  BY <1>1, <1>3, ReadExtends
<1>5. r \in Seq(Unit) /\ HeaderOf(b \o x) = Got(v, r \o x)
  BY <1>2, <1>4
<1>6. HeaderOf(b \o x) = Got(w, t)
  BY FileIs
<1> HIDE DEF r, v, t, w
<1>7. Got(v, r \o x) = Got(w, t)
  BY <1>5, <1>6
<1>8. /\ Got(v, r \o x).val = v /\ Got(v, r \o x).rest = r \o x
      /\ Got(w, t).val = w /\ Got(w, t).rest = t
  BY GotFields
<1>9. v = w /\ r \o x = t
  BY <1>7, <1>8
<1> QED BY <1>5, <1>9 DEF r, v, t, w

-----------------------------------------------------------------------------
\* How far the reader of a KRL that was not damaged has come.
AtHeader      == phase = "idle" /\ krl = EmptyKrl
AtSection(k)  == phase = "sections" /\ rest = CertTagged(k) /\ krl = ReadSoFar(k, <<>>, <<>>, <<>>)
AtSerials(k)  == /\ phase = "subsections" /\ rest = <<>> /\ sub = SerialPart(k) \o KeyIDPart(k)
                 /\ krl = ReadSoFar(k, k.caKey, <<>>, <<>>)
AtKeyIDs(k)   == /\ phase = "subsections" /\ rest = <<>> /\ sub = KeyIDPart(k)
                 /\ krl = ReadSoFar(k, k.caKey, DedupSorted(k.serials), <<>>)
AtEnd(k)      == /\ phase = "subsections" /\ rest = <<>> /\ sub = <<>>
                 /\ krl = ReadSoFar(k, k.caKey, DedupSorted(k.serials), SortedIDs(k.keyIDs))
AfterEnd(k)   == /\ phase \in {"sections", "done"} /\ rest = <<>>
                 /\ krl = ReadSoFar(k, k.caKey, DedupSorted(k.serials), SortedIDs(k.keyIDs))

\* The tag and the data of the next field.
LEMMA TagIs ==
  ASSUME NEW b, NEW tag, NEW data, NEW x, NextOf(b) = Got(<<<<tag>>, data>>, x)
  PROVE  NextOf(b).ok = TRUE /\ Tag(b) = tag /\ Data(b) = data /\ NextOf(b).rest = x
<1> DEFINE v == <<<<tag>>, data>>
<1>1. v[1] = <<tag>> /\ v[2] = data /\ <<tag>>[1] = tag
  OBVIOUS
<1> HIDE DEF v
<1>2. NextOf(b).ok = TRUE /\ NextOf(b).val = v /\ NextOf(b).rest = x
  BY GotFields DEF v
<1> QED BY <1>1, <1>2 DEF Tag, Data

\* What a step adds to a KRL that is being read.
LEMMA ReadSoFarIs ==
  ASSUME NEW k, NEW caKey, NEW serials, NEW keyIDs, NEW y
  PROVE  LET r == ReadSoFar(k, caKey, serials, keyIDs)
         IN  /\ r.caKey = caKey /\ r.serials = serials /\ r.keyIDs = keyIDs
             /\ [r EXCEPT !.caKey = y] = ReadSoFar(k, y, serials, keyIDs)
             /\ [r EXCEPT !.serials = y] = ReadSoFar(k, caKey, y, keyIDs)
             /\ [r EXCEPT !.keyIDs = y] = ReadSoFar(k, caKey, serials, y)
BY DEF ReadSoFar

\* ReadHeader is the only step at the beginning, and finds the section.
LEMMA FromHeader ==
  ASSUME NEW k, KrlFits(k), AtHeader, Parse(Marshal(k))
  PROVE  AtSection(k)'
<1> DEFINE b == Marshal(k)
           v == HeaderVals(k)
           t == CertTagged(k)
<1>1. HeaderOf(b) = Got(v, t)
  BY FileIs
<1>2. /\ Uint64(v[1]) = Magic /\ Uint32(v[2]) = FormatVersion /\ Uint64(v[3]) = k.version
      /\ Uint64(v[4]) = k.generatedAt /\ v[7] = k.comment
  BY HeaderHas
<1> HIDE DEF b, v, t
<1>3. HeaderOf(b).ok = TRUE /\ HeaderOf(b).val = v /\ HeaderOf(b).rest = t
  BY <1>1, GotFields
<1>4. HeaderOK(b)
  BY <1>2, <1>3 DEF HeaderOK
<1>5. phase = "idle"
  BY DEF AtHeader
<1>6. ~ Refuse(b)
  BY <1>4, <1>5 DEF Refuse, Malformed, AtSubsection
<1>7. /\ ~ SkipSection /\ ~ ReadCertSection /\ ~ Done /\ ~ ReadSerialList /\ ~ ReadSerialRange
      /\ ~ ReadKeyIDs /\ ~ SectionDone /\ ~ ExpandRange /\ ~ RangeDone
  BY <1>5 DEF SkipSection, ReadCertSection, Done, ReadSerialList, ReadSerialRange, ReadKeyIDs,
              SectionDone, ExpandRange, RangeDone, AtSubsection
<1>8. ReadHeader(b)
  <2>1. Parse(b)
    BY DEF b
  <2> QED BY <1>6, <1>7, <2>1 DEF Parse
<1>9. phase' = "sections" /\ rest' = t
  BY <1>3, <1>8 DEF ReadHeader
<1>10. krl' = [EmptyKrl EXCEPT !.version = k.version, !.generatedAt = k.generatedAt,
                               !.comment = k.comment]
  BY <1>2, <1>3, <1>8 DEF ReadHeader
<1>11. krl' = ReadSoFar(k, <<>>, <<>>, <<>>)
  BY <1>10 DEF EmptyKrl, ReadSoFar
<1> QED BY <1>9, <1>11 DEF AtSection, t

\* ReadCertSection is the only step at the section, and finds its key.
LEMMA FromSection ==
  ASSUME NEW k, KrlFits(k), AtSection(k), NEW b, Parse(b)
  PROVE  AtSerials(k)'
<1> DEFINE c == CertSection(k)
           s == SerialPart(k) \o KeyIDPart(k)
<1>1. phase = "sections" /\ krl = ReadSoFar(k, <<>>, <<>>, <<>>)
  BY DEF AtSection
<1>2. rest # <<>> /\ NextOf(rest) = Got(<<<<SectionCertificates>>, c>>, <<>>)
  <2>1. rest = CertTagged(k)
    BY DEF AtSection
  <2> QED BY <2>1, TaggedIs
<1>3. SectionHead(c) = Got(<<k.caKey, <<>>>>, s)
  BY SectionIs
<1> HIDE DEF c, s
<1>4. NextOf(rest).ok = TRUE /\ Tag(rest) = SectionCertificates /\ Data(rest) = c /\ NextOf(rest).rest = <<>>
  BY <1>2, TagIs
<1>5. SectionHead(c).ok = TRUE /\ SectionHead(c).val[1] = k.caKey /\ SectionHead(c).rest = s
  <2> DEFINE v == <<k.caKey, <<>>>>
  <2>1. v[1] = k.caKey
    OBVIOUS
  <2> HIDE DEF v
  <2>2. SectionHead(c) = Got(v, s)
    BY <1>3 DEF v
  <2> QED BY <2>1, <2>2, GotFields
<1>6. IsCertSection(rest) /\ SectionHead(Data(rest)).ok
  BY <1>4, <1>5 DEF IsCertSection
<1>7. ~ Refuse(b)
  BY <1>1, <1>4, <1>6 DEF Refuse, Malformed, AtSubsection
<1>8. /\ ~ ReadHeader(b) /\ ~ SkipSection /\ ~ Done /\ ~ ReadSerialList /\ ~ ReadSerialRange
      /\ ~ ReadKeyIDs /\ ~ SectionDone /\ ~ ExpandRange /\ ~ RangeDone
  BY <1>1, <1>2, <1>6 DEF ReadHeader, SkipSection, Done, ReadSerialList, ReadSerialRange,
                          ReadKeyIDs, SectionDone, ExpandRange, RangeDone, AtSubsection
<1>9. ReadCertSection
  BY <1>7, <1>8 DEF Parse
<1>10. /\ phase' = "subsections" /\ rest' = <<>> /\ sub' = s
       /\ krl' = [krl EXCEPT !.caKey = k.caKey]
  BY <1>4, <1>5, <1>9 DEF ReadCertSection
<1>11. krl' = ReadSoFar(k, k.caKey, <<>>, <<>>)
  BY <1>1, <1>10, ReadSoFarIs
<1> QED BY <1>10, <1>11 DEF AtSerials, s

\* ReadSerialList is the only step at the serials, and reads them all.
LEMMA FromSerials ==
  ASSUME NEW k, KrlFits(k), AtSerials(k), SerialPart(k) # <<>>, NEW b, Parse(b)
  PROVE  AtKeyIDs(k)'
<1> DEFINE d == DedupSorted(k.serials)
           c == Concat(SerialPuts(k))
           s == SerialPart(k)
           t == KeyIDPart(k)
<1>1. phase = "subsections" /\ rest = <<>> /\ sub = s \o t /\ krl = ReadSoFar(k, k.caKey, <<>>, <<>>)
  BY DEF AtSerials
<1>2. /\ HasList(s, CertSectionSerialList, c, d)
      /\ HasList(t, CertSectionKeyID, Concat(KeyIDPuts(k)), SortedIDs(k.keyIDs))
  BY SectionIs
<1>3. SerialsIn(c) = Got(d, <<>>)
  BY PutsAre
<1>4. d \in Seq(0 .. MaxUint64)
  <2>1. k.serials \in Seq(0 .. MaxUint64)
    BY DEF KrlFits
  <2> QED BY <2>1, SerialsListed
<1>5. <<>> \o d = d
  BY <1>4
<1>6. s # <<>>
  OBVIOUS
<1> HIDE DEF d, c, s, t
<1>7. sub # <<>> /\ NextOf(sub) = Got(<<<<CertSectionSerialList>>, c>>, t)
  BY <1>1, <1>2, <1>6 DEF HasList
<1>8. NextOf(sub).ok = TRUE /\ Tag(sub) = CertSectionSerialList /\ Data(sub) = c /\ NextOf(sub).rest = t
  BY <1>7, TagIs
<1>9. SerialsIn(c).ok = TRUE /\ SerialsIn(c).val = d
  BY <1>3, GotFields
<1>10. /\ AtSubsection(CertSectionSerialList) /\ ~ AtSubsection(CertSectionSerialRange)
       /\ ~ AtSubsection(CertSectionKeyID)
  BY <1>1, <1>8
  DEF AtSubsection, CertSectionSerialList, CertSectionSerialRange, CertSectionKeyID
<1>11. ~ Refuse(b)
  BY <1>1, <1>8, <1>9, <1>10 DEF Refuse, Malformed
<1>12. /\ ~ ReadHeader(b) /\ ~ SkipSection /\ ~ ReadCertSection /\ ~ Done /\ ~ ReadSerialRange
       /\ ~ ReadKeyIDs /\ ~ SectionDone /\ ~ ExpandRange /\ ~ RangeDone
  BY <1>1, <1>7, <1>10 DEF ReadHeader, SkipSection, ReadCertSection, Done, ReadSerialRange,
                           ReadKeyIDs, SectionDone, ExpandRange, RangeDone
<1>13. ReadSerialList
  BY <1>11, <1>12 DEF Parse
<1>14. /\ phase' = "subsections" /\ rest' = <<>> /\ sub' = t
       /\ krl' = [krl EXCEPT !.serials = krl.serials \o d]
  BY <1>1, <1>8, <1>9, <1>13 DEF ReadSerialList
<1>15. krl' = ReadSoFar(k, k.caKey, d, <<>>)
  <2>1. krl.serials = <<>>
    BY <1>1, ReadSoFarIs
  <2>2. krl' = [krl EXCEPT !.serials = d]
    BY <1>5, <1>14, <2>1
  <2> QED BY <1>1, <2>2, ReadSoFarIs
<1> QED BY <1>14, <1>15 DEF AtKeyIDs, t, d

\* ReadKeyIDs is the only step at the key IDs, and reads them all.
LEMMA FromKeyIDs ==
  ASSUME NEW k, KrlFits(k), AtKeyIDs(k), KeyIDPart(k) # <<>>, NEW b, Parse(b)
  PROVE  AtEnd(k)'
<1> DEFINE d == DedupSorted(k.serials)
           i == SortedIDs(k.keyIDs)
           c == Concat(KeyIDPuts(k))
           t == KeyIDPart(k)
<1>1. phase = "subsections" /\ rest = <<>> /\ sub = t /\ krl = ReadSoFar(k, k.caKey, d, <<>>)
  BY DEF AtKeyIDs
<1>2. HasList(t, CertSectionKeyID, c, i)
  BY SectionIs
<1>3. KeyIDsIn(c) = Got(i, <<>>)
  BY PutsAre
<1>4. i \in Seq(Seq(Unit))
  <2>1. /\ k.keyIDs \in Seq(Seq(Unit)) /\ \A j \in DOMAIN k.keyIDs : Fits(k.keyIDs[j])
    BY DEF KrlFits
  <2> QED BY <2>1, KeyIDsListed
<1>5. <<>> \o i = i
  BY <1>4
<1>6. t # <<>>
  OBVIOUS
<1> HIDE DEF d, i, c, t
<1>7. sub # <<>> /\ NextOf(sub) = Got(<<<<CertSectionKeyID>>, c>>, <<>>)
  <2>1. t \in Seq(Unit) /\ <<>> \in Seq(Unit)
    BY <1>2 DEF HasList
  <2>2. t \o <<>> = t
    BY <2>1
  <2>3. NextOf(t \o <<>>) = Got(<<<<CertSectionKeyID>>, c>>, <<>>)
    BY <1>2, <1>6, <2>1 DEF HasList
  <2> QED BY <1>1, <1>6, <2>2, <2>3
<1>8. NextOf(sub).ok = TRUE /\ Tag(sub) = CertSectionKeyID /\ Data(sub) = c /\ NextOf(sub).rest = <<>>
  BY <1>7, TagIs
<1>9. KeyIDsIn(c).ok = TRUE /\ KeyIDsIn(c).val = i
  BY <1>3, GotFields
<1>10. /\ AtSubsection(CertSectionKeyID) /\ ~ AtSubsection(CertSectionSerialRange)
       /\ ~ AtSubsection(CertSectionSerialList)
  BY <1>1, <1>8
  DEF AtSubsection, CertSectionSerialList, CertSectionSerialRange, CertSectionKeyID
<1>11. ~ Refuse(b)
  BY <1>1, <1>8, <1>9, <1>10 DEF Refuse, Malformed
<1>12. /\ ~ ReadHeader(b) /\ ~ SkipSection /\ ~ ReadCertSection /\ ~ Done /\ ~ ReadSerialRange
       /\ ~ ReadSerialList /\ ~ SectionDone /\ ~ ExpandRange /\ ~ RangeDone
  BY <1>1, <1>7, <1>10 DEF ReadHeader, SkipSection, ReadCertSection, Done, ReadSerialRange,
                           ReadSerialList, SectionDone, ExpandRange, RangeDone
<1>13. ReadKeyIDs
  BY <1>11, <1>12 DEF Parse
<1>14. /\ phase' = "subsections" /\ rest' = <<>> /\ sub' = <<>>
       /\ krl' = [krl EXCEPT !.keyIDs = krl.keyIDs \o i]
  BY <1>1, <1>8, <1>9, <1>13 DEF ReadKeyIDs
<1>15. krl' = ReadSoFar(k, k.caKey, d, i)
  <2>1. krl.keyIDs = <<>>
    BY <1>1, ReadSoFarIs
  <2>2. krl' = [krl EXCEPT !.keyIDs = i]
    BY <1>5, <1>14, <2>1
  <2> QED BY <1>1, <2>2, ReadSoFarIs
<1> QED BY <1>14, <1>15 DEF AtEnd, d, i

\* SectionDone and Done end the reading.
LEMMA FromEnd ==
  ASSUME NEW k, AtEnd(k) \/ AfterEnd(k), NEW b, Parse(b)
  PROVE  AfterEnd(k)'
<1> DEFINE full == ReadSoFar(k, k.caKey, DedupSorted(k.serials), SortedIDs(k.keyIDs))
<1>1. /\ (phase = "subsections" /\ sub = <<>>) \/ phase \in {"sections", "done"}
      /\ rest = <<>> /\ krl = full
  BY DEF AtEnd, AfterEnd
<1> HIDE DEF full
<1>2. ~ NextOf(<<>>).ok
  BY NextNone
<1>3. ~ Refuse(b)
  BY <1>1, <1>2 DEF Refuse, Malformed, AtSubsection, IsCertSection
<1>4. /\ ~ ReadHeader(b) /\ ~ SkipSection /\ ~ ReadCertSection /\ ~ ReadSerialList
      /\ ~ ReadSerialRange /\ ~ ReadKeyIDs /\ ~ ExpandRange /\ ~ RangeDone
  BY <1>1, <1>2 DEF ReadHeader, SkipSection, ReadCertSection, ReadSerialList, ReadSerialRange,
                    ReadKeyIDs, ExpandRange, RangeDone, AtSubsection, IsCertSection
<1>5. Done \/ SectionDone
  BY <1>3, <1>4 DEF Parse
<1>6. phase' \in {"sections", "done"} /\ rest' = <<>> /\ krl' = full
  BY <1>1, <1>5 DEF Done, SectionDone
<1> QED BY <1>6 DEF AfterEnd, full

Undamaged(k) ==
  AtHeader \/ AtSection(k) \/ AtSerials(k) \/ AtKeyIDs(k) \/ AtEnd(k) \/ AfterEnd(k)

\* A part of a sequence that lacks the end.
Beginning(b, whole) == b \in Seq(Unit) /\ \E x \in Seq(Unit) : x # <<>> /\ b \o x = whole

\* The reader of a KRL that was cut gets no further than the section.
CutRead(k) ==
  /\ krl.caKey = <<>> /\ krl.serials = <<>> /\ krl.keyIDs = <<>>
  /\ phase \in {"idle", "sections", "done", "refused"}
  /\ phase = "sections" => Beginning(rest, CertTagged(k))

\* A step of Parse takes the reader of an undamaged KRL further and refuses nothing.
LEMMA UndamagedStep ==
  ASSUME NEW k, KrlFits(k), Undamaged(k), Parse(Marshal(k))
  PROVE  Undamaged(k)'
<1>1. ASSUME AtSerials(k), SerialPart(k) = <<>> PROVE AtKeyIDs(k)
  <2> DEFINE s == SerialPart(k)
             t == KeyIDPart(k)
             d == DedupSorted(k.serials)
  <2>1. /\ phase = "subsections" /\ rest = <<>> /\ sub = s \o t
        /\ krl = ReadSoFar(k, k.caKey, <<>>, <<>>)
    BY <1>1 DEF AtSerials
  <2>2. d = <<>>
    BY <1>1, SectionIs DEF HasList
  <2>3. t \in Seq(Unit)
    BY SectionIs DEF HasList
  <2>4. s = <<>>
    BY <1>1
  <2> HIDE DEF s, t, d
  <2>5. sub = t
    BY <2>1, <2>3, <2>4
  <2> QED BY <2>1, <2>2, <2>5 DEF AtKeyIDs, t, d
<1>2. ASSUME AtKeyIDs(k), KeyIDPart(k) = <<>> PROVE AtEnd(k)
  <2>1. SortedIDs(k.keyIDs) = <<>>
    BY <1>2, SectionIs DEF HasList
  <2> QED BY <1>2, <2>1 DEF AtKeyIDs, AtEnd
<1>3. CASE AtHeader
  BY <1>3, FromHeader DEF Undamaged
<1>4. CASE AtSection(k)
  BY <1>4, FromSection DEF Undamaged
<1>5. CASE AtEnd(k) \/ AfterEnd(k)
  BY <1>5, FromEnd DEF Undamaged
<1>6. CASE AtKeyIDs(k)
  <2>1. CASE KeyIDPart(k) # <<>>
    BY <1>6, <2>1, FromKeyIDs DEF Undamaged
  <2> QED BY <1>2, <1>5, <1>6, <2>1
<1>7. CASE AtSerials(k)
  <2>1. CASE SerialPart(k) # <<>>
    BY <1>7, <2>1, FromSerials DEF Undamaged
  <2> QED BY <1>1, <1>6, <1>7, <2>1
<1> QED BY <1>3, <1>4, <1>5, <1>6, <1>7 DEF Undamaged

\* A step of Parse takes the reader of a KRL that was cut no further than its header.
LEMMA CutStep ==
  ASSUME NEW k, KrlFits(k), NEW b, Beginning(b, Marshal(k)), CutRead(k), Parse(b)
  PROVE  CutRead(k)'
<1>1. CASE phase = "idle"
  <2>1. /\ ~ SkipSection /\ ~ ReadCertSection /\ ~ Done /\ ~ ReadSerialList /\ ~ ReadSerialRange
        /\ ~ ReadKeyIDs /\ ~ SectionDone /\ ~ ExpandRange /\ ~ RangeDone
    BY <1>1 DEF SkipSection, ReadCertSection, Done, ReadSerialList, ReadSerialRange, ReadKeyIDs,
                SectionDone, ExpandRange, RangeDone, AtSubsection
  <2>2. CASE Refuse(b)
    BY <2>2 DEF CutRead, Refuse
  <2>3. CASE ReadHeader(b)
    <3>1. b \in Seq(Unit) /\ HeaderOf(b).ok
      BY <2>3 DEF Beginning, ReadHeader, HeaderOK
    <3>2. PICK x \in Seq(Unit) : x # <<>> /\ b \o x = Marshal(k)
      BY DEF Beginning
    <3> DEFINE r == HeaderOf(b).rest
               t == CertTagged(k)
    <3>3. r \in Seq(Unit) /\ r \o x = t
      BY <3>1, <3>2, CutFile
    <3>4. phase' = "sections" /\ rest' = r
      BY <2>3 DEF ReadHeader
    <3> DEFINE h == HeaderOf(b)
               v == Uint64(h.val[3])
               g == Uint64(h.val[4])
               c == h.val[7]
    <3>5. krl' = [EmptyKrl EXCEPT !.version = v, !.generatedAt = g, !.comment = c]
      BY <2>3 DEF ReadHeader
    <3> HIDE DEF r, t, v, g, c
    <3>6. krl'.caKey = <<>> /\ krl'.serials = <<>> /\ krl'.keyIDs = <<>>
      BY <3>5 DEF EmptyKrl
    <3>7. Beginning(rest', t)
      BY <3>2, <3>3, <3>4 DEF Beginning
    <3> QED BY <3>4, <3>6, <3>7 DEF CutRead, Beginning, t
  <2> QED BY <2>1, <2>2, <2>3 DEF Parse
<1>2. CASE phase = "sections"
  <2>1. PICK x \in Seq(Unit) : x # <<>> /\ rest \o x = CertTagged(k)
    BY <1>2 DEF CutRead, Beginning
  <2>2. ~ NextOf(rest).ok
    <3>1. rest \in Seq(Unit)
      BY <1>2 DEF CutRead, Beginning
    <3> QED BY <2>1, <3>1, TaggedIs
  <2>3. /\ ~ ReadHeader(b) /\ ~ SkipSection /\ ~ ReadCertSection /\ ~ ReadSerialList
        /\ ~ ReadSerialRange /\ ~ ReadKeyIDs /\ ~ SectionDone /\ ~ ExpandRange /\ ~ RangeDone
    BY <1>2, <2>2 DEF ReadHeader, SkipSection, ReadCertSection, ReadSerialList, ReadSerialRange,
                      ReadKeyIDs, SectionDone, ExpandRange, RangeDone, AtSubsection, IsCertSection
  <2>4. Done \/ Refuse(b)
    BY <2>3 DEF Parse
  <2>5. phase' \in {"done", "refused"} /\ krl' = krl
    BY <2>4 DEF Done, Refuse
  <2> QED BY <2>5 DEF CutRead
<1>3. CASE phase \in {"done", "refused"}
  <2>1. ~ Parse(b)
    BY <1>3 DEF Parse, ReadHeader, SkipSection, ReadCertSection, Done, ReadSerialList,
                ReadSerialRange, ReadKeyIDs, SectionDone, ExpandRange, RangeDone, AtSubsection,
                Refuse, Malformed
  <2> QED BY <2>1
<1> QED BY <1>1, <1>2, <1>3 DEF CutRead

KrlInv ==
  /\ made.kind = "nothing" => damage = "none" /\ phase = "idle"
  /\ phase = "idle" => krl = EmptyKrl
  /\ made.kind = "krl" =>
       /\ KrlFits(made.krl)
       /\ line = [name |-> <<>>, blob |-> line.blob]
       /\ damage = "none" => line.blob = Marshal(made.krl) /\ Undamaged(made.krl)
       /\ damage = "cut"  => Beginning(line.blob, Marshal(made.krl)) /\ CutRead(made.krl)

\* Nothing has been read at the start.
LEMMA KrlInvStart == Init => KrlInv
BY DEF Init, KrlInv, ParserInit

\* Every step of Export, the damages and ReadKrl keeps the reader where it can be.
LEMMA KrlInvKept == KrlInv /\ [Next]_vars => KrlInv'
<1> SUFFICES ASSUME KrlInv, [Next]_vars PROVE KrlInv'
  OBVIOUS
<1>1. CASE UNCHANGED <<made, line, damage, parser>>
  <2>1. KrlInv' <=> KrlInv
    BY <1>1 DEF KrlInv, Undamaged, CutRead, AtHeader, AtSection, AtSerials, AtKeyIDs, AtEnd,
                AfterEnd, parser
  <2> QED BY <2>1
<1>2. CASE Certify \/ Import
  <2>1. made'.kind \in {"certificate", "foreign"} /\ phase' = phase /\ krl' = krl
    BY <1>2 DEF Certify, Import, parser
  <2> QED BY <2>1 DEF KrlInv
<1>3. CASE Export
  <2>1. PICK k \in Lists : /\ made' = [kind |-> "krl", krl |-> k]
                           /\ line' = [name |-> <<>>, blob |-> Marshal(k)]
    BY <1>3 DEF Export
  <2>2. made.kind = "nothing" /\ damage' = damage /\ phase' = phase /\ krl' = krl
    BY <1>3 DEF Export, parser
  <2>3. damage = "none" /\ phase = "idle" /\ krl = EmptyKrl
    BY <2>2 DEF KrlInv
  <2>4. KrlFits(k)
    BY ArtifactAssumption
  <2> DEFINE b == Marshal(k)
  <2>5. line' = [name |-> <<>>, blob |-> b]
    BY <2>1
  <2>6. made'.kind = "krl" /\ made'.krl = k
    BY <2>1
  <2> HIDE DEF b
  <2>7. line'.blob = b /\ line' = [name |-> <<>>, blob |-> line'.blob]
    BY <2>5
  <2>8. Undamaged(made.krl)'
    BY <2>2, <2>3 DEF Undamaged, AtHeader
  <2> QED BY <2>2, <2>3, <2>4, <2>6, <2>7, <2>8 DEF KrlInv, b
<1>4. ASSUME NEW kind \in {"cut", "extended", "altered", "exchanged"}, NEW blob, Spoil(kind, blob),
             made.kind = "krl" /\ kind = "cut" => Beginning(blob, line.blob)
      PROVE  KrlInv'
  <2>1. /\ made.kind # "nothing" /\ damage = "none" /\ phase = "idle" /\ damage' = kind
        /\ line' = [line EXCEPT !.blob = blob] /\ made' = made /\ phase' = phase /\ krl' = krl
    BY <1>4 DEF Spoil, parser
  <2>2. krl = EmptyKrl
    BY <2>1 DEF KrlInv
  <2>3. CASE made.kind # "krl"
    BY <2>1, <2>2, <2>3 DEF KrlInv
  <2>4. CASE made.kind = "krl"
    <3> DEFINE k == made.krl
    <3>1. KrlFits(k) /\ line = [name |-> <<>>, blob |-> line.blob] /\ line.blob = Marshal(k)
      BY <2>1, <2>4 DEF KrlInv
    <3>2. line' = [name |-> <<>>, blob |-> blob] /\ line'.blob = blob
      BY <2>1, <3>1
    <3>3. CutRead(made.krl)'
      BY <2>1, <2>2 DEF CutRead, EmptyKrl
    <3>4. kind = "cut" => Beginning(line.blob, Marshal(made.krl))'
      <4>1. kind = "cut" => Beginning(blob, Marshal(k))
        BY <1>4, <2>4, <3>1
      <4>2. made'.krl = k
        BY <2>1
      <4> HIDE DEF k
      <4> QED BY <3>2, <4>1, <4>2 DEF Beginning
    <3>5. made' = made /\ kind # "none" /\ line' = [name |-> <<>>, blob |-> line'.blob]
      BY <1>4, <2>1, <3>2
    <3> QED BY <2>1, <2>2, <2>4, <3>1, <3>3, <3>4, <3>5 DEF KrlInv
  <2> QED BY <2>3, <2>4
<1>5. CASE Cut
  <2>1. PICK n \in 0 .. Len(line.blob) - 1 : Spoil("cut", SubSeq(line.blob, 1, n))
    BY <1>5 DEF Cut
  <2> DEFINE b == line.blob
             r == SubSeq(b, 1, n)
  <2>2. made.kind = "krl" => Beginning(r, b)
    <3> SUFFICES ASSUME made.kind = "krl" PROVE Beginning(r, b)
      OBVIOUS
    <3>1. damage = "none"
      BY <2>1 DEF Spoil
    <3>2. KrlFits(made.krl) /\ b = Marshal(made.krl)
      BY <3>1 DEF KrlInv
    <3>3. b \in Seq(Unit)
      BY <3>2, FileIs
    <3> HIDE DEF b
    <3> QED BY <2>1, <3>3, CutIs DEF Beginning, b
  <2> HIDE DEF r
  <2> QED BY <1>4, <2>1, <2>2 DEF r
<1>6. CASE Extend
  <2>1. Spoil("extended", Append(line.blob, 0))
    BY <1>6 DEF Extend
  <2> QED BY <1>4, <2>1
<1>7. CASE Alter
  <2>1. PICK i \in DOMAIN line.blob, d \in {1, Base - 1} :
          Spoil("altered", [line.blob EXCEPT ![i] = (@ + d) % Base])
    BY <1>7 DEF Alter
  <2> QED BY <1>4, <2>1
<1>8. CASE Exchange
  <2>1. PICK i \in DOMAIN line.blob, n \in 1 .. 7 : Spoil("exchanged", Exchanged(line.blob, i, n))
    BY <1>8 DEF Exchange, Exchanged
  <2> QED BY <1>4, <2>1
<1>9. CASE ReadCert \/ Finished \/ UNCHANGED vars
  <2>1. UNCHANGED <<made, line, damage, parser>>
    BY <1>9 DEF ReadCert, Finished, vars
  <2> QED BY <1>1, <2>1
<1>10. CASE ReadKrl
  <2>1. /\ made.kind \in {"krl", "foreign"} /\ Parse(line.blob)
        /\ made' = made /\ line' = line /\ damage' = damage
    BY <1>10 DEF ReadKrl
  <2>2. phase' # "idle"
    BY <2>1 DEF Parse, ReadHeader, SkipSection, ReadCertSection, Done, ReadSerialList,
                ReadSerialRange, ReadKeyIDs, SectionDone, ExpandRange, RangeDone, AtSubsection,
                Refuse
  <2>3. CASE made.kind = "foreign"
    BY <2>1, <2>2, <2>3 DEF KrlInv
  <2>4. CASE made.kind = "krl"
    <3> DEFINE k == made.krl
    <3>1. KrlFits(k) /\ line = [name |-> <<>>, blob |-> line.blob]
      BY <2>4 DEF KrlInv
    <3>2. damage = "none" => line.blob = Marshal(k) /\ Undamaged(k)
      BY <2>4 DEF KrlInv
    <3>3. damage = "cut" => Beginning(line.blob, Marshal(k)) /\ CutRead(k)
      BY <2>4 DEF KrlInv
    <3>4. PICK m : m = k
      OBVIOUS
    <3>5. damage = "none" => Undamaged(m)'
      BY <2>1, <3>1, <3>2, <3>4, UndamagedStep
    <3>6. damage = "cut" => CutRead(m)'
      BY <2>1, <3>1, <3>3, <3>4, CutStep
    <3>7. made'.krl = m
      BY <2>1, <3>4
    <3>8. (damage = "none" => Undamaged(made.krl)') /\ (damage = "cut" => CutRead(made.krl)')
      BY <2>1, <3>4, <3>5, <3>6, <3>7 DEF Undamaged, CutRead, AtHeader, AtSection, AtSerials, AtKeyIDs, AtEnd,
                AfterEnd
    <3>9. damage = "cut" => Beginning(line.blob, Marshal(made.krl))'
      BY <2>1, <3>3
    <3> QED BY <2>1, <2>2, <2>4, <3>1, <3>2, <3>8, <3>9 DEF KrlInv
  <2> QED BY <2>1, <2>3, <2>4
<1> QED BY <1>2, <1>3, <1>5, <1>6, <1>7, <1>8, <1>9, <1>10 DEF Next

\* Where the reader of a KRL of the authority can be, by what happened to the file.
THEOREM ListsKept == Spec => []KrlInv
BY KrlInvStart, KrlInvKept, PTL DEF Spec

WithLists(k, serials, keyIDs) == [k EXCEPT !.serials = serials, !.keyIDs = keyIDs]

\* A KRL with other lists.
LEMMA ReadSoFarAll ==
  ASSUME NEW k, KrlFits(k), NEW x, NEW y
  PROVE  ReadSoFar(k, k.caKey, x, y) = WithLists(k, x, y)
<1> DEFINE A == 0 .. MaxUint64
           B == Seq(Unit)
           C == Seq(A)
           D == Seq(B)
           a == k.version
           b == k.generatedAt
           c == k.comment
           d == k.caKey
           e == k.serials
           f == k.keyIDs
           r == [version |-> a, generatedAt |-> b, comment |-> c, caKey |-> d, serials |-> e,
                 keyIDs |-> f]
<1>1. k \in [version : A, generatedAt : A, comment : B, caKey : B, serials : C, keyIDs : D]
  BY DEF KrlFits
<1> HIDE DEF A, B, C, D
<1>2. k = r
  BY <1>1
<1>3. ReadSoFar(k, k.caKey, x, y) = [version |-> a, generatedAt |-> b, comment |-> c, caKey |-> d,
                                     serials |-> x, keyIDs |-> y]
  BY DEF ReadSoFar
<1> HIDE DEF a, b, c, d, e, f
<1> DEFINE q == [version |-> a, generatedAt |-> b, comment |-> c, caKey |-> d, serials |-> x,
                 keyIDs |-> f]
<1>5. [r EXCEPT !.serials = x] = q
  OBVIOUS
<1>6. [q EXCEPT !.keyIDs = y] =
        [version |-> a, generatedAt |-> b, comment |-> c, caKey |-> d, serials |-> x, keyIDs |-> y]
  OBVIOUS
<1>4. [r EXCEPT !.serials = x, !.keyIDs = y] =
        [version |-> a, generatedAt |-> b, comment |-> c, caKey |-> d, serials |-> x, keyIDs |-> y]
  <2> HIDE DEF q, r
  <2>1. [r EXCEPT !.serials = x, !.keyIDs = y] = [[r EXCEPT !.serials = x] EXCEPT !.keyIDs = y]
    OBVIOUS
  <2> QED BY <1>5, <1>6, <2>1
<1> HIDE DEF r, q
<1> QED BY <1>2, <1>3, <1>4 DEF WithLists

\* KrlRoundTrip follows: a reader that is done has read what was written.
LEMMA RoundTripFollows == KrlInv => KrlRoundTrip
<1> SUFFICES ASSUME KrlInv, made.kind = "krl", damage = "none"
             PROVE  /\ phase # "refused"
                    /\ KrlRead =>
                         /\ krl = [made.krl EXCEPT !.serials = krl.serials, !.keyIDs = krl.keyIDs]
                         /\ ToSet(krl.serials) = ToSet(made.krl.serials)
                         /\ \A i, j \in DOMAIN krl.serials : i < j => krl.serials[i] < krl.serials[j]
                         /\ \E p \in Bijection(DOMAIN krl.keyIDs, DOMAIN made.krl.keyIDs) :
                              \A i \in DOMAIN krl.keyIDs : krl.keyIDs[i] = made.krl.keyIDs[p[i]]
  BY DEF KrlRoundTrip
<1> DEFINE k == made.krl
           d == DedupSorted(k.serials)
           s == SortedIDs(k.keyIDs)
<1>1. KrlFits(k) /\ Undamaged(k)
  BY DEF KrlInv
<1>2. phase # "refused"
  BY <1>1 DEF Undamaged, AtHeader, AtSection, AtSerials, AtKeyIDs, AtEnd, AfterEnd
<1>3. ASSUME KrlRead PROVE krl = ReadSoFar(k, k.caKey, d, s)
  BY <1>1, <1>3 DEF KrlRead, Undamaged, AtHeader, AtSection, AtSerials, AtKeyIDs, AtEnd, AfterEnd
<1>4. ToSet(d) = ToSet(k.serials) /\ \A i, j \in DOMAIN d : i < j => d[i] < d[j]
  <2>1. k.serials \in Seq(0 .. MaxUint64)
    BY <1>1 DEF KrlFits
  <2> QED BY <2>1, SerialsListed
<1>5. \E p \in Bijection(DOMAIN s, DOMAIN k.keyIDs) : \A i \in DOMAIN s : s[i] = k.keyIDs[p[i]]
  <2>1. /\ k.keyIDs \in Seq(Seq(Unit)) /\ \A i \in DOMAIN k.keyIDs : Fits(k.keyIDs[i])
    BY <1>1 DEF KrlFits
  <2> DEFINE ids == k.keyIDs
  <2> HIDE DEF ids
  <2>2. /\ ids \in Seq(Seq(Unit)) /\ \A i \in DOMAIN ids : Fits(ids[i])
    BY <2>1 DEF ids
  <2>3. \E p \in Bijection(DOMAIN SortedIDs(ids), DOMAIN ids) :
          \A i \in DOMAIN SortedIDs(ids) : SortedIDs(ids)[i] = ids[p[i]]
    BY <2>2, KeyIDsListed
  <2> QED BY <2>3 DEF ids
<1>6. ASSUME KrlRead
      PROVE  krl.serials = d /\ krl.keyIDs = s /\ krl = [k EXCEPT !.serials = krl.serials, !.keyIDs = krl.keyIDs]
  <2> HIDE DEF d, s
  <2>1. krl = ReadSoFar(k, k.caKey, d, s)
    BY <1>3, <1>6
  <2>2. krl.serials = d /\ krl.keyIDs = s
    BY <2>1, ReadSoFarIs
  <2>3. krl = [k EXCEPT !.serials = d, !.keyIDs = s]
    <3> HIDE DEF k
    <3>1. KrlFits(k)
      BY <1>1
    <3>2. ReadSoFar(k, k.caKey, d, s) = WithLists(k, d, s)
      BY <3>1, ReadSoFarAll
    <3> QED BY <2>1, <3>2 DEF WithLists
  <2> QED BY <2>2, <2>3
<1> HIDE DEF d, s
<1>7. KrlRead => /\ krl = [k EXCEPT !.serials = krl.serials, !.keyIDs = krl.keyIDs]
                 /\ ToSet(krl.serials) = ToSet(k.serials)
                 /\ \A i, j \in DOMAIN krl.serials : i < j => krl.serials[i] < krl.serials[j]
                 /\ \E p \in Bijection(DOMAIN krl.keyIDs, DOMAIN k.keyIDs) :
                      \A i \in DOMAIN krl.keyIDs : krl.keyIDs[i] = k.keyIDs[p[i]]
  BY <1>4, <1>5, <1>6
<1> QED BY <1>2, <1>7

\* KrlAllOrNothing follows: a reader of a cut KRL has no list.
LEMMA AllOrNothingFollows == KrlInv => KrlAllOrNothing
BY DEF KrlInv, KrlAllOrNothing, CutRead

\* For every KRL whose strings fit, of any number of serials and key IDs, what krl.Marshal
\* wrote is not refused by krl.Parse, and is read with the same key, version and key IDs
\* and with its serials once each and in order.
THEOREM ListsRoundTrip == Spec => []KrlRoundTrip
BY ListsKept, RoundTripFollows, PTL

\* For every such KRL, cut at any place, krl.Parse refuses it or returns no key and no entry.
THEOREM ListsAreWholeOrEmpty == Spec => []KrlAllOrNothing
BY ListsKept, AllOrNothingFollows, PTL
==============================================================================
