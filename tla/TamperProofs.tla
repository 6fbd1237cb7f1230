---------------------------- MODULE TamperProofs ----------------------------
(***************************************************************************)
(* What audit.Verify notices, for every log, every content of entries and  *)
(* every number of edits.                                                  *)
(***************************************************************************)
EXTENDS AuditTamper, ListFacts

-----------------------------------------------------------------------------
\* Logs.  Hashes have no set of their own, so an entry is known by its fields.

IsEntry(e) ==
  /\ e = [seq |-> e.seq, body |-> e.body, prev |-> e.prev, hash |-> e.hash]
  /\ e.body \in Bodies

IsLog(s) == IsList(s) /\ \A i \in DOMAIN s : IsEntry(s[i])

\* The encoding of a body keeps all of it.
LEMMA CanonicalInjective ==
  ASSUME NEW b \in Bodies, NEW c \in Bodies, Canonical(b) = Canonical(c)
  PROVE  b = c
<1>1. /\ DOMAIN Canonical(b) = DOMAIN b /\ DOMAIN Canonical(c) = DOMAIN c
      /\ \A f \in DOMAIN b : f # "keyID" => Canonical(b)[f] = b[f]
      /\ \A f \in DOMAIN c : f # "keyID" => Canonical(c)[f] = c[f]
  BY BodiesAssumption DEF Canonical
<1>2. /\ Canonical(b)["keyID"] = JsonBytes(b.keyID)
      /\ Canonical(c)["keyID"] = JsonBytes(c.keyID)
  BY BodiesAssumption DEF Canonical
<1>3. JsonBytes(b.keyID).text = b.keyID /\ JsonBytes(c.keyID).text = c.keyID
  BY BodiesAssumption DEF JsonBytes
<1>4. b.keyID = c.keyID /\ DOMAIN b = DOMAIN c
  BY <1>1, <1>2, <1>3
<1>5. \A f \in DOMAIN b : b[f] = c[f]
  BY <1>1, <1>4
<1> QED BY <1>4, <1>5, BodiesAssumption

\* A hash determines everything that was hashed.
LEMMA HashInjective ==
  ASSUME NEW s, NEW b \in Bodies, NEW p, NEW t, NEW c \in Bodies, NEW q,
         ComputeHash(s, b, p) = ComputeHash(t, c, q)
  PROVE  s = t /\ b = c /\ p = q
<1> DEFINE x == [seq |-> s, body |-> Canonical(b), prev |-> p]
           y == [seq |-> t, body |-> Canonical(c), prev |-> q]
<1>1. <<x>> = <<y>>
  BY DEF ComputeHash, Sha256
<1>2. x = y
  BY <1>1
<1>3. x.seq = y.seq /\ x.body = y.body /\ x.prev = y.prev
  BY <1>2
<1> QED BY <1>3, CanonicalInjective

\* Two entries that Verify would accept at their places are the same when they
\* have the same hash.
LEMMA SameHashSameEntry ==
  ASSUME NEW s, NEW t, NEW i, NEW j, IsEntry(s[i]), IsEntry(t[j]),
         ~ BadEntry(s, i), ~ BadEntry(t, j), s[i].hash = t[j].hash
  PROVE  i = j /\ s[i] = t[j]
<1>1. ComputeHash(s[i].seq, s[i].body, s[i].prev)
        = ComputeHash(t[j].seq, t[j].body, t[j].prev)
  BY DEF BadEntry
<1>2. /\ s[i].seq = t[j].seq /\ s[i].body = t[j].body /\ s[i].prev = t[j].prev
  BY <1>1, HashInjective DEF IsEntry
<1> QED BY <1>2 DEF BadEntry, IsEntry

\* What Append seals is an entry.
LEMMA SealIsEntry ==
  ASSUME NEW s, NEW b \in Bodies
  PROVE  IsEntry(Seal(s, b)) /\ Seal(s, b).body = b
BY DEF Seal, IsEntry

-----------------------------------------------------------------------------
\* History: what was written was sealed, the original log verifies, and until a
\* hash is computed after an edit all hashes are those of the original.

WrittenOK(w) == IsLog(w.past) /\ \E b \in Bodies : w.entry = Seal(w.past, b)

HashesOfOriginal ==
  \A i \in DOMAIN entries :
    \E m \in DOMAIN original : entries[i].hash = original[m].hash

TamperInv ==
  /\ IsLog(entries)
  /\ \A w \in written : WrittenOK(w)
  /\ IsLog(original) /\ ChainOK(original)
  /\ edits \in Nat
  /\ edits = 0 => entries = original
  /\ rebuilt \in BOOLEAN
  /\ ~ rebuilt => HashesOfOriginal

\* A log with one more entry.
LEMMA AppendLog ==
  ASSUME NEW s, IsLog(s), NEW e, IsEntry(e)
  PROVE  IsLog(Append(s, e))
BY AppendList DEF IsLog

\* Append continues an intact log with a good entry.
LEMMA SealContinues ==
  ASSUME NEW s, IsLog(s), ChainOK(s), NEW b \in Bodies
  PROVE  ChainOK(Append(s, Seal(s, b)))
<1> DEFINE e == Seal(s, b)
           t == Append(s, e)
           n == Len(s) + 1
<1>1. Len(s) \in Nat /\ DOMAIN s = 1 .. Len(s) /\ IsList(s)
  BY ListDomain DEF IsLog
<1>2. /\ DOMAIN t = DOMAIN s \cup {n}
      /\ \A i \in DOMAIN s : t[i] = s[i]
      /\ t[n] = e
  BY <1>1, AppendList
<1>3. /\ e.seq = n /\ e.prev = LastHash(s)
      /\ e.hash = ComputeHash(e.seq, e.body, e.prev)
  BY DEF Seal
<1> HIDE DEF e, t
<1>4. ASSUME NEW i \in DOMAIN s PROVE ~ BadEntry(t, i)
  <2>1. PrevHash(t, i) = PrevHash(s, i) /\ t[i] = s[i]
    BY <1>1, <1>2 DEF PrevHash
  <2>2. ~ BadEntry(s, i)
    BY DEF ChainOK, BadEntries
  <2> QED BY <2>1, <2>2 DEF BadEntry
<1>5. ~ BadEntry(t, n)
  <2>1. PrevHash(t, n) = LastHash(s)
    <3>1. CASE s = <<>>
      BY <1>1, <3>1 DEF PrevHash, LastHash
    <3>2. CASE s # <<>>
      <4>1. Len(s) # 0
        BY <1>1, <3>2, EmptySeq DEF IsList
      <4>2. Len(s) + 1 # 1 /\ (Len(s) + 1) - 1 = Len(s) /\ Len(s) \in DOMAIN s
        BY <1>1, <4>1
      <4>3. PrevHash(t, n) = t[Len(s)].hash
        BY <4>2 DEF PrevHash
      <4> QED BY <1>2, <3>2, <4>2, <4>3 DEF LastHash
    <3> QED BY <3>1, <3>2
  <2> QED BY <1>2, <1>3, <2>1 DEF BadEntry
<1>6. BadEntries(t) = {}
  BY <1>2, <1>4, <1>5 DEF BadEntries
<1> QED BY <1>6 DEF ChainOK, t, e

\* Nothing has been written or edited.
LEMMA TamperInit == Init => TamperInv
<1> SUFFICES ASSUME Init PROVE TamperInv
  OBVIOUS
<1>1. entries = <<>> /\ original = <<>> /\ written = {} /\ edits = 0
      /\ rebuilt = FALSE
  BY DEF Init
<1>2. IsList(<<>>) /\ DOMAIN <<>> = {}
  BY DEF IsList
<1>3. IsLog(<<>>) /\ ChainOK(<<>>)
  BY <1>2 DEF IsLog, ChainOK, BadEntries
<1> QED BY <1>1, <1>2, <1>3 DEF TamperInv, HashesOfOriginal

\* Append seals what it writes; on a log nobody has edited, the original log
\* goes on.
LEMMA TamperAppend == TamperInv /\ AppendEntry => TamperInv'
<1> SUFFICES ASSUME TamperInv, AppendEntry PROVE TamperInv'
  OBVIOUS
<1>1. PICK b \in Bodies :
        /\ entries' = Append(entries, Seal(entries, b))
        /\ written' = written \cup {[entry |-> Seal(entries, b), past |-> entries]}
  BY DEF AppendEntry
<1>2. /\ original' = IF edits = 0 THEN entries' ELSE original
      /\ rebuilt' = (edits > 0) /\ edits' = edits
  BY DEF AppendEntry
<1>3. IsLog(entries')
  BY <1>1, AppendLog, SealIsEntry DEF TamperInv
<1>4. \A w \in written' : WrittenOK(w)
  BY <1>1 DEF TamperInv, WrittenOK
<1>5. IsLog(original') /\ ChainOK(original')
  <2>1. CASE edits = 0
    BY <1>1, <1>2, <1>3, <2>1, SealContinues DEF TamperInv
  <2>2. CASE edits # 0
    BY <1>2, <2>2 DEF TamperInv
  <2> QED BY <2>1, <2>2
<1>6. edits' \in Nat /\ rebuilt' \in BOOLEAN /\ (edits' = 0 => entries' = original')
  BY <1>2 DEF TamperInv
<1>7. ~ rebuilt' => HashesOfOriginal'
  <2> SUFFICES ASSUME ~ rebuilt' PROVE HashesOfOriginal'
    OBVIOUS
  <2>1. edits \in Nat
    BY DEF TamperInv
  <2>2. ~ (edits > 0)
    BY <1>2
  <2>3. edits = 0
    BY <2>1, <2>2
  <2> QED BY <1>2, <2>3 DEF HashesOfOriginal
<1> QED BY <1>3, <1>4, <1>5, <1>6, <1>7 DEF TamperInv

\* An edit that takes its hashes from the log, or recomputes one.
LEMMA TamperEdit ==
  ASSUME TamperInv, NEW to, NEW recomputed \in BOOLEAN, Edit(to, recomputed),
         IsLog(to),
         recomputed \/ \A i \in DOMAIN to :
                         \E m \in DOMAIN entries : to[i].hash = entries[m].hash
  PROVE  TamperInv'
<1>1. /\ entries' = to /\ edits' = edits + 1 /\ written' = written
      /\ original' = original
  BY DEF Edit
<1>2. rebuilt' = (rebuilt \/ recomputed)
  BY DEF Edit
<1>3. rebuilt' \in BOOLEAN
  BY <1>2
<1>4. edits' \in Nat /\ edits' # 0
  BY <1>1 DEF TamperInv
<1>5. ASSUME ~ rebuilt' PROVE HashesOfOriginal'
  <2>1. ~ rebuilt /\ ~ recomputed
    BY <1>2, <1>5
  <2>2. HashesOfOriginal
    BY <2>1 DEF TamperInv
  <2> QED BY <1>1, <2>1, <2>2 DEF HashesOfOriginal
<1> QED BY <1>1, <1>3, <1>4, <1>5 DEF TamperInv

\* A log with entry i replaced.
LEMMA ReplaceEntry ==
  ASSUME NEW s, IsLog(s), NEW i \in DOMAIN s, NEW e, IsEntry(e)
  PROVE  /\ IsLog([s EXCEPT ![i] = e])
         /\ DOMAIN [s EXCEPT ![i] = e] = DOMAIN s
         /\ \A k \in DOMAIN s : [s EXCEPT ![i] = e][k] = IF k = i THEN e ELSE s[k]
<1> DEFINE t == [s EXCEPT ![i] = e]
           S == {s[k] : k \in DOMAIN s} \cup {e}
<1>1. s \in Seq(S)
  BY SeqMonotonic DEF IsLog, IsList
<1>2. t \in Seq(S)
  BY <1>1
<1>3. DOMAIN t = DOMAIN s /\ \A k \in DOMAIN s : t[k] = IF k = i THEN e ELSE s[k]
  BY <1>1
<1>4. IsList(t)
  BY <1>2, SeqIsList
<1> QED BY <1>3, <1>4 DEF IsLog

\* An entry with other hashes.
LEMMA RehashedEntry ==
  ASSUME NEW e, IsEntry(e), NEW p, NEW h
  PROVE  IsEntry([e EXCEPT !.prev = p, !.hash = h])
<1> DEFINE f == [e EXCEPT !.prev = p]
           g == [f EXCEPT !.hash = h]
<1>1. IsEntry(f)
  BY DEF IsEntry
<1>2. [e EXCEPT !.prev = p, !.hash = h] = g
  OBVIOUS
<1> HIDE DEF f
<1>3. IsEntry(g)
  BY <1>1 DEF IsEntry
<1> QED BY <1>2, <1>3

\* A log with entry i left out holds the other entries.
LEMMA RemoveEntry ==
  ASSUME NEW s, IsLog(s), NEW i \in DOMAIN s
  PROVE  LET t == SubSeq(s, 1, i - 1) \o SubSeq(s, i + 1, Len(s))
         IN  IsLog(t) /\ \A k \in DOMAIN t : \E m \in DOMAIN s : t[k] = s[m]
<1> DEFINE S == {s[k] : k \in DOMAIN s}
           t == SubSeq(s, 1, i - 1) \o SubSeq(s, i + 1, Len(s))
<1>1. s \in Seq(S) /\ Len(s) \in Nat /\ DOMAIN s = 1 .. Len(s)
  BY ListDomain DEF IsLog, IsList
<1>2. SubSeq(s, 1, i - 1) \in Seq(S) /\ SubSeq(s, i + 1, Len(s)) \in Seq(S)
  BY <1>1, SubSeqProperties
<1>3. t \in Seq(S)
  BY <1>2, ConcatProperties
<1>4. IsList(t)
  BY <1>3, SeqIsList
<1>5. \A k \in DOMAIN t : t[k] \in S
  <2> HIDE DEF S, t
  <2>1. DOMAIN t = 1 .. Len(t)
    BY <1>4, ListDomain
  <2> QED BY <1>3, <2>1, ElementOfSeq
<1>6. \A k \in DOMAIN t : \E m \in DOMAIN s : t[k] = s[m]
  BY <1>5
<1> QED BY <1>4, <1>6 DEF IsLog

\* Every edit leaves a log, with hashes of the log unless it recomputes one.
LEMMA TamperNext == TamperInv /\ [Next]_vars => TamperInv'
<1> SUFFICES ASSUME TamperInv, [Next]_vars PROVE TamperInv'
  OBVIOUS
<1>1. IsLog(entries) /\ \A i \in DOMAIN entries : IsEntry(entries[i])
  BY DEF TamperInv, IsLog
<1>2. ASSUME NEW i \in DOMAIN entries, NEW e, IsEntry(e), e.hash = entries[i].hash
      PROVE  /\ IsLog([entries EXCEPT ![i] = e])
             /\ \A k \in DOMAIN [entries EXCEPT ![i] = e] :
                  \E m \in DOMAIN entries :
                    [entries EXCEPT ![i] = e][k].hash = entries[m].hash
  BY <1>1, <1>2, ReplaceEntry
<1>3. CASE Change
  <2>1. PICK i \in DOMAIN entries, b \in Bodies :
          Edit([entries EXCEPT ![i].body = b], FALSE)
    BY <1>3 DEF Change
  <2> DEFINE e == [entries[i] EXCEPT !.body = b]
             t == [entries EXCEPT ![i] = e]
  <2>2. IsEntry(e) /\ e.hash = entries[i].hash
    BY <1>1 DEF IsEntry
  <2>3. Edit(t, FALSE)
    BY <2>1
  <2> HIDE DEF e
  <2>4. /\ IsLog(t)
        /\ \A k \in DOMAIN t : \E m \in DOMAIN entries : t[k].hash = entries[m].hash
    BY <1>2, <2>2
  <2> HIDE DEF t
  <2> QED BY <2>3, <2>4, TamperEdit
<1>4. CASE Renumber
  <2>1. PICK i \in DOMAIN entries : Edit([entries EXCEPT ![i].seq = i], FALSE)
    BY <1>4 DEF Renumber
  <2> DEFINE e == [entries[i] EXCEPT !.seq = i]
             t == [entries EXCEPT ![i] = e]
  <2>2. IsEntry(e) /\ e.hash = entries[i].hash
    BY <1>1 DEF IsEntry
  <2>3. Edit(t, FALSE)
    BY <2>1
  <2> HIDE DEF e
  <2>4. /\ IsLog(t)
        /\ \A k \in DOMAIN t : \E m \in DOMAIN entries : t[k].hash = entries[m].hash
    BY <1>2, <2>2
  <2> HIDE DEF t
  <2> QED BY <2>3, <2>4, TamperEdit
<1>5. CASE Remove
  <2>1. PICK i \in DOMAIN entries :
          Edit(SubSeq(entries, 1, i - 1)
                 \o SubSeq(entries, i + 1, Len(entries)), FALSE)
    BY <1>5 DEF Remove
  <2> DEFINE t == SubSeq(entries, 1, i - 1) \o SubSeq(entries, i + 1, Len(entries))
  <2>2. IsLog(t) /\ \A k \in DOMAIN t : \E m \in DOMAIN entries : t[k] = entries[m]
    BY <1>1, RemoveEntry
  <2>3. Edit(t, FALSE)
    BY <2>1
  <2> HIDE DEF t
  <2> QED BY <2>2, <2>3, TamperEdit
<1>6. CASE Exchange
  <2>1. PICK i \in DOMAIN entries, j \in DOMAIN entries :
          Edit([entries EXCEPT ![i] = entries[j], ![j] = entries[i]], FALSE)
    BY <1>6 DEF Exchange
  <2> DEFINE s == [entries EXCEPT ![i] = entries[j]]
             t == [s EXCEPT ![j] = entries[i]]
  <2>2. /\ IsLog(s) /\ DOMAIN s = DOMAIN entries
        /\ \A k \in DOMAIN s : \E m \in DOMAIN entries : s[k] = entries[m]
    BY <1>1, ReplaceEntry
  <2>3. t = [entries EXCEPT ![i] = entries[j], ![j] = entries[i]]
    OBVIOUS
  <2> HIDE DEF s
  <2>4. /\ IsLog(t)
        /\ \A k \in DOMAIN t : \E m \in DOMAIN entries : t[k] = entries[m]
    BY <1>1, <2>2, ReplaceEntry
  <2>5. Edit(t, FALSE)
    BY <2>1, <2>3
  <2> HIDE DEF t
  <2> QED BY <2>4, <2>5, TamperEdit
<1>7. CASE Recompute
  <2>1. PICK i \in DOMAIN entries :
          LET prev == PrevHash(entries, i)
          IN  Edit([entries EXCEPT ![i].prev = prev,
                                   ![i].hash = ComputeHash(i, entries[i].body, prev)],
                   TRUE)
    BY <1>7 DEF Recompute
  <2> DEFINE prev == PrevHash(entries, i)
             hash == ComputeHash(i, entries[i].body, prev)
             e    == [entries[i] EXCEPT !.prev = prev, !.hash = hash]
             t    == [entries EXCEPT ![i].prev = prev, ![i].hash = hash]
  <2> HIDE DEF prev, hash
  <2>2. IsEntry(e)
    BY <1>1, RehashedEntry
  <2>3. t = [entries EXCEPT ![i] = e]
    OBVIOUS
  <2>4. IsLog(t)
    BY <1>1, <2>2, <2>3, ReplaceEntry
  <2>5. Edit(t, TRUE)
    BY <2>1 DEF prev, hash
  <2> HIDE DEF t
  <2> QED BY <2>4, <2>5, TamperEdit
<1>8. CASE UNCHANGED vars
  BY <1>8 DEF vars, TamperInv, HashesOfOriginal
<1> QED BY <1>3, <1>4, <1>5, <1>6, <1>7, <1>8, TamperAppend DEF Next

\* What the theorems below rest on holds in every state.
LEMMA TamperAlways == Spec => []TamperInv
BY TamperInit, TamperNext, PTL DEF Spec

-----------------------------------------------------------------------------
\* An entry vouches for its past (AcceptedEntryVouches of AuditTamper): going
\* back from it, each prev names the hash of the entry before, and an entry that
\* verifies is determined by its hash.
THEOREM EntryVouches == Spec => []AcceptedEntryVouches
<1>1. TamperInv => AcceptedEntryVouches
  <2> SUFFICES ASSUME TamperInv, ChainOK(entries),
                      NEW w \in written, NEW j \in DOMAIN entries,
                      entries[j] = w.entry, ChainOK(w.past)
               PROVE  Upto(entries, j - 1) = w.past
    BY DEF AcceptedEntryVouches
  <2> DEFINE past == w.past
             n    == Len(past)
  <2>1. /\ IsLog(entries) /\ IsLog(past)
        /\ n \in Nat /\ DOMAIN past = 1 .. n
        /\ Len(entries) \in Nat /\ DOMAIN entries = 1 .. Len(entries)
    BY ListDomain DEF TamperInv, WrittenOK, IsLog
  <2>2. PICK b \in Bodies : entries[j] = Seal(past, b)
    BY DEF TamperInv, WrittenOK
  <2> HIDE DEF past
  <2>3. /\ \A i \in DOMAIN entries : ~ BadEntry(entries, i)
        /\ \A i \in DOMAIN past : ~ BadEntry(past, i)
    BY DEF ChainOK, BadEntries, past
  <2>4. j = n + 1 /\ entries[j].prev = LastHash(past)
    BY <2>2, <2>3 DEF Seal, BadEntry
  <2>5. ASSUME NEW i \in DOMAIN past, entries[i].hash = past[i].hash
        PROVE  entries[i] = past[i]
    <3>1. i \in DOMAIN entries
      BY <2>1, <2>4
    <3> QED BY <2>1, <2>3, <2>5, <3>1, SameHashSameEntry DEF IsLog
  <2> DEFINE Back(d) == n - d
             Wrong == {d \in 0 .. n - 1 : entries[Back(d)] # past[Back(d)]}
  <2>6. Wrong = {}
    <3> SUFFICES ASSUME Wrong # {} PROVE FALSE
      OBVIOUS
    <3>1. PICK d \in Wrong : \A c \in Wrong : d <= c
      <4>1. Wrong \in SUBSET Nat
        BY <2>1
      <4> HIDE DEF Wrong
      <4> QED BY <4>1, LeastNumber
    <3> DEFINE i == Back(d)
    <3>2. /\ d \in 0 .. n - 1 /\ i \in 1 .. n /\ i \in DOMAIN past
          /\ i \in DOMAIN entries /\ i + 1 \in DOMAIN entries
          /\ entries[i] # past[i]
      BY <2>1, <2>4
    <3>3. entries[i + 1].prev = past[i].hash
      <4>1. CASE d = 0
        <5>1. i = n /\ i + 1 = j /\ past # <<>>
          BY <2>1, <2>4, <3>2, <4>1
        <5> QED BY <2>4, <5>1 DEF LastHash
      <4>2. CASE d # 0
        <5>1. /\ d - 1 \in 0 .. n - 1 /\ Back(d - 1) = i + 1
              /\ i + 1 \in DOMAIN past /\ i + 1 # 1 /\ (i + 1) - 1 = i
          BY <2>1, <3>2, <4>2
        <5>2. d - 1 \notin Wrong
          <6> HIDE DEF Wrong
          <6>1. ~ (d <= d - 1)
            BY <2>1, <3>2
          <6> QED BY <3>1, <6>1
        <5>3. entries[Back(d - 1)] = past[Back(d - 1)]
          BY <5>1, <5>2
        <5>4. entries[i + 1] = past[i + 1]
          BY <5>1, <5>3
        <5> HIDE DEF i
        <5> QED BY <2>3, <5>1, <5>4 DEF BadEntry, PrevHash
      <4> QED BY <4>1, <4>2
    <3>4. entries[i + 1].prev = entries[i].hash
      <4>1. i + 1 # 1 /\ (i + 1) - 1 = i
        BY <2>1, <3>2
      <4> HIDE DEF i
      <4> QED BY <2>3, <3>2, <4>1 DEF BadEntry, PrevHash
    <3> QED BY <2>5, <3>2, <3>3, <3>4
  <2>7. \A i \in 1 .. n : entries[i] = past[i]
    <3> TAKE i \in 1 .. n
    <3>1. n - i \in 0 .. n - 1 /\ Back(n - i) = i
      BY <2>1
    <3> QED BY <2>6, <3>1
  <2> QED BY <2>1, <2>4, <2>7, SamePrefix DEF Upto, past, IsLog
<1> QED BY <1>1, TamperAlways, PTL

\* The first change is named (NamesFirstChange of AuditTamper): as long as no hash
\* was recomputed, an entry that verifies has a hash of the original log, so it
\* is the original entry at its place.
THEOREM FirstChangeNamed == Spec => []NamesFirstChange
<1>1. TamperInv => NamesFirstChange
  <2> SUFFICES ASSUME TamperInv, ~ rebuilt PROVE NamesFirstChange
    BY DEF NamesFirstChange
  <2>1. /\ IsLog(entries) /\ IsLog(original) /\ HashesOfOriginal
        /\ Len(original) \in Nat /\ DOMAIN original = 1 .. Len(original)
        /\ Len(entries) \in Nat /\ DOMAIN entries = 1 .. Len(entries)
    BY ListDomain DEF TamperInv, IsLog
  <2>2. \A i \in DOMAIN original : ~ BadEntry(original, i)
    BY DEF TamperInv, ChainOK, BadEntries
  <2>3. ASSUME NEW i \in DOMAIN entries, ~ BadEntry(entries, i)
        PROVE  i \in DOMAIN original /\ entries[i] = original[i]
    <3>1. PICK m \in DOMAIN original : entries[i].hash = original[m].hash
      BY <2>1 DEF HashesOfOriginal
    <3> QED BY <2>1, <2>2, <2>3, <3>1, SameHashSameEntry DEF IsLog
  <2>4. ASSUME NEW n \in 0 .. Len(entries), \A i \in 1 .. n : ~ BadEntry(entries, i)
        PROVE  n <= Len(original) /\ Upto(entries, n) = Upto(original, n)
    <3>1. \A i \in 1 .. n : i \in DOMAIN original /\ entries[i] = original[i]
      BY <2>1, <2>3, <2>4
    <3>2. n <= Len(original)
      BY <2>1, <3>1
    <3> QED BY <2>1, <3>1, <3>2, SamePrefixes DEF Upto, IsLog
  <2>5. CASE ChainOK(entries)
    <3>1. \A i \in 1 .. Len(entries) : ~ BadEntry(entries, i)
      BY <2>1, <2>5 DEF ChainOK, BadEntries
    <3>2. Len(entries) <= Len(original)
          /\ Upto(entries, Len(entries)) = Upto(original, Len(entries))
      BY <2>1, <2>4, <3>1
    <3>3. Upto(entries, Len(entries)) = entries
      BY <2>1, SubSeqFull DEF Upto, IsLog, IsList
    <3> QED BY <2>5, <3>2, <3>3 DEF NamesFirstChange
  <2>6. CASE ~ ChainOK(entries)
    <3> DEFINE k == FirstBad(entries)
               bad == BadEntries(entries)
    <3>1. bad \subseteq Nat /\ bad # {}
      BY <2>1, <2>6 DEF ChainOK, BadEntries
    <3>2. \E i \in bad : \A j \in bad : i <= j
      BY <3>1, LeastNumber
    <3>3. k \in bad /\ \A j \in bad : k <= j
      BY <3>2 DEF FirstBad
    <3> HIDE DEF k
    <3>4. k \in DOMAIN entries /\ BadEntry(entries, k)
      BY <3>3 DEF BadEntries
    <3>5. \A i \in 1 .. k - 1 : ~ BadEntry(entries, i)
      BY <2>1, <3>3, <3>4 DEF BadEntries
    <3>6. k - 1 \in 0 .. Len(entries)
      BY <2>1, <3>4
    <3>7. k - 1 <= Len(original) /\ Upto(entries, k - 1) = Upto(original, k - 1)
      BY <2>4, <3>5, <3>6
    <3>8. ASSUME k <= Len(original), entries[k] = original[k] PROVE FALSE
      <4>1. k \in DOMAIN original
        BY <2>1, <3>4, <3>8
      <4>2. PrevHash(entries, k) = PrevHash(original, k)
        <5>1. CASE k = 1
          BY <5>1 DEF PrevHash
        <5>2. CASE k # 1
          <6>1. k - 1 \in DOMAIN entries /\ k - 1 \in 1 .. k - 1
            BY <2>1, <3>4, <5>2
          <6>2. entries[k - 1] = original[k - 1]
            BY <2>3, <3>5, <6>1
          <6> QED BY <5>2, <6>2 DEF PrevHash
        <5> QED BY <5>1, <5>2
      <4> QED BY <2>2, <3>4, <3>8, <4>1, <4>2 DEF BadEntry
    <3> QED BY <2>6, <3>7, <3>8 DEF NamesFirstChange, k
  <2> QED BY <2>5, <2>6
<1> QED BY <1>1, TamperAlways, PTL
=============================================================================
