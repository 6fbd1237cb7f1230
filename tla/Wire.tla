-------------------------------- MODULE Wire --------------------------------
(***************************************************************************)
(* The SSH wire encoding (internal/wire).  A buffer is a sequence of units *)
(* 0 .. Base - 1.  A unit stands for what one read consumes at the least:  *)
(* a byte and a uint32 take one, a uint64 takes two, so that it can be cut *)
(* in half; a string is its length and its units.                          *)
(***************************************************************************)
EXTENDS Integers, Sequences, Functions

CONSTANT Base

ASSUME BaseAssumption == Base \in Nat \ {0}

Unit      == 0 .. Base - 1
MaxUint64 == Base * Base - 1

\* A length fits in a uint32.
Fits(v) == v \in Seq(Unit) /\ Len(v) < Base

-----------------------------------------------------------------------------
\* Buffer.
PutByte(v)    == <<v>>
PutUint32(n)  == <<n % Base>>
PutUint64(n)  == <<(n \div Base) % Base, n % Base>>
PutBytes32(v) == PutUint32(Len(v)) \o v

Concat(parts) ==
  LET upTo[i \in 0 .. Len(parts)] == IF i = 0 THEN <<>> ELSE upTo[i - 1] \o parts[i]
  IN  upTo[Len(parts)]

PackStringList(items) == Concat([i \in DOMAIN items |-> PutBytes32(items[i])])

\* The order of Go strings: up to k they agree, and there s ends or is smaller.
Less(s, t) ==
  \E k \in DOMAIN t : /\ k - 1 <= Len(s) /\ \A i \in 1 .. k - 1 : s[i] = t[i]
                      /\ k > Len(s) \/ s[k] < t[k]

\* sort.Strings and sort.Slice: the i-th in order is the one at Sorting(keys)[i].
Sorting(keys) ==
  CHOOSE p \in Bijection(DOMAIN keys, DOMAIN keys) :
    \A i, j \in DOMAIN keys : i < j => ~ Less(keys[p[j]], keys[p[i]])

-----------------------------------------------------------------------------
\* Reader.  A read yields the units of a field and the rest of the buffer, or
\* fails.
Short          == [ok |-> FALSE]
Got(val, rest) == [ok |-> TRUE, val |-> val, rest |-> rest]

GetUnits(b, n) ==
  IF Len(b) < n THEN Short ELSE Got(SubSeq(b, 1, n), SubSeq(b, n + 1, Len(b)))

\* Mutant: a length beyond the end yields what there is.
GetBytes32Clamped(b) ==
  IF b = <<>> THEN Short
  ELSE GetUnits(Tail(b), IF b[1] > Len(b) - 1 THEN Len(b) - 1 ELSE b[1])

GetBytes32(b) == IF b = <<>> THEN Short ELSE GetUnits(Tail(b), b[1])

Get(b, kind) == CASE kind \in {"byte", "uint32"} -> GetUnits(b, 1)
                  [] kind = "uint64"             -> GetUnits(b, 2)
                  [] kind = "string"             -> GetBytes32(b)

\* The number in the units of a uint32, and of a uint64.
Uint32(v) == v[1]
Uint64(v) == v[1] * Base + v[2]

\* A read after others: the first that fails is the last.
AndThen(before, next) ==
  IF before.ok /\ next.ok THEN Got(Append(before.val, next.val), next.rest) ELSE Short

\* One field after the other.  A set holds the one outcome of the first i.
Read(buffer, kinds) ==
  LET upTo[i \in 0 .. Len(kinds)] ==
        IF i = 0 THEN {Got(<<>>, buffer)}
        ELSE {AndThen(before, Get(before.rest, kinds[i])) : before \in upTo[i - 1]}
  IN  CHOOSE outcome \in upTo[Len(kinds)] : TRUE

\* "for !r.Empty()": groups of the same fields until the buffer is used up, each
\* of at least one unit.
ReadMore(before, kinds) ==
  IF before.ok /\ before.rest # <<>> THEN AndThen(before, Read(before.rest, kinds))
                                    ELSE before

ReadAll(buffer, kinds) ==
  LET upTo[i \in 0 .. Len(buffer)] ==
        IF i = 0 THEN {Got(<<>>, buffer)}
        ELSE {ReadMore(before, kinds) : before \in upTo[i - 1]}
  IN  CHOOSE outcome \in upTo[Len(buffer)] : TRUE

Firsts(groups) == [i \in DOMAIN groups |-> groups[i][1]]

\* StringList.
GetStringList(b) ==
  LET all == ReadAll(b, <<"string">>)
  IN  IF all.ok THEN Got(Firsts(all.val), <<>>) ELSE Short
=============================================================================
