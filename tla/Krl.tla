--------------------------------- MODULE Krl ---------------------------------
(***************************************************************************)
(* Key revocation lists (internal/krl): Marshal, and Parse as a process    *)
(* that works through a file one section, one subsection and, in a range,  *)
(* one serial at a time.                                                   *)
(*                                                                         *)
(* A KRL is [version, generatedAt, comment, caKey, serials, keyIDs].       *)
(***************************************************************************)
EXTENDS Wire, SequencesExt

CONSTANTS
  Magic,        \* the file preamble, read as a uint64
  RangeLimit    \* 1 << 20: ranges this long are not expanded

FormatVersion          == 1
SectionCertificates    == 1
CertSectionSerialList  == 32
CertSectionSerialRange == 33
CertSectionKeyID       == 35

\* The tags are bytes.
ASSUME KrlAssumption == Magic \in 0 .. MaxUint64 /\ Base > CertSectionKeyID

-----------------------------------------------------------------------------
\* Marshal.

\* Mutant: duplicates are kept.
SortedOnly(serials) == SortSeq(serials, <)

DedupSorted(serials) ==
  LET S == ToSet(serials)
  IN  CHOOSE t \in [1 .. Cardinality(S) -> S] :
        \A i, j \in DOMAIN t : i < j => t[i] < t[j]

SortedIDs(ids) == [i \in DOMAIN ids |-> ids[Sorting(ids)[i]]]

\* A subsection is left out when its list is empty.
Subsection(tag, list) ==
  IF list = <<>> THEN <<>> ELSE PutByte(tag) \o PutBytes32(Concat(list))

CertSection(k) ==
  LET serials == DedupSorted(k.serials)
      ids     == SortedIDs(k.keyIDs)
  IN  PutBytes32(k.caKey) \o PutBytes32(<<>>)
        \o Subsection(CertSectionSerialList,
                      [i \in DOMAIN serials |-> PutUint64(serials[i])])
        \o Subsection(CertSectionKeyID,
                      [i \in DOMAIN ids |-> PutBytes32(ids[i])])

Header(k) ==
  Concat(<<PutUint64(Magic), PutUint32(FormatVersion), PutUint64(k.version),
           PutUint64(k.generatedAt), PutUint64(0), PutBytes32(<<>>),
           PutBytes32(k.comment)>>)

Section(tag, data) == PutByte(tag) \o PutBytes32(data)

Marshal(k) == Header(k) \o Section(SectionCertificates, CertSection(k))

\* Every string of a KRL is short enough for its length to be written.
KrlFits(k) ==
  /\ k \in [version : 0 .. MaxUint64, generatedAt : 0 .. MaxUint64, comment : Seq(Unit),
            caKey : Seq(Unit), serials : Seq(0 .. MaxUint64), keyIDs : Seq(Seq(Unit))]
  /\ Fits(k.comment) /\ Fits(k.caKey) /\ \A i \in DOMAIN k.keyIDs : Fits(k.keyIDs[i])
  /\ Fits(CertSection(k))

-----------------------------------------------------------------------------
\* Parse.
VARIABLES
  phase,   \* what it reads next, "done" or "refused"; "idle" before it starts
  rest,    \* the unread sections
  sub,     \* the unread subsections of the certificate section
  span,    \* the range being expanded: the loop variable and the last serial
  krl      \* what has been read so far

parser == <<phase, rest, sub, span, krl>>

EmptyKrl == [version |-> 0, generatedAt |-> 0, comment |-> <<>>,
             caKey |-> <<>>, serials |-> <<>>, keyIDs |-> <<>>]

ParserInit ==
  /\ phase = "idle"
  /\ rest = <<>> /\ sub = <<>> /\ span = <<>>
  /\ krl = EmptyKrl

HeaderOf(b) ==
  Read(b, <<"uint64", "uint32", "uint64", "uint64", "uint64", "string", "string">>)

HeaderOK(b) == /\ HeaderOf(b).ok
               /\ Uint64(HeaderOf(b).val[1]) = Magic
               /\ Uint32(HeaderOf(b).val[2]) = FormatVersion

ReadHeader(b) ==
  /\ phase = "idle"
  /\ HeaderOK(b)
  /\ LET h == HeaderOf(b)
     IN  /\ krl' = [EmptyKrl EXCEPT !.version = Uint64(h.val[3]),
                                    !.generatedAt = Uint64(h.val[4]),
                                    !.comment = h.val[7]]
         /\ rest' = h.rest
  /\ phase' = "sections"
  /\ UNCHANGED <<sub, span>>

\* The next tagged field, here of the file and there of the section.
NextOf(b) == Read(b, <<"byte", "string">>)
Tag(b)    == NextOf(b).val[1][1]
Data(b)   == NextOf(b).val[2]

IsCertSection(b)  == NextOf(b).ok /\ Tag(b) = SectionCertificates
SectionHead(data) == Read(data, <<"string", "string">>)

\* Mutant: the bytes of an unknown section are not consumed.
SkippedNone(b) == b
Skipped(b)     == NextOf(b).rest

SkipSection ==
  /\ phase = "sections" /\ NextOf(rest).ok /\ ~ IsCertSection(rest)
  /\ rest' = Skipped(rest)
  /\ UNCHANGED <<phase, sub, span, krl>>

ReadCertSection ==
  /\ phase = "sections" /\ IsCertSection(rest) /\ SectionHead(Data(rest)).ok
  /\ krl' = [krl EXCEPT !.caKey = SectionHead(Data(rest)).val[1]]
  /\ sub' = SectionHead(Data(rest)).rest
  /\ rest' = NextOf(rest).rest
  /\ phase' = "subsections"
  /\ UNCHANGED span

Done ==
  /\ phase = "sections" /\ rest = <<>>
  /\ phase' = "done"
  /\ UNCHANGED <<rest, sub, span, krl>>

AtSubsection(tag) == /\ phase = "subsections"
                     /\ NextOf(sub).ok /\ Tag(sub) = tag

SerialsIn(data) ==
  LET all == ReadAll(data, <<"uint64">>)
  IN  IF all.ok THEN Got([i \in DOMAIN all.val |-> Uint64(all.val[i][1])], <<>>)
                ELSE Short
KeyIDsIn(data)  == GetStringList(data)
Bounds(data)    == Read(data, <<"uint64", "uint64">>)

\* hi < lo is malformed, hi - lo >= 1<<20 too large.
BoundsOK(data) ==
  /\ Bounds(data).ok
  /\ LET lo == Uint64(Bounds(data).val[1])
         hi == Uint64(Bounds(data).val[2])
     IN  lo <= hi /\ hi - lo < RangeLimit

ReadSerialList ==
  /\ AtSubsection(CertSectionSerialList) /\ SerialsIn(Data(sub)).ok
  /\ krl' = [krl EXCEPT !.serials = @ \o SerialsIn(Data(sub)).val]
  /\ sub' = NextOf(sub).rest
  /\ UNCHANGED <<phase, rest, span>>

\* Bytes after the bounds are not looked at.
ReadSerialRange ==
  /\ AtSubsection(CertSectionSerialRange) /\ BoundsOK(Data(sub))
  /\ span' = [i \in 1 .. 2 |-> Uint64(Bounds(Data(sub)).val[i])]
  /\ sub' = NextOf(sub).rest
  /\ phase' = "range"
  /\ UNCHANGED <<rest, krl>>

ReadKeyIDs ==
  /\ AtSubsection(CertSectionKeyID) /\ KeyIDsIn(Data(sub)).ok
  /\ krl' = [krl EXCEPT !.keyIDs = @ \o KeyIDsIn(Data(sub)).val]
  /\ sub' = NextOf(sub).rest
  /\ UNCHANGED <<phase, rest, span>>

SectionDone ==
  /\ phase = "subsections" /\ sub = <<>>
  /\ phase' = "sections"
  /\ UNCHANGED <<rest, sub, span, krl>>

\* Mutant: the last serial is left out.
InOpenRange == span[1] < span[2]

\* for s := lo; s <= hi; s++ on uint64.
InRange       == span[1] <= span[2]
NextUint64(s) == (s + 1) % (MaxUint64 + 1)

ExpandRange ==
  /\ phase = "range" /\ InRange
  /\ krl' = [krl EXCEPT !.serials = Append(@, span[1])]
  /\ span' = [span EXCEPT ![1] = NextUint64(@)]
  /\ UNCHANGED <<phase, rest, sub>>

RangeDone ==
  /\ phase = "range" /\ ~ InRange
  /\ span' = <<>>
  /\ phase' = "subsections"
  /\ UNCHANGED <<rest, sub, krl>>

\* A read past the end, a bad header, range or list, an unknown subsection.
Malformed(b) ==
  \/ phase = "idle" /\ ~ HeaderOK(b)
  \/ phase = "sections" /\ rest # <<>> /\ ~ NextOf(rest).ok
  \/ phase = "sections" /\ IsCertSection(rest) /\ ~ SectionHead(Data(rest)).ok
  \/ phase = "subsections" /\ sub # <<>> /\ ~ NextOf(sub).ok
  \/ AtSubsection(CertSectionSerialList) /\ ~ SerialsIn(Data(sub)).ok
  \/ AtSubsection(CertSectionSerialRange) /\ ~ BoundsOK(Data(sub))
  \/ AtSubsection(CertSectionKeyID) /\ ~ KeyIDsIn(Data(sub)).ok
  \/ /\ phase = "subsections" /\ NextOf(sub).ok
     /\ Tag(sub) \notin {CertSectionSerialList, CertSectionSerialRange,
                        CertSectionKeyID}

Refuse(b) ==
  /\ Malformed(b)
  /\ phase' = "refused"
  /\ UNCHANGED <<rest, sub, span, krl>>

Parse(b) ==
  \/ ReadHeader(b) \/ SkipSection \/ ReadCertSection \/ Done
  \/ ReadSerialList \/ ReadSerialRange \/ ReadKeyIDs \/ SectionDone
  \/ ExpandRange \/ RangeDone
  \/ Refuse(b)
=============================================================================
