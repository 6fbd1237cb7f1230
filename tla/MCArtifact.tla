----------------------------- MODULE MCArtifact -----------------------------
(***************************************************************************)
(* Instances of Artifact for TLC.  Base = 64: every length fits in a unit  *)
(* and uint64 ends at 4095.  Three of the eight key algorithms: one field, *)
(* several fields, and a name that ends in "@openssh.com".                 *)
(***************************************************************************)
EXTENDS Artifact, TLC

CONSTANT AtUnit   \* AtOpenSSH, for the table

Ed25519 == <<10>>
Rsa     == <<11>>
SkEd    == <<12, AtUnit>>
Fields  == (Ed25519 :> 1) @@ (Rsa :> 2) @@ (SkEd :> 2)
Unknown == <<13>>

AuthorityKey == <<20>>
StrangerKey  == <<25>>

\* Every algorithm with too few, enough and too many fields, with a last unit
\* cut off or added, and under another name.
Blob(name, n) == PutBytes32(name) \o Concat([i \in 1 .. n |-> PutBytes32(<<40 + i>>)])
Lines ==
  LET names == {Ed25519, Rsa, SkEd, Unknown}
      blobs == {Blob(name, n) : name \in names, n \in 0 .. 3}
  IN  [name : {Ed25519, Rsa, SkEd},
       blob : blobs \cup {Append(b, 0) : b \in blobs}
                    \cup {SubSeq(b, 1, Len(b) - 1) : b \in blobs}]

Opt(name, data) == [name |-> name, data |-> data]
ForceCommand    == Opt(<<30>>, <<33>>)
SourceAddress   == Opt(<<31>>, <<34>>)
PermitPty       == Opt(<<36>>, <<>>)
PermitX11       == Opt(<<37>>, <<>>)

Draft(serial, principals, critical, extensions) ==
  [nonce           |-> <<50>>,
   key             |-> CAPublic,
   serial          |-> serial,
   certType        |-> UserCert,
   keyID           |-> <<51>>,
   validPrincipals |-> principals,
   validAfter      |-> 64,
   validBefore     |-> 130,
   criticalOptions |-> critical,
   extensions      |-> extensions,
   reserved        |-> <<>>,
   signatureKey    |-> <<>>,
   signature       |-> <<>>]

\* No options; several of each, not in the order of their names.
MCDrafts ==
  {Draft(1, <<<<52>>>>, <<>>, <<PermitPty>>),
   Draft(65, <<<<53>>, <<52>>>>, <<SourceAddress, ForceCommand>>,
         <<PermitX11, PermitPty>>)}

List(serials, ids) ==
  [version |-> Len(serials) + Len(ids), generatedAt |-> 70, comment |-> <<54>>,
   caKey |-> CAPublic.blob, serials |-> serials, keyIDs |-> ids]

\* Nothing revoked; serials and key IDs out of order, and repeated.
MCLists ==
  {List(<<>>, <<>>), List(<<2>>, <<>>), List(<<>>, <<<<52>>>>),
   List(<<65, 2, 65>>, <<<<53>>, <<52>>, <<53>>>>)}

CertSections(subs) ==
  Section(SectionCertificates, PutBytes32(CAPublic.blob) \o PutBytes32(<<>>) \o subs)

SerialRange(lo, hi) == Section(CertSectionSerialRange, PutUint64(lo) \o PutUint64(hi))

OneRange(lo, hi) ==
  LET fits == lo <= hi /\ hi - lo < RangeLimit
  IN  [sections |-> CertSections(SerialRange(lo, hi)),
       serials  |-> [i \in 1 .. hi - lo + 1 |-> lo + i - 1],
       ranges   |-> 1,
       ends     |-> IF ~ fits THEN "refused"
                    ELSE IF hi = MaxUint64 THEN "endless" ELSE "done"]

\* The last uint64.
MCUnbounded == {OneRange(MaxUint64 - 1, MaxUint64)}

\* Ranges of every length up to the limit and one more, a range with its ends
\* swapped, ranges up to the last but one uint64 and to the last, a list and a
\* range, sections of an unknown kind around them.
Opaque == Section(2, <<1, 2>>)
MCForeign ==
  {OneRange(62, hi) : hi \in 61 .. 66} \cup
  {OneRange(MaxUint64 - 2, MaxUint64 - 1)} \cup MCUnbounded \cup
  {[sections |-> Opaque \o CertSections(Section(CertSectionSerialList, PutUint64(7))
                                          \o SerialRange(2, 3)) \o Opaque,
    serials |-> <<7, 2, 3>>, ranges |-> 1, ends |-> "done"]}
=============================================================================
