------------------------------ MODULE Artifact ------------------------------
(***************************************************************************)
(* What leaves the authority as bytes: a certificate line or a KRL is made *)
(* and marshalled, may be damaged on its way, and is read.  Certificates   *)
(* are also made by others, with keys of their own, and KRLs by other      *)
(* programs.                                                               *)
(***************************************************************************)
EXTENDS CertFormat, Krl

CONSTANTS
  KeyLines,      \* what an authorized_keys file may hold
  Drafts,        \* certificates to be signed, without key and signature
  CA, Stranger,  \* raw public keys: of the authority, of somebody else
  Lists,         \* KRLs to be marshalled
  ForeignFiles,  \* files of other programs: [sections, serials, ranges, ends]
  MaxListed      \* bound: a range is followed until that many serials are listed

VARIABLES
  made,    \* what was made, as the maker meant it
  line,    \* the bytes, with the algorithm the text of a certificate names
  damage,  \* what has happened to them
  verdict  \* what the reader of a certificate says

vars == <<made, line, damage, verdict, parser>>

NoLine   == [name |-> <<>>, blob |-> <<>>]
Unread   == [state |-> "unread"]
CAPublic == NewEd25519PublicKey(CA)

\* The key a certificate is signed with and the one it names: of the authority,
\* of somebody else, or somebody else's under the authority's name.
Signers == {<<CA, CA>>, <<Stranger, Stranger>>, <<Stranger, CA>>}

\* The draft with the key of line l, signed.
Signed(l, draft, s) ==
  SignCert([draft EXCEPT !.key = ParseAuthorizedKey(l).val],
           NewEd25519PublicKey(s[2]), s[1])

\* Two keys, and nothing as long as a uint32 cannot say.  A critical option is
\* given once, and an extension has no data.
ASSUME ArtifactAssumption ==
  /\ CA # Stranger /\ \A pk \in {CA, Stranger} : Fits(pk) /\ Len(pk) = KeySize
  /\ \A l \in KeyLines, draft \in Drafts, s \in Signers :
       ParseAuthorizedKey(l).ok =>
         LET c == Signed(l, draft, s)
         IN  /\ Encodable(c)
             /\ NamesDecide(c.criticalOptions) /\ NamesDecide(c.extensions)
  /\ \A k \in Lists : KrlFits(k)
  /\ MaxListed \in Nat

Init ==
  /\ made = [kind |-> "nothing"]
  /\ line = NoLine
  /\ damage = "none"
  /\ verdict = Unread
  /\ ParserInit

-----------------------------------------------------------------------------
\* runIssue loads the key file and signs; a key line that is refused ends it.
Certify ==
  /\ made.kind = "nothing"
  /\ \E l \in KeyLines, draft \in Drafts, s \in Signers :
       /\ ParseAuthorizedKey(l).ok
       /\ MaySign(NewEd25519PublicKey(s[2]))
       /\ made' = [kind |-> "certificate", cert |-> Signed(l, draft, s), signer |-> s]
       /\ line' = MarshalLine(Signed(l, draft, s))
  /\ UNCHANGED <<damage, verdict, parser>>

Export ==
  /\ made.kind = "nothing"
  /\ \E k \in Lists :
       /\ made' = [kind |-> "krl", krl |-> k]
       /\ line' = [name |-> <<>>, blob |-> Marshal(k)]
  /\ UNCHANGED <<damage, verdict, parser>>

ForeignHeader == [EmptyKrl EXCEPT !.version = 1]

Import ==
  /\ made.kind = "nothing"
  /\ \E f \in ForeignFiles :
       /\ made' = [kind |-> "foreign", file |-> f]
       /\ line' = [name |-> <<>>, blob |-> Header(ForeignHeader) \o f.sections]
  /\ UNCHANGED <<damage, verdict, parser>>

-----------------------------------------------------------------------------
\* One damage to the bytes before anybody reads them.
Spoil(kind, blob) ==
  /\ made.kind # "nothing" /\ damage = "none"
  /\ verdict = Unread /\ phase = "idle"
  /\ damage' = kind
  /\ line' = [line EXCEPT !.blob = blob]
  /\ UNCHANGED <<made, verdict, parser>>

Cut    == \E n \in 0 .. Len(line.blob) - 1 : Spoil("cut", SubSeq(line.blob, 1, n))
Extend == Spoil("extended", Append(line.blob, 0))

\* One unit off by one.
Alter == \E i \in DOMAIN line.blob, d \in {1, Base - 1} :
           Spoil("altered", [line.blob EXCEPT ![i] = (@ + d) % Base])

\* Two neighbouring pieces of n units change places.
Exchange ==
  \E i \in DOMAIN line.blob, n \in 1 .. 7 :
    LET piece(first, last) == SubSeq(line.blob, first, last)
    IN  /\ i + 2 * n - 1 <= Len(line.blob)
        /\ Spoil("exchanged",
                 piece(1, i - 1) \o piece(i + n, i + 2 * n - 1)
                   \o piece(i, i + n - 1) \o piece(i + 2 * n, Len(line.blob)))

-----------------------------------------------------------------------------
\* loadCert and Verify.
Verdict(l) ==
  LET c == ParseCertificateLine(l)
  IN  IF ~ c.ok THEN [state |-> "refused"]
      ELSE [state |-> "read", cert |-> c.val, verified |-> VerifyCert(c.val, CAPublic)]

ReadCert ==
  /\ made.kind = "certificate" /\ verdict = Unread
  /\ verdict' = Verdict(line)
  /\ UNCHANGED <<made, line, damage, parser>>

Followed == phase = "range" => Len(krl.serials) < MaxListed

ReadKrl ==
  /\ made.kind \in {"krl", "foreign"}
  /\ Followed
  /\ Parse(line.blob)
  /\ UNCHANGED <<made, line, damage, verdict>>

Finished ==
  /\ verdict # Unread \/ phase \in {"done", "refused"} \/ ~ Followed
  /\ UNCHANGED vars

Next == Certify \/ Export \/ Import \/ Cut \/ Extend \/ Alter \/ Exchange
          \/ ReadCert \/ ReadKrl \/ Finished

\* A reader that has begun goes on.
Spec == Init /\ [][Next]_vars /\ WF_vars(ReadKrl)

-----------------------------------------------------------------------------
\* Properties.

ReadOK == verdict.state = "read"

\* The order of options carries no meaning.
Meaning(c) == [c EXCEPT !.criticalOptions = ToSet(@), !.extensions = ToSet(@)]

\* Whatever key file was accepted, its fields stay within the key: a reader of
\* the certificate finds the key, serial, type, principals, window and options
\* that were signed, and Verify accepts exactly the authority's own.
CertRoundTrip ==
  made.kind = "certificate" /\ damage = "none" /\ verdict # Unread =>
    /\ ReadOK
    /\ Meaning(verdict.cert) = Meaning(made.cert)
    /\ verdict.verified <=> made.signer = <<CA, CA>>

\* A certificate that verifies means what the authority signed, whatever
\* happened to its bytes and whoever made it.
VerifiedMeansSigned ==
  ReadOK =>
    (verdict.verified =>
       /\ made.signer = <<CA, CA>>
       /\ Meaning(verdict.cert) = Meaning(made.cert))

\* No beginning and no continuation of a certificate is read as a certificate.
CertIsWhole == damage \in {"cut", "extended"} /\ verdict # Unread => ~ ReadOK

KrlRead == phase = "done"

\* A KRL of the authority is read back as it was meant: serials once each and in
\* order, all key IDs as often as they were given, under the authority's key and
\* with its version.
KrlRoundTrip ==
  made.kind = "krl" /\ damage = "none" =>
    /\ phase # "refused"
    /\ KrlRead =>
         /\ krl = [made.krl EXCEPT !.serials = krl.serials, !.keyIDs = krl.keyIDs]
         /\ ToSet(krl.serials) = ToSet(made.krl.serials)
         /\ \A i, j \in DOMAIN krl.serials : i < j => krl.serials[i] < krl.serials[j]
         /\ \E p \in Bijection(DOMAIN krl.keyIDs, DOMAIN made.krl.keyIDs) :
              \A i \in DOMAIN krl.keyIDs : krl.keyIDs[i] = made.krl.keyIDs[p[i]]

\* A KRL that was cut is refused, or was cut right after its header and lists
\* nothing; it never lists some of the revocations.
KrlAllOrNothing ==
  made.kind = "krl" /\ damage = "cut" /\ KrlRead =>
    krl.serials = <<>> /\ krl.keyIDs = <<>> /\ krl.caKey = <<>>

\* A foreign KRL is read with every serial of its lists and ranges, unknown
\* sections left out, or refused for a range that is malformed or too long; one
\* with a range up to the greatest serial is neither read nor refused.
ForeignAsMeant ==
  made.kind = "foreign" /\ damage = "none" =>
    /\ phase = made.file.ends \/ phase \notin {"done", "refused"}
    /\ KrlRead => krl.serials = made.file.serials

\* No range is expanded to more than RangeLimit serials.
BoundedExpansion ==
  made.kind = "foreign" => Len(krl.serials) <= made.file.ranges * RangeLimit

\* s <= hi holds of every uint64 s.
Endless == phase = "range" /\ span[2] = MaxUint64

\* Every KRL file, damaged or not, is read to its end or refused, unless it has a
\* range up to the greatest serial, however short: the loop over that never ends.
ReaderEnds ==
  made.kind \in {"krl", "foreign"} ~> phase \in {"done", "refused"} \/ Endless
=============================================================================
