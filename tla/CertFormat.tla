----------------------------- MODULE CertFormat -----------------------------
(***************************************************************************)
(* The public-key and certificate formats (internal/sshcert): key lines,   *)
(* the signed part of a certificate, signing, parsing and verification.    *)
(*                                                                         *)
(* A line is [name, blob]: the algorithm its text names and the decoded    *)
(* base64 data; the comment is left out.  Algorithm names are sequences of *)
(* units, with one unit each for "@openssh.com" and "-cert-v01".           *)
(***************************************************************************)
EXTENDS Wire, SequencesExt

CONSTANTS
  FieldCount,   \* pubKeyFieldCount: algorithm name -> fields after the name
  Ed25519Name,  \* "ssh-ed25519"
  AtOpenSSH,    \* the unit for "@openssh.com"
  CertV01,      \* the unit for "-cert-v01"
  KeySize       \* units of a raw ed25519 public key

\* A name with "@openssh.com" is the only one that its certificate name stands for.
ASSUME FormatAssumption ==
  /\ Ed25519Name \in DOMAIN FieldCount
  /\ \A algo \in DOMAIN FieldCount : /\ algo \in Seq(Unit) /\ FieldCount[algo] \in Nat
                                    /\ algo \o <<AtOpenSSH>> \notin DOMAIN FieldCount
                                    /\ Len(algo) + 2 < Base
  /\ {AtOpenSSH, CertV01} \subseteq Unit
  /\ KeySize \in Nat
  /\ Base > 2

Refused    == [ok |-> FALSE]
Parsed(v)  == [ok |-> TRUE, val |-> v]
Strings(n) == [i \in 1 .. n |-> "string"]

-----------------------------------------------------------------------------
\* Keys are [algo, blob].

\* Mutant: what follows the last field is not looked at.
CheckKeyFieldsPrefix(algo, blob) ==
  Read(blob, <<"string">> \o Strings(FieldCount[algo])).ok

CheckKeyFields(algo, blob) ==
  LET fields == Read(blob, <<"string">> \o Strings(FieldCount[algo]))
  IN  fields.ok /\ fields.rest = <<>>

ParseAuthorizedKey(line) ==
  LET embedded == GetBytes32(line.blob)
  IN  IF /\ line.name \in DOMAIN FieldCount
         /\ embedded.ok /\ embedded.val = line.name
         /\ CheckKeyFields(line.name, line.blob)
      THEN Parsed([algo |-> line.name, blob |-> line.blob])
      ELSE Refused

KeyFields(key) == GetBytes32(key.blob).rest

NewEd25519PublicKey(pk) ==
  [algo |-> Ed25519Name, blob |-> PutBytes32(Ed25519Name) \o PutBytes32(pk)]

\* Ed25519: the raw key.
RawKey(key) ==
  LET fields == Read(key.blob, <<"string", "string">>)
  IN  IF key.algo = Ed25519Name /\ fields.ok /\ Len(fields.val[2]) = KeySize
      THEN Parsed(fields.val[2]) ELSE Refused

-----------------------------------------------------------------------------
\* Algorithm names: a -> a-cert-v01@openssh.com, and
\* a@openssh.com -> a-cert-v01@openssh.com.
CertSuffix == <<CertV01, AtOpenSSH>>

CutSuffix(name, n) == SubSeq(name, 1, Len(name) - n)

CertAlgo(algo) ==
  (IF IsSuffix(<<AtOpenSSH>>, algo) THEN CutSuffix(algo, 1) ELSE algo) \o CertSuffix

\* Mutant: only algorithms without "@openssh.com" are found again.
BaseAlgoPlain(name) ==
  IF IsSuffix(CertSuffix, name) /\ CutSuffix(name, 2) \in DOMAIN FieldCount
  THEN Parsed(CutSuffix(name, 2)) ELSE Refused

BaseAlgo(name) ==
  LET base == CutSuffix(name, 2)
  IN  IF ~ IsSuffix(CertSuffix, name) THEN Refused
      ELSE IF base \in DOMAIN FieldCount THEN Parsed(base)
      ELSE IF base \o <<AtOpenSSH>> \in DOMAIN FieldCount
           THEN Parsed(base \o <<AtOpenSSH>>)
      ELSE Refused

-----------------------------------------------------------------------------
\* Options are [name, data].
SortedByName(opts) ==
  LET order == Sorting([i \in DOMAIN opts |-> opts[i].name])
  IN  [i \in DOMAIN opts |-> opts[order[i]]]

OptionData(o) == IF o.data = <<>> THEN <<>> ELSE PutBytes32(o.data)

PackOptions(opts) ==
  Concat([i \in DOMAIN opts |->
            LET o == SortedByName(opts)[i]
            IN  PutBytes32(o.name) \o PutBytes32(OptionData(o))])

\* A valued option holds exactly one string.
OptionDataOK(data) ==
  data # <<>> => GetBytes32(data).ok /\ GetBytes32(data).rest = <<>>

UnpackOptions(b) ==
  LET all == ReadAll(b, <<"string", "string">>)
  IN  IF all.ok /\ \A i \in DOMAIN all.val : OptionDataOK(all.val[i][2])
      THEN Parsed([i \in DOMAIN all.val |->
                     [name |-> all.val[i][1],
                      data |-> IF all.val[i][2] = <<>> THEN <<>>
                               ELSE GetBytes32(all.val[i][2]).val]])
      ELSE Refused

-----------------------------------------------------------------------------
\* Certificates.
UserCert == 1
HostCert == 2

Option == {o \in [name : Seq(Unit), data : Seq(Unit)] : Fits(o.name) /\ Fits(OptionData(o))}

\* Options of one name are one option.
NamesDecide(opts) ==
  \A i, j \in DOMAIN opts : opts[i].name = opts[j].name => opts[i] = opts[j]

Certs ==
  [nonce           : Seq(Unit),
   key             : [algo : DOMAIN FieldCount, blob : Seq(Unit)],
   serial          : 0 .. MaxUint64,
   certType        : {UserCert, HostCert},
   keyID           : Seq(Unit),
   validPrincipals : Seq(Seq(Unit)),
   validAfter      : 0 .. MaxUint64,
   validBefore     : 0 .. MaxUint64,
   criticalOptions : Seq(Option),
   extensions      : Seq(Option),
   reserved        : Seq(Unit),
   signatureKey    : Seq(Unit),
   signature       : Seq(Unit)]

\* Every string of a certificate is short enough for its length to be written.
Encodable(c) ==
  /\ c \in Certs
  /\ Fits(c.nonce) /\ Fits(c.keyID) /\ Fits(c.reserved)
  /\ Fits(c.signatureKey) /\ Fits(c.signature)
  /\ \A i \in DOMAIN c.validPrincipals : Fits(c.validPrincipals[i])
  /\ Fits(PackStringList(c.validPrincipals))
  /\ Fits(PackOptions(c.criticalOptions)) /\ Fits(PackOptions(c.extensions))

ToBeSigned(c) ==
  Concat(<<PutBytes32(CertAlgo(c.key.algo)),
           PutBytes32(c.nonce),
           KeyFields(c.key),
           PutUint64(c.serial),
           PutUint32(c.certType),
           PutBytes32(c.keyID),
           PutBytes32(PackStringList(c.validPrincipals)),
           PutUint64(c.validAfter),
           PutUint64(c.validBefore),
           PutBytes32(PackOptions(c.criticalOptions)),
           PutBytes32(PackOptions(c.extensions)),
           PutBytes32(c.reserved),
           PutBytes32(c.signatureKey)>>)

\* ed25519: a signature is of one message and by one private key, and a private
\* key is named by its public key.
Ed25519Sign(priv, message)       == priv \o message
Ed25519Verify(pk, message, sig)  == sig = pk \o message

\* Sign refuses a CA key of another algorithm.
MaySign(caPub) == caPub.algo = Ed25519Name

SignCert(draft, caPub, caPriv) ==
  LET c == [draft EXCEPT !.signatureKey = caPub.blob]
  IN  [c EXCEPT !.signature =
         PutBytes32(Ed25519Name)
           \o PutBytes32(Ed25519Sign(caPriv, ToBeSigned(c)))]

MarshalLine(c) == [name |-> CertAlgo(c.key.algo),
                   blob |-> ToBeSigned(c) \o PutBytes32(c.signature)]

\* The fields of a certificate: the algorithm, the nonce, the fields of the
\* certified key, and what follows them.
CertFields(algo) ==
  Strings(FieldCount[algo] + 2) \o
  <<"uint64", "uint32", "string", "string", "uint64", "uint64",
    "string", "string", "string", "string", "string">>

\* The certificate read as these fields.
CertificateOf(algo, fields) ==
  LET n          == FieldCount[algo] + 2
      body       == SubSeq(fields.val, n + 1, Len(fields.val))
      principals == GetStringList(body[4])
      critical   == UnpackOptions(body[7])
      extensions == UnpackOptions(body[8])
  IN  IF /\ fields.ok /\ fields.rest = <<>>
         /\ Uint32(body[2]) \in {UserCert, HostCert}
         /\ principals.ok /\ critical.ok /\ extensions.ok
      THEN Parsed([nonce           |-> fields.val[2],
                   key             |-> [algo |-> algo,
                                        blob |-> PutBytes32(algo) \o
                                          PackStringList(SubSeq(fields.val, 3, n))],
                   serial          |-> Uint64(body[1]),
                   certType        |-> Uint32(body[2]),
                   keyID           |-> body[3],
                   validPrincipals |-> principals.val,
                   validAfter      |-> Uint64(body[5]),
                   validBefore     |-> Uint64(body[6]),
                   criticalOptions |-> critical.val,
                   extensions      |-> extensions.val,
                   reserved        |-> body[9],
                   signatureKey    |-> body[10],
                   signature       |-> body[11]])
      ELSE Refused

\* ParseCertificate: the first string says which fields follow.
ParseCertificate(blob) ==
  LET name == GetBytes32(blob)
      algo == IF name.ok THEN BaseAlgo(name.val) ELSE Refused
  IN  IF algo.ok THEN CertificateOf(algo.val, Read(blob, CertFields(algo.val)))
                 ELSE Refused

\* The text and the certificate name one algorithm.
OfAlgo(c, name) == IF c.ok /\ CertAlgo(c.val.key.algo) = name THEN c ELSE Refused

ParseCertificateLine(line) == OfAlgo(ParseCertificate(line.blob), line.name)

\* The embedded key: of a known algorithm.
SignatureCAOK(c) ==
  LET algo == GetBytes32(c.signatureKey)
  IN  algo.ok /\ algo.val \in DOMAIN FieldCount

SignatureOK(c, pk) ==
  LET sig == Read(c.signature, <<"string", "string">>)
  IN  /\ sig.ok /\ sig.val[1] = Ed25519Name /\ sig.rest = <<>>
      /\ Ed25519Verify(pk, ToBeSigned(c), sig.val[2])

\* Mutant: the signature is checked against the key the certificate brings.
VerifyCertEmbedded(c, caPub) ==
  LET own == RawKey([algo |-> GetBytes32(c.signatureKey).val,
                     blob |-> c.signatureKey])
  IN  SignatureCAOK(c) /\ own.ok /\ SignatureOK(c, own.val)

\* Verify: signed by exactly caPub.
VerifyCert(c, caPub) ==
  /\ SignatureCAOK(c)
  /\ c.signatureKey = caPub.blob
  /\ RawKey(caPub).ok
  /\ SignatureOK(c, RawKey(caPub).val)
=============================================================================
