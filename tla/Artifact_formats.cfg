\* Certificates and KRLs made, damaged once and read.
SPECIFICATION Spec
CONSTANTS
  Base = 64
  AtUnit = 60
  AtOpenSSH = 60
  CertV01 = 61
  FieldCount <- Fields
  Ed25519Name <- Ed25519
  KeySize = 1
  Magic = 4001
  RangeLimit = 4
  MaxListed = 8
  CA <- AuthorityKey
  Stranger <- StrangerKey
  KeyLines <- Lines
  Drafts <- MCDrafts
  Lists <- MCLists
  ForeignFiles <- MCForeign
INVARIANTS
  CertRoundTrip
  VerifiedMeansSigned
  CertIsWhole
  KrlRoundTrip
  KrlAllOrNothing
  ForeignAsMeant
PROPERTIES
  ReaderEnds
