\* A serial range that ends at the greatest serial.
SPECIFICATION Spec
CONSTANTS
  Base = 64
  AtUnit = 60
  AtOpenSSH = 60
  CertV01 = 61
  FieldCount <- Fields
  Ed25519Name <- Ed25519
  KeySize = 1
  Magic = 4001
  RangeLimit = 4
  MaxListed = 8
  CA <- AuthorityKey
  Stranger <- StrangerKey
  KeyLines <- Lines
  Drafts = {}
  Lists = {}
  ForeignFiles <- MCUnbounded
INVARIANTS
  BoundedExpansion
