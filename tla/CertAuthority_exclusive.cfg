\* One command at a time, killed anywhere.
SPECIFICATION Spec
CONSTANTS
  p1 = p1
  p2 = p2
  p3 = p3
  k1 = k1
  otherCA = otherCA
  Absent = Absent
  Null = Null
  Lost = Lost
  Provisioner = Provisioner
  Wildcard = "*"
  ValidNames <- Names
  ValidExtensions <- Extensions
  ValidAddresses <- NoNames
  ReplacedId <- Mended
  Day = 24
  HalfRange = 128
  FallbackMaxTTL = 8
  Second = 1
  TimeModulus = 64
  MaxUint64 = 2
  Proc <- Procs
  Requests <- ReadableRequests
  ForeignCerts <- Strangers
  VerifyTimes <- Times
  PolicyDocs <- Policies
  InvalidIds <- NoIds
  LongIds <- NoIds
  Exclusive = TRUE
  Failures = TRUE
INVARIANTS
  SerialsIncrease
  ChainIntact
  AckedRevocationsInForce
  LoggedRevocationsInForce
  VerifySound
  VerifyComplete
  LedgersAgree
  ExportedRevocationsRefused
  KRLIsPrefix
PROPERTIES
  KeyStable
  ImplementsAuthority
SYMMETRY Symmetry
