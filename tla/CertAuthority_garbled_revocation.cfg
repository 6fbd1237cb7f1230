\* A key ID that is not valid UTF-8, and its revocation.
SPECIFICATION Spec
CONSTANTS
  p1 = p1
  p2 = p2
  p3 = p3
  k1 = k1
  otherCA = otherCA
  Absent = Absent
  Null = Null
  Lost = Lost
  Provisioner = Provisioner
  Wildcard = "*"
  ValidNames <- Names
  ValidExtensions <- Extensions
  ValidAddresses <- NoNames
  ReplacedId <- Mended
  Day = 24
  HalfRange = 128
  FallbackMaxTTL = 8
  Second = 1
  TimeModulus = 64
  MaxUint64 = 2
  Proc <- Procs
  Requests <- GarbledRequests
  ForeignCerts <- NoStrangers
  VerifyTimes <- Times
  PolicyDocs <- Policies
  InvalidIds <- GarbledIds
  LongIds <- NoIds
  Exclusive = TRUE
  Failures = FALSE
INVARIANTS
  VerifySound
SYMMETRY Symmetry
