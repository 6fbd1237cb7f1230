\* Every command, two of them overlapping, killed anywhere.
SPECIFICATION FairSpec
CONSTANTS
  p1 = p1
  p2 = p2
  p3 = p3
  k1 = k1
  otherCA = otherCA
  Absent = Absent
  Null = Null
  Lost = Lost
  Provisioner = Provisioner
  Wildcard = "*"
  ValidNames <- Names
  ValidExtensions <- Extensions
  ValidAddresses <- NoNames
  ReplacedId <- Mended
  Day = 24
  HalfRange = 128
  FallbackMaxTTL = 8
  Second = 1
  TimeModulus = 64
  MaxUint64 = 2
  Proc <- TwoProcs
  Requests <- AllRequests
  ForeignCerts <- Strangers
  VerifyTimes <- Inside
  PolicyDocs <- MorePolicies
  InvalidIds <- GarbledIds
  LongIds <- HugeIds
  Exclusive = FALSE
  Failures = TRUE
INVARIANTS
  TypeOK
  AuditedBeforeRelease
  NoThinAirRevocation
  EntriesLinkBack
PROPERTIES
  Terminates
  IssueDelivers
