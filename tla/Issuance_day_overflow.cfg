\* A whole-day --ttl that int64 cannot hold.
SPECIFICATION Spec
CONSTANTS
  Absent = Absent
  Wildcard = "*"
  ValidNames <- Names
  ValidExtensions <- Extensions
  ValidAddresses <- Addresses
  Day = 24
  HalfRange = 128
  FallbackMaxTTL = 8
  Second = 2
  TimeModulus = 1024
  Docs <- DayDocs
  Args <- DayArgs
INVARIANTS
  ExpiresWithinCapAlways
