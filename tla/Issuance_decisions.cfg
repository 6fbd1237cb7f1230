\* Every rule and command line of the small sets.
SPECIFICATION Spec
CONSTANTS
  Absent = Absent
  Wildcard = "*"
  ValidNames <- Names
  ValidExtensions <- Extensions
  ValidAddresses <- Addresses
  Day = 24
  HalfRange = 128
  FallbackMaxTTL = 8
  Second = 2
  TimeModulus = 1024
  Docs <- AllDocs
  Args <- AllArgs
INVARIANTS
  GrantWithinRule
  RestrictionsKept
  ExpiresWithinCap
  ShownIsGranted
