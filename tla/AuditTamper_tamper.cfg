\* Edits, recomputed hashes and appends in any order.
SPECIFICATION Spec
CONSTANTS
  Bodies <- TwoBodies
  MaxEntries = 3
  MaxEdits = 3
  InvalidIds <- NoIds
  LongIds <- NoIds
  ReplacedId = "mended"
INVARIANTS
  AcceptedEntryVouches
  NamesFirstChange
\* The bounds on entries and edits stop the system.
CHECK_DEADLOCK FALSE
