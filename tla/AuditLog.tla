------------------------------ MODULE AuditLog ------------------------------
(***************************************************************************)
(* The audit log (internal/audit).                                         *)
(*                                                                         *)
(* An entry is [seq, body, prev, hash]; body holds the fields the caller   *)
(* fills.  The file is a sequence of the pieces that write(2) appended to  *)
(* it: [entry, whole, newline], where whole says that every byte of the    *)
(* entry's JSON object was written and newline that the line was also      *)
(* terminated.  A write that is cut short leaves a piece that is not whole *)
(* or has no newline, and the next piece continues the same line.          *)
(***************************************************************************)
EXTENDS Naturals, Sequences

CONSTANTS
  InvalidIds,   \* texts that are not valid UTF-8
  ReplacedId,   \* the text JSON turns them into (U+FFFD for every bad byte)
  LongIds       \* texts that make a line exceed the scanner's 1 MiB buffer

ASSUME JsonAssumption == ReplacedId \notin InvalidIds

-----------------------------------------------------------------------------
\* encoding/json on strings.  Bytes that are not UTF-8 are written as the
\* escape \ufffd, which is read back as the character U+FFFD; that character
\* is written literally.
JsonBytes(s) == [text    |-> IF s \in InvalidIds THEN ReplacedId ELSE s,
                 escaped |-> s \in InvalidIds]
JsonText(b)      == b.text
JsonRoundTrip(s) == JsonText(JsonBytes(s))

\* A collision-free hash.  Genesis is the hash of nothing.
Sha256(x) == <<x>>
Genesis   == <<>>

Canonical(body) == [body EXCEPT !.keyID = JsonBytes(@)]

ComputeHash(seq, body, prev) ==
  Sha256([seq |-> seq, body |-> Canonical(body), prev |-> prev])

-----------------------------------------------------------------------------
\* Entries: the file is readable when every line is one JSON object that fits
\* in the buffer.
LineOK(file, i) ==
  /\ file[i].whole
  /\ i > 1 => file[i - 1].newline
  /\ file[i].entry.body.keyID \notin LongIds

Readable(file) == \A i \in DOMAIN file : LineOK(file, i)

ReadBack(e) == [seq  |-> e.seq,
                body |-> [e.body EXCEPT !.keyID = JsonRoundTrip(@)],
                prev |-> e.prev,
                hash |-> e.hash]

Entries(file) == [i \in DOMAIN file |-> ReadBack(file[i].entry)]

-----------------------------------------------------------------------------
\* Append: seal the entry against the entries read, then append its line.

\* Mutants: the chain always continues the first entry; the hash is computed
\* before prev is filled in.
LastHashFirst(entries) ==
  IF entries = <<>> THEN Genesis ELSE entries[1].hash
SealUnlinked(entries, body) ==
  [seq  |-> Len(entries) + 1,
   body |-> body,
   prev |-> IF entries = <<>> THEN Genesis ELSE entries[Len(entries)].hash,
   hash |-> ComputeHash(Len(entries) + 1, body, Genesis)]

LastHash(entries) ==
  IF entries = <<>> THEN Genesis ELSE entries[Len(entries)].hash

Seal(entries, body) ==
  LET seq  == Len(entries) + 1
      prev == LastHash(entries)
  IN [seq  |-> seq,
      body |-> body,
      prev |-> prev,
      hash |-> ComputeHash(seq, body, prev)]

Piece(e, whole, newline) == [entry |-> e, whole |-> whole, newline |-> newline]

-----------------------------------------------------------------------------
\* Verify: the positions where the loop would stop, and the first of them.
PrevHash(entries, i) == IF i = 1 THEN Genesis ELSE entries[i - 1].hash

\* Mutants: prev is not compared; the hash is not recomputed.
BadEntryUnchained(entries, i) ==
  \/ entries[i].seq # i
  \/ entries[i].hash # ComputeHash(entries[i].seq, entries[i].body,
                                   entries[i].prev)
BadEntryUnhashed(entries, i) ==
  \/ entries[i].seq # i
  \/ entries[i].prev # PrevHash(entries, i)

BadEntry(entries, i) ==
  \/ entries[i].seq # i
  \/ entries[i].prev # PrevHash(entries, i)
  \/ entries[i].hash # ComputeHash(entries[i].seq, entries[i].body,
                                   entries[i].prev)

BadEntries(entries) == {i \in DOMAIN entries : BadEntry(entries, i)}

ChainOK(entries) == BadEntries(entries) = {}

FirstBad(entries) ==
  CHOOSE i \in BadEntries(entries) : \A j \in BadEntries(entries) : i <= j
=============================================================================
