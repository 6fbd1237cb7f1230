# A TLA+ model of certclerk

certclerk is a small SSH certificate authority: a command line program that
signs short-lived OpenSSH user certificates under a policy, keeps a serial
counter, a revocation list and a hash-chained audit log, and exports the
revocations for sshd.  There is no daemon.  The whole state is a directory of
plain files, and every process is one command that opens the directory, reads
and rewrites files, and exits.

This directory holds TLA+ modules for the parts whose correctness is hard to
test, TLC configurations that check them on small instances, and theorems that
TLAPS checks for all instances.

    tlc -workers 2 -config CertAuthority_commands.cfg MCCertAuthority.tla
    tlapm CertAuthorityProofs.tla     (likewise ListFacts, ExclusiveProofs, LedgerProofs,
                                      TamperProofs, IssuanceProofs, WireProofs, ArtifactProofs)

## Inventory of the system

| Component | State | Operations | What makes it correct | Status |
|---|---|---|---|---|
| `internal/ca` | the CA directory: `ca.key`, `ca.pub`, `policy.json`, `serial`, `revoked.json`, `audit.log` | Init, Open, Issue, RevokeSerial, RevokeKeyID, IsRevoked, Verify, KRL | serials never repeat; nothing is handed out unaudited; an acknowledged revocation stays in force; verify accepts exactly the good certificates; the CA key is never replaced | modelled |
| `internal/audit` | `audit.log` | Entries, Append, Verify | the log the commands write verifies; an edited log does not, and the first edited entry is named | modelled |
| `internal/policy` | none (the parsed document) | Parse, Validate, ParseTTL, Describe, Authorize | a grant stays within the user's rule; restrictions are not lost; lifetimes stay under the cap | modelled |
| `internal/sshcert` certificates | none | Sign, Verify, ValidAt, Marshal, Parse | a signature vouches for all fields; window edges; what is read is what was signed | modelled |
| `internal/sshcert` keys | none | parsing of key lines and PEM, fingerprints | a key that is accepted stays within its field of the certificate | key lines modelled, PEM and fingerprints not |
| `internal/krl` | the position of the reader | Marshal, Parse | the KRL lists exactly the revocations, or is refused | modelled |
| `internal/wire` | none | length-prefixed encoding | what is written is read; no length reaches beyond the end | modelled |
| `internal/cli` | the file named by `krl --out` | one function per command, exit codes | commands end, a success has had its effect | init, issue, verify, revoke, krl, audit --verify modelled; policy, setup, inspect only print |
| `cmd/certclerk`, `internal/version` | none | | | not modelled |

How they interact.  A command of `cli` parses its flags, calls `ca.Open` (which
reads `ca.key`, `ca.pub` and `policy.json`, in this order), then one operation
of `ca`.  Issue asks `policy.Authorize`, moves the counter, has `sshcert` sign,
calls `audit.Append` and returns; only then does `runIssue` write the
certificate out.  Both ways to revoke read `revoked.json`, write it back one
entry longer, and append to the audit log; RevokeSerial first looks the serial
up in the log.  Verify checks type, signature and window and reads
`revoked.json` last.  KRL turns `revoked.json` into the file that hosts load, and
runKRL writes it like every other file.  Certificates and KRLs leave the program
as bytes, through `sshcert`, `krl` and `wire`.  Commands share nothing but the files, and there is no lock.

What is hard to test: the order of file accesses of overlapping commands; a
process killed, or a system call failing, between two writes; the window between
the truncation and the write of `os.WriteFile`; an audit line cut short;
counters, durations, instants and serial ranges at the ends of their integer
types; key IDs that JSON cannot represent; a reader that accepts a file damaged
in one of many places.  `PROJECT.json` lists these hazards at their
lines, each with the properties aimed at it.

## Modules

| Module | Models |
|---|---|
| `Policy` | `internal/policy`: durations, validation, inheritance, the decision. Pure operators. |
| `Certificate` | what `internal/sshcert` promises the CA: the fields a signature covers, whose it is, the window. Pure. |
| `AuditLog` | `internal/audit`: sealing, reading back, verifying. Pure. |
| `CertAuthority` | `internal/ca` as the commands of `internal/cli` run it: processes over a shared directory. Extends the three above. |
| `Authority` | the abstract authority: key, counter, certificates, revocations, one atomic step each, no files. |
| `AuthorityRefinement` | the abstract state read off `CertAuthority`'s files, and the claim that it implements `Authority`. |
| `Wire` | `internal/wire`. Pure. |
| `CertFormat` | `internal/sshcert` on bytes: key lines, tbs, Sign, Marshal, ParseCertificate, Verify. Pure, over `Wire`. |
| `Krl` | `internal/krl`: Marshal, and Parse as a reader with a position. Over `Wire`. |
| `Artifact` | certificates and KRLs made, damaged and read. Composes `CertFormat` and `Krl`. |
| `Issuance` | `certclerk issue` as a pipeline from flag texts to validity window, over arbitrary policies. |
| `AuditTamper` | appends interleaved with an editor of the log. |
| `MCCertAuthority`, `MCIssuance`, `MCAuditTamper`, `MCArtifact` | small instances for TLC. |
| `ListFacts` | lemmas on sequences, numbers, recursion and sorting that the proofs share. |
| `CertAuthorityProofs` | theorems about `CertAuthority` with commands overlapping. |
| `ExclusiveProofs` | theorems about `CertAuthority` with commands one at a time: key, revocations, log, serials, setup, what verify answers and krl exports. |
| `LedgerProofs` | `AuthorityRefinement` proved, and that the books agree. |
| `TamperProofs` | theorems about `AuditTamper`. |
| `WireProofs` | theorems about `Wire`. |
| `ArtifactProofs` | theorems about `Artifact`: certificates and KRLs as bytes. |
| `IssuanceProofs` | theorems about `Issuance`. |

### CertAuthority

`dir[f]` is a file: missing, empty (which stands for everything its reader
refuses) or data.  `log` is `audit.log`, a sequence of the pieces that write(2)
appended to it; a piece may be incomplete or lack its newline, and then the
next piece continues the same line, as it does in the file.  `released` are the
certificates handed out.  Everything else is local to a process: `pc` is the
file access it makes next (or how it ended, named after the exit codes), `req`
its command line, `pair`, `grant`, `cert`, `body`, `entry` the Go locals with
these roles, `writes` the files it has still to write.

A step is one access to a file and the computation up to the next one, so the
model interleaves exactly where the operating system can:

    Init    Stat; Create, Write (x 4); SealEntry; AppendEntry
    Issue   OpenKey; OpenPub; OpenPolicy; NextSerial; Create; Write;
            SealEntry; AppendEntry; Release
    Revoke  OpenKey; OpenPub; OpenPolicy; (IssuedSerial;) ReadRevocations;
            Create; Write; SealEntry; AppendEntry
    Verify  OpenKey; OpenPub; OpenPolicy; Verify
    KRL     OpenKey; OpenPub; OpenPolicy; RenderKRL; Create; Write
    Audit   AuditVerify

`revoked.krl` stands for the file named by `krl --out`.
`RuntimeErr` and `Findings` are the error returns, with exit status 3 and 1.
`Stop` is a kill, or a system call that fails, at any step; an interrupted
append may leave any part of its line.  `EditPolicy` is the operator saving
`policy.json`.  `Exclusive` makes commands run one at a time, `Failures`
switches `Stop` on.

A write starts at the first byte of the file.  When another process has written the
file since it was truncated, a shorter content leaves the tail of the longer one
behind: `Overwritten` gives the written content or one that its reader refuses.

NextSerial signs as soon as the counter has been read.  The code signs after
writing the counter back; signing touches no file, so nobody can see the
difference.  The pairs `<<text, n>>` for key IDs tell the default ID
`<user>@certclerk-<serial>` from chosen ones.

A key pair is a single value for both halves, so a signature verifies under the
matching public key only; SHA-256 is a constructor, hence collision-free.
JSON strings are modelled by what encoding/json does: bytes that are not UTF-8
become the escape `\ufffd`, which reads back as a character that is then
written literally.  So what was hashed or stored is not always what is read.

### Authority and its refinement

`Authority` is what the program promises, without files and commands: one key,
serials taken once and in order, certificates entered before they are delivered,
revocations that are never taken back.  It may lose its counter, its list or its
ledger, and then knows so: what is `Lost` or no longer `legible` is never replaced by
a guess.  Every certificate is delivered from `pending`, right after its own entry:
into a legible ledger that shows it (`Enter`), or into one that the entry made
illegible (`Spoil`); an illegible ledger takes no further entry, so at most one
certificate goes out without being shown.  `AuthorityRefinement`
reads this state off the directory.  A file is what it decodes to, or the data
that the process between truncation and write is about to put there; so Create
is already the abstract step, the write that follows is a stutter, and a crash
between the two loses the content.  The ledger is the log as audit.Entries returns it:
every entry, or nothing when one line cannot be read.  Spoil is in it because
Append does not look whether the last line has its newline: after an append that was
killed just before, the next entry is glued to that line and its certificate is
handed out (run `glued_entry`).  An entry too long for the scanner does the same.
`pending` is the certificate of the process that is about to write it out; a kill
there is `Forget`.  `ImplementsAuthority` holds for commands that do not overlap,
wherever they are killed.

### Formats: Wire, CertFormat, Krl, Artifact

A buffer is a sequence of units.  A byte and a uint32 take one, a uint64 two, so
that it can be cut in half; a string is its length and its units.  A key or
certificate line is the algorithm its text names and its decoded blob, and the
readers compare the two as the code does.  A signature is the private key joined
to the message it signs, so it verifies for these alone.

`Krl` parses one section, one subsection and, in a range, one serial at a time;
`span` is the loop variable and the bound of `for s := lo; s <= hi; s++`, on
uint64.  The program itself only writes KRLs; krl.Parse is called by its tests,
and the runs of the reader check what those tests rely on.

`Artifact` makes a certificate (from every key line that is accepted, signed by
the authority, by a stranger, or by a stranger under the authority's name), a KRL
of the authority, or a KRL of another program; damages it at most once (cut,
extended, one unit off by one, two neighbouring pieces exchanged, each at every
place); and reads it.

### Issuance and Policy

Durations are integers of the width of `time.Duration`, scaled down
(`HalfRange`), and whole-day texts are multiplied after the sign check with
wrap-around, as in ParseTTL.  Instants are seconds, and their conversion to
uint64 wraps (`TimeModulus`).  Lists are sets, since order only shows in output.
An unset field is `Absent`; which fields treat the empty list as unset is kept
per field, as in `resolve`.

### AuditTamper

The authority appends (on whatever it finds) while an editor changes, removes,
exchanges and renumbers entries or recomputes hashes, which needs no secret.
History variables remember what Append wrote on which log.

## Runs

| Run | Instance | Shows |
|---|---|---|
| `commands` (124,752 states) | 2 processes, overlapping, killed anywhere, weak fairness; every command, also issues that are denied, have a negative backdate, a line too long to read back or a key ID that is not UTF-8; fresh and provisioned directory; a policy that breaks | TypeOK, AuditedBeforeRelease, NoThinAirRevocation, EntriesLinkBack: what holds although nothing is locked; Terminates, IssueDelivers: commands end, and an issue that took a serial delivers |
| `exclusive` (1,076,410 states) | 3 commands in sequence, killed anywhere | ImplementsAuthority; SerialsIncrease, ChainIntact, AckedRevocationsInForce, LoggedRevocationsInForce, VerifySound, KeyStable; ExportedRevocationsRefused, KRLIsPrefix: what a host that loads the exported file refuses, and how far it lags; as long as no command was interrupted LedgersAgree, VerifyComplete |
| `decisions` | all combinations of user rules, defaults and command lines of MCIssuance | GrantWithinRule, RestrictionsKept, ExpiresWithinCap, ShownIsGranted |
| `tamper` | logs up to 3 entries, up to 3 edits | AcceptedEntryVouches, NamesFirstChange |
| `formats` (66,376 states) | key lines of three algorithms with all small defects; two certificates, three signers; KRLs of the authority and of others; ranges up to the greatest serial; one damage | CertRoundTrip, VerifiedMeansSigned, CertIsWhole, KrlRoundTrip, KrlAllOrNothing, ForeignAsMeant; ReaderEnds |

Seven more runs show where the code does something else than its documentation
says (`findings` in `PROJECT.json` quotes the lines):

| Run | What happens |
|---|---|
| `lost_revocation` | two overlapping revokes both exit 0; the second write of `revoked.json` drops the first one's entry |
| `forked_chain` | two overlapping commands append entries with the same number; the log is reported as tampered with |
| `unlogged_revocation` | a revoke stopped between its two writes is in force but never logged, and the retry is refused as already revoked |
| `glued_entry` | after an issue killed before the newline of its entry, the next entry continues that line; no command can read the log any more, and the certificate is handed out |
| `garbled_revocation` | a key ID that is not valid UTF-8 is stored differently from the certificate's, so its revocation has no effect |
| `day_overflow` | a `--ttl` of so many days that int64 overflows passes the cap and expires in the far future |
| `krl_range` | a serial range that ends at the greatest uint64 is expanded without end, whatever its length |

Divergences the models also reproduce, without a run of their own: two
overlapping issues take the same serial (drop `Exclusive` in `exclusive`:
SerialsIncrease fails); two overlapping inits both pass the check for `ca.key`
(KeyStable fails likewise); removing the newest lines of the log is not noticed
(audit.go:142 accepts every beginning of a log, NamesFirstChange says so, while
audit.go:3 speaks of deleting any line); a `--ttl` below a second gives a certificate that
has expired when it is issued, because ca.go:199 and ca.go:219 cut to whole seconds
(ExpiresWithinCap says "valid when issued" of longer ones only); a backdate to before 1970
wraps around (ca.go:218) and gives a window that no instant is in; an entry with a key ID that is not UTF-8 does not
verify when read back (ChainIntact fails when `InvalidIds` is not empty);
docs/policy.md says that an explicitly empty field means "none", which
`source_address` and `force_command` do not follow (policy.go:212-217), and
that `--ttl 0` gets the full cap, which ParseTTL refuses (policy.go:180).

### Bounds

- Three commands suffice for every hazard listed: the losing interleavings need
  two, a later reader of the result makes three.  Two are enough where the
  command set is complete, since a command meets at most one other in each file.
- `MaxUint64 = 2`: the third issue reaches the wrapped counter, which nextSerial
  must refuse.
- Requests: one per path through the code.  Issues differ in the key ID, so that
  serial and key-ID revocation overlap without coinciding.
- Instants: one before, one after, and both edges of the validity window.
- Symmetry permutes processes, which are interchangeable; `commands` checks
  liveness and does without it.
- `exclusive` leaves out what an unreadable line or a refused issue adds
  (`ReadableRequests`): `commands` has both, and two commands are enough for them.
  It adds a second way to revoke the same certificate, so that revocations can
  stand on both sides of a krl.
- `formats`: `Base = 64`, so every length of the instance fits a unit and uint64
  ends at 4095; `RangeLimit = 4` stands for 2^20, and ranges of 0 to 5 serials
  occur, also ones that end at the last but one and at the last uint64.  The loop over
  the latter never ends; the model follows a range until `MaxListed` serials are listed
  (8, more than all the others list).  ReaderEnds excepts exactly these files, and
  BoundedExpansion, in `krl_range`, shows what becomes of them.  Three of the eight key algorithms: one field, several fields, a name
  that already ends in `@openssh.com`.  Exchanged pieces are up to 7 units long,
  which covers neighbouring fields, options and whole subsections.
- `decisions`: `6d` overflows to a negative duration and `11d` to a short positive
  one; a tick is half a second, so the rounding of instants is exercised, with a lifetime
  below a second too.
- `InvalidIds` is empty in the passing runs, because ChainIntact and VerifySound
  do not hold with such key IDs; `garbled_revocation` shows one of them.
- `AuditTamper` stops at its bounds, hence CHECK_DEADLOCK FALSE there.  Elsewhere
  the only states without a proper step are those where every command has
  ended (`AllEnded`, `Ended`).

### Fairness

Weak fairness of `Step(p)` for every process: the operating system keeps running
a process that has started, and no step of the code waits for another process.
Nothing is assumed of `Start`, `Stop` and `EditPolicy`.  Commands may be killed in
the liveness run too: Terminates counts a killed command as ended, and
IssueDelivers excuses an issue when some command was interrupted or the log holds
a line too long to read.  `Artifact` assumes WF of `ReadKrl`: a reader that has
begun goes on, which is all that a sequential function needs.

## Proofs

`CertAuthorityProofs` proves, for every set of processes and requests, with
commands overlapping and failing anywhere:

- `TypeCorrect`: TypeOK, in particular that the counter stays a uint64 also where
  it wraps, that no certificate with serial 0 is handed out, and that
  `revoked.json` never holds a revocation nobody requested;
- `LinksBack`: EntriesLinkBack;
- `IssuesAudited`: AuditedBeforeRelease;
- `NoThinAir`: NoThinAirRevocation.

None of them is inductive.  `Control` says which command runs at which
step, and every other argument needs it.  `ChainInv` adds to EntriesLinkBack that
the entry a process holds at "append" is already linked to the log; since the
log only grows, it stays so while others append (`LinkedStays`).
`AuditInv` follows an issue's certificate through sealing and appending: at each
step its record, entry or written entry is the one of this certificate.  `TornInv` says that
a piece of the log without a newline is the entry of a command that was killed while
it appended it (`KilledStays`): nothing else can have spoilt the line a certificate's
entry is in.  That the line can be read is not true of the code (`glued_entry`).
`TypeInv` adds that the writes a process has queued are of their file's kind.

`FieldsInv` says that every audit record has the fields issuedSerial looks at.
`BackedInv` follows a serial from the log to the file: a process that is about
to read `revoked.json` has found its serial in the log, every list a process is
about to write is backed by the log, and so is the file.  Since the log only
grows, what was backed stays backed while others append (`BackedStays`); this
is why the property needs no lock, although the lists themselves get lost.

`ExclusiveProofs` assumes `Exclusive`, the discipline the code needs and does not
enforce, and proves for any number of commands, killed anywhere:

- `OneAtATime`: at most one command runs (`Solo`), from which the rest follows;
- `TruncatedAlways`: a file that is about to be written is as its truncation left it, so
  that a write is never over another process's content;
- `KeyIsKept`: KeyStable.  `KeyInv` says that whoever is about to write `ca.key` is an
  init that found none, and that there still is none;
- `AckedStay`, `LoggedStay`: AckedRevocationsInForce and
  LoggedRevocationsInForce.  `PromiseInv` treats the two alike: what is
  acknowledged or logged is a promise, every promise is in force, and every list
  a process is about to write carries all of them.  `RecordInv` ties the record
  a revoke appends to its request.  Truncation makes the file unreadable, which
  counts as in force, since verify and krl then refuse;
- `ChainVerifies`: ChainIntact.  `NumberedInv`: line i has number i, and a sealed
  entry has the number of the next line;
- `SerialsGrow`: SerialsIncrease.  `SerialInv`: the counter, and the serial an issue
  holds, are above every serial handed out, or the counter is 0 and nextSerial
  refuses it.  `HistoryInv` says that commands that had succeeded when another started
  stay so, and that an issue past Open leaves `ca.key` in place, so that no later
  init resets the counter.

The revocation and chain theorems also assume `InvalidIds = {}`: with key IDs
that JSON cannot represent they are false (see `garbled_revocation`).
The least index that issuedSerial returns comes from the well-foundedness of the
natural numbers (`LeastNumber`).

The rest builds on `SetupInv`: the four files of init appear in the order of its
writes, and a command that got past Open holds the key pair the directory has, which
every certificate handed out was signed with.  Under the same assumptions:

- `VerifyIsSound`: VerifySound.  `VerifyInv` says that a verify is given a certificate
  that was handed out or a stranger's, and that what it accepted stays sound: the
  log grows, and which commands had succeeded before it does not change.  The
  step itself (`AcceptSound`) joins four invariants: the key pair is the
  directory's (`SetupInv`), what that key signed is logged (`AuditInv`), acknowledged
  revocations are in force (`PromiseInv`), and `HistoryInv`;
- `VerifyIsComplete`: VerifyComplete.  `QuietInv` says that as long as nothing was
  interrupted, every line of the log is whole, so that no append can fail, and
  hence every line of `revoked.json` belongs to a revoke that has succeeded or
  is on its way there; between commands, only the former is left.  `WindowInv`
  keeps the bounds of a certificate numbers through all the arithmetic of issue;
- `KRLsArePrefixes`: KRLIsPrefix.  `KrlInv`: `revoked.json` only ever grows at its end,
  and a KRL, written or about to be, is what KRL makes of its first `version` entries;
- `ExportsRefuse`: ExportedRevocationsRefused.  `ExportInv`: whatever a krl is about to
  write lists every acknowledged revocation, since none is added while it runs.

What these assume of the constants is stated in each theorem.  `DatesInRange`:
verify is asked about instants between 1970 and the last one but one of a uint64.
`KeysAreSecret`: no certificate of a stranger is signed with this
authority's key.  `LongIds = {}`, for completeness only: a line too long to read
back makes later revokes fail after they have written their list.

`LedgerProofs`, under `Exclusive` and `InvalidIds = {}`, proves

- `Refines`: ImplementsAuthority.  `LedgerInv` is what the steps need beyond the
  invariants above: no issue entry has a serial that the counter or a running
  issue has yet to give, and a revocation about to be written is not yet noted.
  `ReadInv` says that whoever is about to append has found the log readable, and that it still is.  `ViewStep` shows how a step moves
  the abstract files: only Create changes one, to the data of its writer; Write is
  a stutter, and a kill between the two loses the file.  Then each step has its
  abstract action: Create is Establish, StartCounter, Take or Revoke by the file it opens
  (`CreateRefines`).  AppendEntry, whole or cut short, is Enter or Note when the log stays
  readable, and otherwise Spoil, or Lose for an entry that no certificate follows
  (`EntryRefines`).  Release is Deliver (`ReleaseRefines`), a kill is Lose, Forget or
  nothing (`StopRefines`, `ForgetRefines`), and every other step is a stutter;
- `BooksAgree`: LedgersAgree.  `Once`, that no two entries and no two certificates
  share a serial, holds across interruptions; the rest of `BooksInv` as long as
  nothing is interrupted.  `Matches` pairs the lines of `revoked.json` with the revoke entries
  of the log, one to one and in order (`MatchesGrow`).  While a command holds something the
  books differ by exactly what it has still to do (`IssueTally`; `RevokeTally`, where the list
  is one revocation ahead of the log), and between commands by nothing.  Which certificate
  an entry describes is `AuditInv`.  Also assumes `LongIds = {}`, since a line too long to read back makes
  commands fail halfway.

`TamperProofs` proves for all entries, any number of edits and logs of any length

- `EntryVouches`: AcceptedEntryVouches.  SHA-256 being injective, an entry that
  verifies is determined by its hash, and its prev by the entry before it; two
  logs that verify and share an entry agree on everything before it, since there is
  no last place before it where they differ (`LeastNumber`);
- `FirstChangeNamed`: NamesFirstChange.  `TamperInv`: as long as no hash is recomputed,
  every hash in the log is one of the original log's, so that an entry which
  verifies is the original entry at its place.

`WireProofs` proves for every base and every buffer

- `WrittenIsRead`: a string that was put is got back and the reader stands right
  after it, whatever follows;
- `ReadIsWritten`: whatever a string was got from is the encoding of that string
  followed by the rest.  So two different strings never share an encoding, and a
  length beyond the end is refused;
- `FieldsWrittenAreRead`, `FieldsReadAreWritten`: the same for any sequence of strings
  and numbers, one after the other;
- `GroupsWrittenAreRead`, `GroupsReadAreWritten`: the same for the loops
  `for !r.Empty()`, which read principals, options, serials and key IDs.

`Read`, `ReadAll` and `Concat` are functions defined by recursion on the number of
fields.  `Recursion` (in `ListFacts`) says that such a function exists, so its defining
equations hold.  An induction is one over a set: by `UpTo`, a set that has 0 and with
a number the next has all numbers, and by `ListInduction`, one that has the empty list and
with a list each that is one longer has all lists.

`ArtifactProofs` proves for every key algorithm, certificate, KRL and damage place

- `LineRead`: ParseCertificate of what MarshalLine wrote is the certificate, its options
  sorted by name (`Canonical`).  The fields of the key stand between nonce and serial,
  so the proof joins the key's own encoding (`KeyIs`, which checkKeyFields
  establishes) with the body's to one sequence of fields and cites `FieldsWrittenAreRead`;
- `ReadIsEncodable`: conversely, what ParseCertificate returns is within all the
  bounds LineRead asks for;
- `SignedDecides`: certificates that are signed with the same bytes say the same.  This is
  what makes it right that Verify signs over the re-encoded fields: both certificates
  are `Resigned` with one signature, marshal alike, and are read alike by `LineRead`;
- `CertificatesRoundTrip`, `CertificatesAreWhole`: CertRoundTrip and CertIsWhole.  `CertInv`
  says what the damage has left of the line (`Damaged`) and that the verdict is the
  reader's of it.  What reads some bytes reads the same before any others and leaves these
  (`ReadExtends`), and ParseCertificate refuses what leaves any: so a line with something
  after it is refused (`LineExtended`), and if a line that was cut were read, the whole
  one would not be;
- `VerifiedCertificatesMeanSigned`: VerifiedMeansSigned, from `ReadIsEncodable` and
  `SignedDecides`, under the hypothesis `Unforged`, that no damage makes a signature:
  what is accepted was signed with the authority's private key, and over the message it is
  accepted for.  In the model a signature shows its key and message, so a damaged unit
  may turn one key into another unless the constants' keys are far enough apart; for real
  signatures this is what Ed25519 promises and no property of the code, so it is a
  hypothesis of the theorem and no property of a run;
- `ListsRoundTrip`, `ListsAreWholeOrEmpty`: KrlRoundTrip and KrlAllOrNothing.  `KrlInv`
  says where the reader can be.  In an undamaged file it has read a beginning of what
  Marshal wrote and has the rest before it (`AtHeader`, `AtSection`, `AtSerials`, `AtKeyIDs`,
  `AtEnd`, `AfterEnd`); in a file that was cut it gets no further than the head of the one
  section, which holds all entries and whose length is then too great (`CutRead`).
  DedupSorted is well defined because every finite set of numbers is the range of one
  increasing list (`IncreasingListExists`), and SortedIDs because some permutation sorts
  (`SortingExists`, by insertion).

`IssuanceProofs` proves, for every policy document, command line and width of the
integers,

- `GrantsWithinRule`, `RestrictionsAreKept`, `ShownIsAlwaysGranted`: the
  properties of the decision;
- `CapIsHard`: ExpiresWithinCap.  The certificate expires at most the cap after its issue;
  with a lifetime of a second or more, which is what survives the cut to whole seconds, it
  is valid at its issue; with a backdate to before 1970 its window is empty.  From lemmas on wrapping arithmetic (`Int64Small`,
  `ParsedExactly`), on the rounding of instants (`WindowBounds`,
  `BackdateBounds`) and on inheritance (`CapIsReal`).

The invariant behind them, `PipelineInv`, says that each step's result is still
the value computed from the documents and arguments when a later step uses it.

Assumptions: those of the modules on their constants (`AuthorityAssumption`,
`RequestsAssumption`, `LinesAssumption`, `TimesAssumption`, `DurationAssumption`, `NamesAssumption`,
`TimeAssumption`, `JsonAssumption`, `TextsAssumption`, `ClockAssumption`,
`BodiesAssumption`, `LostAssumption`, `BaseAssumption`, `FormatAssumption`,
`KrlAssumption`, `ArtifactAssumption`), which TLC evaluates in every run of a module that extends
theirs.  `ClockAssumption` says that 292 years from now are representable in
uint64 seconds, and that the width of durations is no more than that of instants, which
holds for every date time.Now returns and int64 and uint64.  `LinesAssumption`: an entry without a
key ID is no line too long to read back.
`RequestsAssumption` includes that a revocation by key ID names one
(commands.go:148), `TimesAssumption` that clocks and durations are whole numbers, and
`BodiesAssumption` that `AuditTamper` edits a log as it is decoded, where every
text is valid UTF-8.
`FormatAssumption` is the table of key.go: no two of its names get the same certificate
name (baseAlgo resolves them by this).  `KrlAssumption`: section tags are bytes
and the magic a uint64.  `ArtifactAssumption`: what is signed or exported is shorter
than 2^32 bytes (Buffer.Bytes32 writes the length modulo that, and certificates of 4 GB
are not what the code is for), and of two options with one name the data agree, since
sort.Slice may exchange them: Issue gives force-command and source-address once each, and
extensions no data.

Only model-checked: Terminates, IssueDelivers and ReaderEnds, which rest on fairness;
ForeignAsMeant, since what a KRL of another program means is given file by file in the
instance, and no definition says it of all files; and the seven runs that end in a counterexample.

## Not modelled

- Power loss: files keep what was written to them, in the order of the writes
  (the code never calls fsync).  A write of a small file happens entirely or not
  at all, except that of the audit line.
- PEM and passphrases, fingerprints, permissions, changed `ca.key` or `ca.pub` (such as
  a `ca.pub` of another algorithm, which Certificate.Sign refuses: `MaySign` in
  `CertFormat`; in `CertAuthority` Init makes no other), other writers of the
  directory than the commands and the operator's editor on `policy.json`.
- Wording, timestamps of entries, reasons, comments, output formats, `inspect`,
  `setup`, `policy`, `audit` as printing commands, `krl` without `--out`.
- How the nonce is drawn, base64 and white space of key and certificate lines.
- The files that issue reads and writes outside the directory (the user's key and
  the certificate): each is accessed once, by one command.
- Usage errors other than those of `issue`'s durations.
- What sshd does with a KRL: hosts are outside this program.  Two properties
  (ExportedRevocationsRefused, KRLIsPrefix) say what the file tells them.

## Plan

Done: `Policy`, `Certificate`, `AuditLog`, `CertAuthority` with all commands that
touch the directory, `Issuance`, `AuditTamper`, `Authority` and the refinement,
`Wire`, `CertFormat`, `Krl`, `Artifact`; the proofs above.

Left: a specification of the KRL files other programs may write, for which ForeignAsMeant
could be stated for all of them and proved.
