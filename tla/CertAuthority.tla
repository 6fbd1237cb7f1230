---------------------------- MODULE CertAuthority ----------------------------
(***************************************************************************)
(* The certificate authority (internal/ca) as its commands run it          *)
(* (internal/cli).  The whole state is a directory of plain files; every   *)
(* process is one invocation of certclerk, which opens the directory,      *)
(* reads and rewrites files one system call at a time, and exits.  The     *)
(* code takes no lock, so the steps of processes that overlap interleave;  *)
(* with Exclusive the operator runs one command at a time.                 *)
(*                                                                         *)
(* A step is one access to a file together with the computation up to the  *)
(* next one.  os.WriteFile is two steps, the truncating open and the       *)
(* write.  With Failures a process may stop at any step, because it is     *)
(* killed or because a system call fails.                                  *)
(***************************************************************************)
EXTENDS Integers, Sequences, FiniteSets, Policy, Certificate, AuditLog

CONSTANTS
  Proc,            \* invocations of certclerk
  Provisioner,     \* the keypair of a directory set up beforehand
  Requests,        \* what init, issue, revoke, krl and audit may be asked to do
  ForeignCerts,    \* certificates this authority did not sign
  VerifyTimes,     \* instants given to verify --at
  PolicyDocs,      \* what an operator may save as policy.json
  MaxUint64,       \* 2^64 - 1, scaled down
  Exclusive,       \* commands never overlap
  Failures,        \* processes may be killed, system calls may fail
  Null

ASSUME AuthorityAssumption ==
  /\ MaxUint64 \in Nat \ {0}
  /\ Exclusive \in BOOLEAN
  /\ Failures \in BOOLEAN
  /\ Provisioner \notin Proc
  /\ Null \notin Proc \cup {Provisioner}

\* Key IDs are pairs of a text and a number, so that the default
\* "<user>@certclerk-<serial>" can be told from every other.
NoKeyID                 == <<"", 0>>
DefaultKeyID(u, serial) == <<u, serial>>

\* An entry without a key ID fits the scanner's buffer.
ASSUME LinesAssumption == NoKeyID \notin LongIds

\* What the flags of runIssue and runRevoke can produce.
ASSUME RequestsAssumption ==
  \A r \in Requests :
    /\ r.cmd \in {"init", "issue", "revokeSerial", "revokeKeyID", "krl", "audit"}
    /\ r.cmd = "revokeSerial" => r.serial \in 1 .. MaxUint64
    /\ r.cmd = "revokeKeyID" => r.keyID # NoKeyID

\* Clocks and durations are numbers.
TTLOK(text) == text # Absent => text.n \in Int

ASSUME TimesAssumption ==
  /\ \A r \in Requests :
       r.cmd = "issue" => r.now \in Int /\ r.backdate \in Int /\ r.ttl \in Int
  /\ \A doc \in PolicyDocs :
       /\ TTLOK(doc.defaults.maxTTL)
       /\ \A u \in DOMAIN doc.users : TTLOK(doc.users[u].maxTTL)

VARIABLES
  dir,       \* dir[f]: the content of file f
  log,       \* audit.log
  released,  \* certificates handed out
  pc,        \* pc[p]: the next step of p, or how it ended
  req,       \* req[p]: p's command line
  pair,      \* pair[p]: the two halves of the CA key p has read or made
  grant,     \* grant[p]: the policy's decision on p's request
  cert,      \* cert[p]: the certificate p has signed
  writes,    \* writes[p]: the files p has still to write
  body,      \* body[p]: the audit record p will append
  entry,     \* entry[p]: that record, sealed
  before     \* history: the processes that had succeeded when p started

vars == <<dir, log, released, pc, req, pair, grant, cert, writes, body, entry,
          before>>
files  == <<dir, log, released>>
locals == <<pair, grant, cert, writes, body, entry>>

-----------------------------------------------------------------------------
\* Files.  An empty file stands for every content its reader refuses.
\* revoked.krl is the file that krl --out names.
Files == {"ca.key", "ca.pub", "policy.json", "serial", "revoked.json",
          "revoked.krl"}

NoFile    == [kind |-> "none"]
EmptyFile == [kind |-> "empty"]
File(d)   == [kind |-> "data", data |-> d]

\* A write starts at the first byte.  When another process has written the file
\* since it was truncated, the tail of a longer content stays behind.
Overwritten(file, d) ==
  IF file.kind = "data" /\ file.data # d THEN {File(d), EmptyFile} ELSE {File(d)}

Decodes(f) == dir[f].kind = "data"
Content(f) == dir[f].data

-----------------------------------------------------------------------------
\* runIssue: --key-id, or the default.
ChosenKeyID(r, serial) ==
  IF r.keyID = NoKeyID THEN DefaultKeyID(r.user, serial) ELSE r.keyID

\* Mutants: no modulus; a counter that has wrapped is read as a serial.
NextCounterUnbounded(n)  == n + 1
SerialFileAnyUint(file)  == file.kind = "data"

\* uint64: the counter wraps to zero, which nextSerial refuses to read.
NextCounter(n)     == (n + 1) % (MaxUint64 + 1)
SerialFileOK(file) == file.kind = "data" /\ file.data # 0

-----------------------------------------------------------------------------
\* Audit records.
NoRecord == [action |-> "none", user |-> "", serial |-> 0, keyID |-> NoKeyID,
             fingerprint |-> Null, principals |-> {}, validBefore |-> 0]

InitRecord(pub) == [NoRecord EXCEPT !.action = "init", !.fingerprint = pub]

IssueRecord(user, c) ==
  [action      |-> "issue",
   user        |-> user,
   serial      |-> c.serial,
   keyID       |-> c.keyID,
   fingerprint |-> c.key,
   principals  |-> c.validPrincipals,
   validBefore |-> c.validBefore]

RevokeSerialRecord(issued) ==
  [NoRecord EXCEPT !.action = "revoke", !.user = issued.user,
                   !.serial = issued.serial, !.keyID = issued.keyID]

RevokeKeyIDRecord(id) ==
  [NoRecord EXCEPT !.action = "revoke", !.keyID = id]

-----------------------------------------------------------------------------
\* Revocations.  Exactly one of serial and keyID is set.
Revocation(r) ==
  IF r.cmd = "revokeSerial" THEN [serial |-> r.serial, keyID |-> NoKeyID]
                            ELSE [serial |-> 0, keyID |-> r.keyID]

\* revoked.json holds what encoding/json makes of the key ID.
Marshalled(rev) == [rev EXCEPT !.keyID = JsonRoundTrip(@)]

RevocationsOK(file) == file.kind # "empty"
Revocations(file)   == IF file.kind = "data" THEN file.data ELSE <<>>

AlreadyRevoked(revs, rev) ==
  \E i \in DOMAIN revs : IF rev.serial # 0
                         THEN revs[i].serial = rev.serial
                         ELSE revs[i].keyID = rev.keyID /\ revs[i].serial = 0

Covers(rev, c) ==
  \/ rev.serial # 0 /\ rev.serial = c.serial
  \/ rev.serial = 0 /\ rev.keyID # NoKeyID /\ rev.keyID = c.keyID

\* Mutant: key-ID revocations are forgotten.
IsRevokedBySerial(revs, c) ==
  \E i \in DOMAIN revs : revs[i].serial # 0 /\ revs[i].serial = c.serial

IsRevoked(revs, c) == \E i \in DOMAIN revs : Covers(revs[i], c)

\* Mutant: the list is replaced, not extended.
RevokeOverwrites(revs, rev) == <<Marshalled(rev)>>

\* The list RevokeSerial and RevokeKeyID write.
Revoke(revs, rev) == Append(revs, Marshalled(rev))

\* Mutants: the KRL leaves key IDs out; its version counts the serials only.
KRLOfSerials(revs, pub) ==
  [version |-> Len(revs), caKey |-> pub, keyIDs |-> {},
   serials |-> {revs[i].serial : i \in DOMAIN revs} \ {0}]
KRLVersionOfSerials(revs, pub) ==
  [version |-> Cardinality({i \in DOMAIN revs : revs[i].serial # 0}),
   caKey   |-> pub,
   keyIDs  |-> {revs[i].keyID : i \in {j \in DOMAIN revs : revs[j].serial = 0}}
                 \ {NoKeyID},
   serials |-> {revs[i].serial : i \in DOMAIN revs} \ {0}]

\* The list as sshd is given it: the version is the number of revocations.
KRL(revs, pub) ==
  [version |-> Len(revs),
   caKey   |-> pub,
   serials |-> {revs[i].serial : i \in DOMAIN revs} \ {0},
   keyIDs  |-> {revs[i].keyID : i \in {j \in DOMAIN revs : revs[j].serial = 0}}
                 \ {NoKeyID}]

\* Mutant: any issue entry will do.
IssueEntriesAny(entries, serial) ==
  {i \in DOMAIN entries : entries[i].body.action = "issue"}

\* issuedSerial: the first issue entry with that serial.
IssueEntries(entries, serial) ==
  {i \in DOMAIN entries : /\ entries[i].body.action = "issue"
                          /\ entries[i].body.serial = serial}
WasIssued(entries, serial) == IssueEntries(entries, serial) # {}
FirstIssue(entries, serial) ==
  LET at == IssueEntries(entries, serial)
  IN  entries[CHOOSE i \in at : \A j \in at : i <= j].body

-----------------------------------------------------------------------------
\* Control.
Ended    == {"ExitOK", "ExitFindings", "ExitRuntime", "Killed"}
Running  == {p \in Proc : pc[p] \notin {"idle"} \cup Ended}
Cmd(p)   == req[p].cmd

Goto(p, l) == pc' = [pc EXCEPT ![p] = l]
Exit(p, status) == Goto(p, status) /\ UNCHANGED <<files, req, locals, before>>

FirstStep(cmd) == CASE cmd = "init"  -> "Stat"
                    [] cmd = "audit" -> "Entries"
                    [] OTHER         -> "open.key"

\* What follows Open, the last file written and the audit entry.
AfterOpen(cmd) == CASE cmd = "issue"        -> "nextSerial"
                    [] cmd = "revokeSerial" -> "issuedSerial"
                    [] cmd = "revokeKeyID"  -> "Revocations"
                    [] cmd = "verify"       -> "IsRevoked"
                    [] cmd = "krl"          -> "KRL"

\* Mutants: release before the audit entry; no audit entry for a key ID; the
\* certificate is never written out.
AfterWritesRelease(cmd) == CASE cmd = "issue" -> "release"
                             [] cmd = "krl"   -> "ExitOK"
                             [] OTHER         -> "seal"
AfterWritesSilent(cmd)  ==
  IF cmd \in {"revokeKeyID", "krl"} THEN "ExitOK" ELSE "seal"
AfterAppendDone(cmd)    == "ExitOK"

AfterWrites(cmd) == IF cmd = "krl" THEN "ExitOK" ELSE "seal"
AfterAppend(cmd) == IF cmd = "issue" THEN "release" ELSE "ExitOK"

-----------------------------------------------------------------------------
\* A command line.  Usage errors end before any file is touched and are not
\* modelled; verify is given a certificate someone holds; audit is audit
\* --verify, and opens nothing but the log.
Commands == Requests \cup
  [cmd : {"verify"}, cert : released \cup ForeignCerts, at : VerifyTimes]

Start(p) ==
  /\ pc[p] = "idle"
  /\ Exclusive => Running = {}
  /\ \E r \in Commands :
       /\ req' = [req EXCEPT ![p] = r]
       /\ Goto(p, FirstStep(r.cmd))
  /\ before' = [before EXCEPT ![p] = {q \in Proc : pc[q] = "ExitOK"}]
  /\ UNCHANGED <<files, locals>>

-----------------------------------------------------------------------------
\* Init: the keypair p makes is p itself.
InitWrites(p) == <<[file |-> "ca.key",      data |-> p],
                   [file |-> "ca.pub",      data |-> p],
                   [file |-> "policy.json", data |-> Default],
                   [file |-> "serial",      data |-> 1]>>

\* Mutant: no check for an existing key.
MayInitAlways(file) == TRUE

\* os.Stat succeeds on an empty ca.key too.
MayInit(file) == file = NoFile

InitStat(p) ==
  /\ pc[p] = "Stat"
  /\ MayInit(dir["ca.key"])
  /\ pair' = [pair EXCEPT ![p] = [priv |-> p, pub |-> p]]
  /\ writes' = [writes EXCEPT ![p] = InitWrites(p)]
  /\ body' = [body EXCEPT ![p] = InitRecord(p)]
  /\ Goto(p, "create")
  /\ UNCHANGED <<files, req, grant, cert, entry, before>>

-----------------------------------------------------------------------------
\* Open reads ca.key, ca.pub and policy.json, in this order.
OpenKey(p) ==
  /\ pc[p] = "open.key"
  /\ Decodes("ca.key")
  /\ pair' = [pair EXCEPT ![p].priv = Content("ca.key")]
  /\ Goto(p, "open.pub")
  /\ UNCHANGED <<files, req, grant, cert, writes, body, entry, before>>

OpenPub(p) ==
  /\ pc[p] = "open.pub"
  /\ Decodes("ca.pub")
  /\ pair' = [pair EXCEPT ![p].pub = Content("ca.pub")]
  /\ Goto(p, "open.policy")
  /\ UNCHANGED <<files, req, grant, cert, writes, body, entry, before>>

\* Issue decides on the document Open has read.
Decision(p) ==
  Authorize(Content("policy.json"), req[p].user, req[p].principals, req[p].ttl)

PolicyOK   == Decodes("policy.json") /\ Validate(Content("policy.json"))
Refused(p) == Cmd(p) = "issue" /\ ~ Decision(p).granted
BackdateOK(p) == Cmd(p) = "issue" => req[p].backdate >= 0

OpenPolicy(p) ==
  /\ pc[p] = "open.policy"
  /\ PolicyOK /\ ~ Refused(p) /\ BackdateOK(p)
  /\ grant' = IF Cmd(p) = "issue" THEN [grant EXCEPT ![p] = Decision(p)]
                                  ELSE grant
  /\ Goto(p, AfterOpen(Cmd(p)))
  /\ UNCHANGED <<files, req, pair, cert, writes, body, entry, before>>

-----------------------------------------------------------------------------
\* Issue: take a serial, sign, and queue the incremented counter.
Signed(p, serial) ==
  LET r == req[p]
      g == grant[p]
  IN  Sign([key             |-> r.key,
            validPrincipals |-> g.principals,
            validAfter      |-> ValidAfter(r.now, r.backdate),
            validBefore     |-> ValidBefore(r.now, g.ttl)],
           serial, ChosenKeyID(r, serial), pair[p])

NextSerial(p) ==
  /\ pc[p] = "nextSerial"
  /\ SerialFileOK(dir["serial"])
  /\ LET n == Content("serial")
         c == Signed(p, n)
     IN  /\ cert' = [cert EXCEPT ![p] = c]
         /\ body' = [body EXCEPT ![p] = IssueRecord(req[p].user, c)]
         /\ writes' = [writes EXCEPT ![p] =
                         <<[file |-> "serial", data |-> NextCounter(n)]>>]
  /\ Goto(p, "create")
  /\ UNCHANGED <<files, req, pair, grant, entry, before>>

-----------------------------------------------------------------------------
\* RevokeSerial looks the serial up in the audit log; both ways to revoke then
\* read revoked.json and queue the longer list.
IssuedOK(p) == Readable(log) /\ WasIssued(Entries(log), req[p].serial)

IssuedSerial(p) ==
  /\ pc[p] = "issuedSerial"
  /\ IssuedOK(p)
  /\ body' = [body EXCEPT ![p] =
                RevokeSerialRecord(FirstIssue(Entries(log), req[p].serial))]
  /\ Goto(p, "Revocations")
  /\ UNCHANGED <<files, req, pair, grant, cert, writes, entry, before>>

MayRevoke(p) ==
  /\ RevocationsOK(dir["revoked.json"])
  /\ ~ AlreadyRevoked(Revocations(dir["revoked.json"]), Revocation(req[p]))

ReadRevocations(p) ==
  /\ pc[p] = "Revocations"
  /\ MayRevoke(p)
  /\ writes' = [writes EXCEPT ![p] =
                  <<[file |-> "revoked.json",
                     data |-> Revoke(Revocations(dir["revoked.json"]),
                                     Revocation(req[p]))]>>]
  /\ body' = IF Cmd(p) = "revokeKeyID"
             THEN [body EXCEPT ![p] = RevokeKeyIDRecord(req[p].keyID)]
             ELSE body
  /\ Goto(p, "create")
  /\ UNCHANGED <<files, req, pair, grant, cert, entry, before>>

-----------------------------------------------------------------------------
\* Verify: type, signature and window are local, revoked.json is read last.
Accepts(p) ==
  LET c == req[p].cert
  IN  /\ c.certType = "user"
      /\ VerifySignature(c, pair[p].pub)
      /\ ValidAt(c, req[p].at)
      /\ RevocationsOK(dir["revoked.json"])
      /\ ~ IsRevoked(Revocations(dir["revoked.json"]), c)

Verify(p) ==
  /\ pc[p] = "IsRevoked"
  /\ Accepts(p)
  /\ Exit(p, "ExitOK")

-----------------------------------------------------------------------------
\* audit --verify reads the log once.
AuditVerify(p) ==
  /\ pc[p] = "Entries"
  /\ Readable(log) /\ ChainOK(Entries(log))
  /\ Exit(p, "ExitOK")

\* krl reads revoked.json and writes the file --out names.  (It reads
\* revoked.json once more afterwards, for the message it prints.)
RenderKRL(p) ==
  /\ pc[p] = "KRL"
  /\ RevocationsOK(dir["revoked.json"])
  /\ writes' = [writes EXCEPT ![p] =
                  <<[file |-> "revoked.krl",
                     data |-> KRL(Revocations(dir["revoked.json"]),
                                  pair[p].pub)]>>]
  /\ Goto(p, "create")
  /\ UNCHANGED <<files, req, pair, grant, cert, body, entry, before>>

-----------------------------------------------------------------------------
\* os.WriteFile opens with O_TRUNC, then writes.
Create(p) ==
  /\ pc[p] = "create"
  /\ dir' = [dir EXCEPT ![Head(writes[p]).file] = EmptyFile]
  /\ Goto(p, "write")
  /\ UNCHANGED <<log, released, req, locals, before>>

Write(p) ==
  /\ pc[p] = "write"
  /\ \E file \in Overwritten(dir[Head(writes[p]).file], Head(writes[p]).data) :
       dir' = [dir EXCEPT ![Head(writes[p]).file] = file]
  /\ writes' = [writes EXCEPT ![p] = Tail(@)]
  /\ Goto(p, IF Tail(writes[p]) = <<>> THEN AfterWrites(Cmd(p)) ELSE "create")
  /\ UNCHANGED <<log, released, req, pair, grant, cert, body, entry, before>>

-----------------------------------------------------------------------------
\* audit.Append: seal the entry against the log as read, then append it.
SealEntry(p) ==
  /\ pc[p] = "seal"
  /\ Readable(log)
  /\ entry' = [entry EXCEPT ![p] = Seal(Entries(log), body[p])]
  /\ Goto(p, "append")
  /\ UNCHANGED <<files, req, pair, grant, cert, writes, body, before>>

AppendEntry(p) ==
  /\ pc[p] = "append"
  /\ log' = Append(log, Piece(entry[p], TRUE, TRUE))
  /\ Goto(p, AfterAppend(Cmd(p)))
  /\ UNCHANGED <<dir, released, req, locals, before>>

\* runIssue hands the certificate out after Issue has returned.
Release(p) ==
  /\ pc[p] = "release"
  /\ released' = released \cup {cert[p]}
  /\ Goto(p, "ExitOK")
  /\ UNCHANGED <<dir, log, req, locals, before>>

-----------------------------------------------------------------------------
\* Errors the commands report: exit 3, and exit 1 for a denial, a certificate
\* that does not verify (an unreadable revoked.json included) and a broken chain.
Broken(p) ==
  \/ pc[p] = "Stat" /\ ~ MayInit(dir["ca.key"])
  \/ pc[p] = "open.key" /\ ~ Decodes("ca.key")
  \/ pc[p] = "open.pub" /\ ~ Decodes("ca.pub")
  \/ pc[p] = "open.policy" /\ ~ PolicyOK
  \/ pc[p] = "open.policy" /\ PolicyOK /\ ~ Refused(p) /\ ~ BackdateOK(p)
  \/ pc[p] = "nextSerial" /\ ~ SerialFileOK(dir["serial"])
  \/ pc[p] = "issuedSerial" /\ ~ IssuedOK(p)
  \/ pc[p] = "Revocations" /\ ~ MayRevoke(p)
  \/ pc[p] = "KRL" /\ ~ RevocationsOK(dir["revoked.json"])
  \/ pc[p] \in {"seal", "Entries"} /\ ~ Readable(log)

Negative(p) ==
  \/ pc[p] = "open.policy" /\ PolicyOK /\ Refused(p)
  \/ pc[p] = "IsRevoked" /\ ~ Accepts(p)
  \/ pc[p] = "Entries" /\ Readable(log) /\ ~ ChainOK(Entries(log))

\* Mutant: an error is retried for ever.
RuntimeRetry(p) == Broken(p) /\ UNCHANGED vars

RuntimeErr(p) == Broken(p) /\ Exit(p, "ExitRuntime")
Findings(p)   == Negative(p) /\ Exit(p, "ExitFindings")

\* A process is killed, or a system call fails.  The append may have left any
\* prefix of the line behind; WriteFile leaves the file empty (Create).
Torn(p) == {Piece(entry[p], FALSE, FALSE), Piece(entry[p], TRUE, FALSE),
            Piece(entry[p], TRUE, TRUE)}

Stop(p) ==
  /\ Failures
  /\ p \in Running
  /\ \/ UNCHANGED log
     \/ pc[p] = "append" /\ \E t \in Torn(p) : log' = Append(log, t)
  /\ Goto(p, "Killed")
  /\ UNCHANGED <<dir, released, req, locals, before>>

\* An operator saves policy.json.
EditPolicy ==
  /\ dir["policy.json"] # NoFile
  /\ \E doc \in PolicyDocs : dir' = [dir EXCEPT !["policy.json"] = File(doc)]
  /\ UNCHANGED <<log, released, pc, req, locals, before>>

AllEnded ==
  /\ \A p \in Proc : pc[p] \in Ended
  /\ UNCHANGED vars

-----------------------------------------------------------------------------
FreshDir ==
  /\ dir = [f \in Files |-> NoFile]
  /\ log = <<>>

\* What Init leaves behind, with a policy the operator has saved since.
ProvisionedDir ==
  /\ \E doc \in {d \in PolicyDocs : Validate(d)} :
       dir = [f \in Files |->
                CASE f \in {"ca.key", "ca.pub"} -> File(Provisioner)
                  [] f = "policy.json"          -> File(doc)
                  [] f = "serial"               -> File(1)
                  [] f \in {"revoked.json", "revoked.krl"} -> NoFile]
  /\ log = <<Piece(Seal(<<>>, InitRecord(Provisioner)), TRUE, TRUE)>>

Init ==
  /\ FreshDir \/ ProvisionedDir
  /\ released = {}
  /\ pc = [p \in Proc |-> "idle"]
  /\ req = [p \in Proc |-> Null]
  /\ pair = [p \in Proc |-> [priv |-> Null, pub |-> Null]]
  /\ grant = [p \in Proc |-> Null]
  /\ cert = [p \in Proc |-> Null]
  /\ writes = [p \in Proc |-> <<>>]
  /\ body = [p \in Proc |-> NoRecord]
  /\ entry = [p \in Proc |-> Null]
  /\ before = [p \in Proc |-> {}]

Step(p) ==
  \/ InitStat(p) \/ OpenKey(p) \/ OpenPub(p) \/ OpenPolicy(p)
  \/ NextSerial(p) \/ IssuedSerial(p) \/ ReadRevocations(p) \/ Verify(p)
  \/ AuditVerify(p) \/ RenderKRL(p)
  \/ Create(p) \/ Write(p) \/ SealEntry(p) \/ AppendEntry(p) \/ Release(p)
  \/ RuntimeErr(p) \/ Findings(p)

Next ==
  \/ \E p \in Proc : Start(p) \/ Step(p) \/ Stop(p)
  \/ EditPolicy
  \/ AllEnded

Spec == Init /\ [][Next]_vars

\* The operating system schedules a process that has started.
FairSpec == Spec /\ \A p \in Proc : WF_vars(Step(p))

-----------------------------------------------------------------------------
\* Properties.

Steps == {"idle", "Stat", "open.key", "open.pub", "open.policy", "nextSerial",
          "issuedSerial", "Revocations", "IsRevoked", "Entries", "KRL",
          "create", "write", "seal", "append", "release"}

RequestedRevocations ==
  {Marshalled(Revocation(r)) :
     r \in {x \in Requests : x.cmd \in {"revokeSerial", "revokeKeyID"}}}

KRLs == [version : Nat,
         caKey   : Proc \cup {Provisioner},
         serials : SUBSET (1 .. MaxUint64),
         keyIDs  : SUBSET {rev.keyID : rev \in RequestedRevocations}]

\* The data a file may hold; FileOK also admits a missing and an empty file.
DataOK(f, d) ==
  CASE f \in {"ca.key", "ca.pub"} -> d \in Proc \cup {Provisioner}
    [] f = "policy.json"          -> d \in PolicyDocs \cup {Default}
    [] f = "serial"               -> d \in 0 .. MaxUint64
    [] f = "revoked.json"         -> d \in Seq(RequestedRevocations)
    [] f = "revoked.krl"          -> d \in KRLs

FileOK(f) == dir[f] \in {NoFile, EmptyFile} \/
             (dir[f] = File(Content(f)) /\ DataOK(f, Content(f)))

\* Type invariant: files hold data of their kind (the counter stays a uint64,
\* revoked.json only what was asked for), serials handed out are never 0.
TypeOK ==
  /\ DOMAIN dir = Files /\ \A f \in Files : FileOK(f)
  /\ pc \in [Proc -> Steps \cup Ended]
  /\ \A p \in Proc : pc[p] # "idle" =>
       Cmd(p) \in {"init", "issue", "revokeSerial", "revokeKeyID", "verify",
                   "krl", "audit"}
  /\ \A c \in released : c.serial \in 1 .. MaxUint64
  /\ before \in [Proc -> SUBSET Proc]

Record(i) == log[i].entry.body

\* q was killed before it had written the newline of entry i.
LeftOpen(i) == \E q \in Proc : pc[q] = "Killed" /\ entry[q] = log[i].entry

\* The entry of c is written to the last byte, its newline included; it starts a
\* line, or continues the one a killed command left open.
Audited(c) ==
  \E i \in DOMAIN log :
    /\ log[i].whole /\ log[i].newline
    /\ Record(i) = IssueRecord(Record(i).user, c)
    /\ i > 1 /\ ~ log[i - 1].newline => LeftOpen(i - 1)

\* Whatever interleaves and whenever a process is killed, a certificate leaves
\* runIssue only after its own issue entry, with its serial, key ID, key,
\* principals and expiry, is in audit.log to the last byte.  Only a command that
\* was killed can have spoilt the line it is in: see ReleasedAreListed.
AuditedBeforeRelease == \A c \in released : Audited(c)

\* A certificate that was handed out has a line of its own, which Entries can
\* read (README: every issue appends a JSONL entry; audit: one object per line).
\* Append glues its entry to one that was left without its newline.
ReleasedAreListed ==
  \A c \in released :
    \E i \in DOMAIN log : /\ LineOK(log, i) /\ log[i].newline
                          /\ Record(i) = IssueRecord(Record(i).user, c)

SerialLogged(serial) ==
  \E i \in DOMAIN log : /\ log[i].whole
                        /\ Record(i).action = "issue"
                        /\ Record(i).serial = serial

\* Revoked serials are serials the log shows as issued: RevokeSerial refuses a
\* typo, and no other process makes one appear in revoked.json.
NoThinAirRevocation ==
  Decodes("revoked.json") =>
    \A i \in DOMAIN Content("revoked.json") :
      LET serial == Content("revoked.json")[i].serial
      IN  serial # 0 => SerialLogged(serial)

\* Append seals an entry against the log it has read: entry e follows the line
\* with number e.seq - 1, even when other lines were appended meanwhile.
EntriesLinkBack ==
  \A i \in DOMAIN log :
    LET e == log[i].entry
    IN  /\ e.seq \in 1 .. i
        /\ e.prev = IF e.seq = 1 THEN Genesis ELSE log[e.seq - 1].entry.hash
        /\ e.hash = ComputeHash(e.seq, e.body, e.prev)

-----------------------------------------------------------------------------
\* The properties below hold when commands do not overlap.

Succeeded(p, cmds) == pc[p] = "ExitOK" /\ Cmd(p) \in cmds
Revokes == {"revokeSerial", "revokeKeyID"}

\* Of two successful issues, the later one has the greater serial, across
\* failed commands in between and up to the counter's last value.
SerialsIncrease ==
  \A p, q \in Proc : /\ Succeeded(p, {"issue"}) /\ Succeeded(q, {"issue"})
                     /\ q \in before[p]
                     => cert[q].serial < cert[p].serial

\* audit --verify accepts every log the commands have written, wherever they
\* were interrupted, as long as it can be read at all.
ChainIntact == Readable(log) => ChainOK(Entries(log))

InForce(rev) ==
  \/ dir["revoked.json"] = EmptyFile
  \/ \E i \in DOMAIN Revocations(dir["revoked.json"]) :
       Revocations(dir["revoked.json"])[i] = rev

\* A revoke that reported success stays in force: revoked.json lists it for
\* ever after, or cannot be read, and then Verify accepts nothing.
AckedRevocationsInForce ==
  \A p \in Proc : Succeeded(p, Revokes) => InForce(Revocation(req[p]))

\* What a revoke entry says was revoked.
RevocationOf(record) ==
  [serial |-> record.serial,
   keyID  |-> IF record.serial # 0 THEN NoKeyID ELSE record.keyID]

\* Every revoke entry of the log is matched by a line of revoked.json.
LoggedRevocationsInForce ==
  \A i \in DOMAIN log :
    Record(i).action = "revoke" => InForce(RevocationOf(Record(i)))

Uninterrupted == \A p \in Proc : pc[p] # "Killed"

RevokedBefore(p, c) ==
  \E q \in before[p] : Cmd(q) \in Revokes /\ Covers(Revocation(req[q]), c)

\* verify never accepts a host certificate, one whose issue entry this CA has not
\* written, one out of its window, or one whose revocation was acknowledged.
VerifySound ==
  \A p \in Proc :
    Succeeded(p, {"verify"}) =>
      LET c == req[p].cert
      IN  /\ c.certType = "user" /\ Audited(c)
          /\ c.validAfter <= req[p].at /\ req[p].at < c.validBefore
          /\ ~ RevokedBefore(p, c)

\* A later krl has truncated the file and has not written it, or never will.
Overwriting(p) == /\ dir["revoked.krl"] = EmptyFile
                  /\ \E q \in Proc : /\ pc[q] \in {"write", "Killed"}
                                     /\ Cmd(q) = "krl" /\ p \in before[q]

ListedIn(krl, rev) == IF rev.serial # 0 THEN rev.serial \in krl.serials
                                        ELSE rev.keyID \in krl.keyIDs

\* A revocation that was acknowledged before a krl command started is in the
\* file that command has written and in every later version of it.
ExportedRevocationsRefused ==
  \A p \in Proc :
    Succeeded(p, {"krl"}) /\ ~ Overwriting(p) =>
      /\ Decodes("revoked.krl")
      /\ \A q \in before[p] :
           Cmd(q) \in Revokes =>
             ListedIn(Content("revoked.krl"), Revocation(req[q]))

\* A KRL is the revocation list as it was at the KRL's version: its version says
\* how many of today's revocations it knows, and it refuses nothing else.
KRLIsPrefix ==
  Decodes("revoked.krl") /\ Decodes("revoked.json") =>
    LET krl   == Content("revoked.krl")
        known == SubSeq(Content("revoked.json"), 1, krl.version)
    IN  /\ krl.version <= Len(Content("revoked.json"))
        /\ krl.caKey = Content("ca.pub")
        /\ \A c \in released :
             IsRevoked(known, c) <=> \/ c.serial \in krl.serials
                                    \/ c.keyID \in krl.keyIDs
        /\ krl.serials \subseteq {known[i].serial : i \in DOMAIN known}
        /\ krl.keyIDs \subseteq {known[i].keyID : i \in DOMAIN known}

\* As long as no command was interrupted, verify rejects no certificate of this
\* CA that is in its window and that nobody has revoked.
VerifyComplete ==
  \A p \in Proc :
    Uninterrupted /\ pc[p] = "ExitFindings" /\ Cmd(p) = "verify" =>
      LET c == req[p].cert
      IN  \/ c \notin released
          \/ req[p].at < c.validAfter \/ req[p].at >= c.validBefore
          \/ RevokedBefore(p, c)

\* Once ca.key holds a key, no command replaces it: Init refuses.
KeyStable ==
  [][Decodes("ca.key") => dir'["ca.key"] = dir["ca.key"]]_vars

LoggedActions(action) == {i \in DOMAIN log : Record(i).action = action}

\* The serials handed out so far.
SerialsBelow(next) == 1 .. (IF next = 0 THEN MaxUint64 ELSE next - 1)

\* revs are the log's revoke entries as JSON writes them, in the log's order.
IsRevokeEntries(revs) ==
  \E at \in [DOMAIN revs -> LoggedActions("revoke")] :
    /\ \A j, k \in DOMAIN revs : j < k => at[j] < at[k]
    /\ \A i \in LoggedActions("revoke") : \E k \in DOMAIN revs : at[k] = i
    /\ \A k \in DOMAIN revs : revs[k] = Marshalled(RevocationOf(Record(at[k])))

\* Between commands, when none was interrupted, the files tell one story: the
\* certificates handed out carry the serials below the counter, each of them
\* once; each has its own issue entry, and there is no other; and revoked.json
\* is the revoke entries in their order.
LedgersAgree ==
  Running = {} /\ Uninterrupted /\ Decodes("serial") =>
    /\ {c.serial : c \in released} = SerialsBelow(Content("serial"))
    /\ \A c, d \in released : c.serial = d.serial => c = d
    /\ \A c \in released : \E i \in LoggedActions("issue") :
         Record(i) = IssueRecord(Record(i).user, c)
    /\ \A i \in LoggedActions("issue") : \E c \in released :
         Record(i) = IssueRecord(Record(i).user, c)
    /\ \A i, j \in LoggedActions("issue") :
         Record(i).serial = Record(j).serial => i = j
    /\ IsRevokeEntries(Revocations(dir["revoked.json"]))

\* Every revocation in revoked.json has its own revoke entry in the log once
\* the command that wrote it is over.
RevocationsLogged ==
  Running = {} =>
    Len(Revocations(dir["revoked.json"])) <= Cardinality(LoggedActions("revoke"))

\* A command that has started ends.
Terminates == \A p \in Proc : pc[p] \in Steps \ {"idle"} ~> pc[p] \in Ended

\* An issue that has taken its serial hands the certificate out, unless some
\* command is interrupted or a line is too long: whatever else runs meanwhile,
\* no file is left that it cannot read.
IssueDelivers ==
  \A p \in Proc :
    pc[p] = "create" /\ Cmd(p) = "issue" ~>
      \/ pc[p] = "ExitOK" /\ cert[p] \in released
      \/ ~ Uninterrupted \/ ~ Readable(log)
=============================================================================
