------------------------- MODULE CertAuthorityProofs -------------------------
(***************************************************************************)
(* Safety of CertAuthority for every set of processes and requests, with   *)
(* commands overlapping and failing anywhere.                              *)
(***************************************************************************)
EXTENDS CertAuthority, ListFacts

-----------------------------------------------------------------------------
\* Control: which command a process at a given step is running.

Domains ==
  /\ pc \in [Proc -> Steps \cup Ended]
  /\ DOMAIN dir = Files
  /\ DOMAIN req = Proc /\ DOMAIN pair = Proc /\ DOMAIN grant = Proc
  /\ DOMAIN cert = Proc /\ DOMAIN writes = Proc /\ DOMAIN body = Proc
  /\ DOMAIN entry = Proc /\ before \in [Proc -> SUBSET Proc]

CommandAt(p) ==
  /\ pc[p] # "idle" => req[p] \in Requests \/ Cmd(p) = "verify"
  /\ pc[p] = "Stat" => Cmd(p) = "init"
  /\ pc[p] \in {"open.key", "open.pub", "open.policy"} =>
       Cmd(p) \notin {"init", "audit"}
  /\ pc[p] \in {"nextSerial", "release"} => Cmd(p) = "issue"
  /\ pc[p] = "issuedSerial" => Cmd(p) = "revokeSerial"
  /\ pc[p] = "Revocations" => Cmd(p) \in Revokes
  /\ pc[p] = "IsRevoked" => Cmd(p) = "verify"
  /\ pc[p] = "KRL" => Cmd(p) = "krl"
  /\ pc[p] = "Entries" => Cmd(p) = "audit"
  /\ pc[p] \in {"create", "write"} => Cmd(p) \in {"init", "issue", "krl"} \cup Revokes
  /\ pc[p] \in {"seal", "append"} => Cmd(p) \in {"init", "issue"} \cup Revokes

Control == Domains /\ \A p \in Proc : CommandAt(p)

\* What the commands start with is a command line of a known command.
LEMMA StartCommand ==
  ASSUME NEW r \in Commands
  PROVE  /\ r.cmd \in {"init", "issue", "revokeSerial", "revokeKeyID", "verify",
                       "krl", "audit"}
         /\ r \in Requests \/ r.cmd = "verify"
BY RequestsAssumption DEF Commands

FirstSteps == {"Stat", "Entries", "open.key"}

\* A command begins with a call that only reads.
LEMMA FirstStepIs == \A cmd : FirstStep(cmd) \in FirstSteps
BY DEF FirstStep, FirstSteps

\* No command has started: every process is idle.
LEMMA ControlInit == Init => Control
<1> SUFFICES ASSUME Init PROVE Control
  OBVIOUS
<1>1. DOMAIN dir = Files
  <2>1. CASE FreshDir BY <2>1 DEF FreshDir
  <2>2. CASE ProvisionedDir BY <2>2 DEF ProvisionedDir
  <2> QED BY <2>1, <2>2 DEF Init
<1>2. Domains
  BY <1>1 DEF Init, Domains, Steps
<1>3. \A p \in Proc : CommandAt(p)
  BY DEF Init, CommandAt
<1> QED BY <1>2, <1>3 DEF Control

\* A step takes a process to a step of its own command (the order of calls in
\* ca.go); no process disturbs another's control.
LEMMA ControlNext == Control /\ [Next]_vars => Control'
<1> SUFFICES ASSUME Control, [Next]_vars PROVE Control'
  OBVIOUS
<1> USE DEF Control, Domains, files, locals
<1>1. ASSUME NEW p \in Proc, Start(p) PROVE Control'
  <2>1. PICK r \in Commands :
          /\ req' = [req EXCEPT ![p] = r]
          /\ Goto(p, FirstStep(r.cmd))
    BY <1>1 DEF Start
  <2>2. Domains'
    BY <1>1, <2>1 DEF Start, Goto, FirstStep, Steps, Ended
  <2>3. \A q \in Proc : CommandAt(q)'
    BY <1>1, <2>1, StartCommand DEF Start, Goto, FirstStep, CommandAt, Cmd
  <2> QED BY <2>2, <2>3
<1>2. ASSUME NEW p \in Proc, Step(p) PROVE Control'
  <2> USE DEF CommandAt, Goto, Cmd, Steps, Ended
  <2>1. CASE InitStat(p) BY <2>1 DEF InitStat
  <2>2. CASE OpenKey(p) BY <2>2 DEF OpenKey
  <2>3. CASE OpenPub(p) BY <2>3 DEF OpenPub
  <2>4. CASE OpenPolicy(p)
    BY <2>4, RequestsAssumption DEF OpenPolicy, AfterOpen, Revokes
  <2>5. CASE NextSerial(p) BY <2>5 DEF NextSerial
  <2>6. CASE IssuedSerial(p) BY <2>6 DEF IssuedSerial, Revokes
  <2>7. CASE ReadRevocations(p) BY <2>7 DEF ReadRevocations
  <2>8. CASE Verify(p) BY <2>8 DEF Verify, Exit
  <2>9. CASE Create(p) BY <2>9 DEF Create
  <2>10. CASE Write(p)
    <3>1. \E l \in {"seal", "create", "ExitOK"} : pc' = [pc EXCEPT ![p] = l]
      BY <2>10 DEF Write, AfterWrites
    <3>2. pc[p] = "write" /\ req' = req
      BY <2>10 DEF Write
    <3>3. Domains'
      BY <2>10, <3>1 DEF Write
    <3>4. pc'[p] = "seal" => Cmd(p) # "krl"
      BY <2>10 DEF Write, AfterWrites
    <3> QED BY <3>1, <3>2, <3>3, <3>4
  <2>11. CASE SealEntry(p)
    BY <2>11 DEF SealEntry
  <2>12. CASE AppendEntry(p) BY <2>12 DEF AppendEntry, AfterAppend
  <2>13. CASE Release(p) BY <2>13 DEF Release
  <2>14. CASE RuntimeErr(p)
    <3>1. pc[p] # "idle" BY <2>14 DEF RuntimeErr, Broken
    <3> QED BY <2>14, <3>1 DEF RuntimeErr, Exit
  <2>15. CASE Findings(p)
    <3>1. pc[p] # "idle" BY <2>15 DEF Findings, Negative
    <3> QED BY <2>15, <3>1 DEF Findings, Exit
  <2>16. CASE AuditVerify(p) BY <2>16 DEF AuditVerify, Exit
  <2>17. CASE RenderKRL(p) BY <2>17 DEF RenderKRL
  <2> QED BY <1>2, <2>1, <2>2, <2>3, <2>4, <2>5, <2>6, <2>7, <2>8, <2>9, <2>10,
             <2>11, <2>12, <2>13, <2>14, <2>15, <2>16, <2>17 DEF Step
<1>3. ASSUME NEW p \in Proc, Stop(p) PROVE Control'
  BY <1>3 DEF Stop, Running, CommandAt, Goto, Cmd, Steps, Ended
<1>4. CASE EditPolicy
  BY <1>4 DEF EditPolicy, CommandAt, Cmd
<1>5. CASE UNCHANGED vars
  BY <1>5 DEF vars, CommandAt, Cmd
<1> QED BY <1>1, <1>2, <1>3, <1>4, <1>5 DEF Next, AllEnded

\* Control is invariant: at every step of ca.go a process runs one of the
\* commands that reach it.
THEOREM ControlAlways == Spec => []Control
<1> QED BY ControlInit, ControlNext, PTL DEF Spec

-----------------------------------------------------------------------------
\* Reading the log back keeps its length and the hashes.
LEMMA EntriesOfLog ==
  ASSUME NEW file, IsList(file)
  PROVE  /\ Len(Entries(file)) = Len(file)
         /\ DOMAIN Entries(file) = DOMAIN file
         /\ \A i \in DOMAIN file : Entries(file)[i].hash = file[i].entry.hash
         /\ Entries(file) = <<>> <=> Len(file) = 0
<1>1. Len(file) \in Nat /\ DOMAIN file = 1 .. Len(file)
  BY ListDomain
<1>2. DOMAIN Entries(file) = 1 .. Len(file)
  BY <1>1 DEF Entries
<1>3. Len(Entries(file)) = Len(file)
  BY <1>1, <1>2 DEF Entries
<1>4. \A i \in DOMAIN file : Entries(file)[i].hash = file[i].entry.hash
  BY DEF Entries, ReadBack
<1>5. Entries(file) = <<>> <=> Len(file) = 0
  BY <1>1, <1>2, <1>3 DEF Entries
<1> QED BY <1>1, <1>2, <1>3, <1>4, <1>5

-----------------------------------------------------------------------------
\* The audit log.  Only a process at "append" writes to it, and only by
\* appending its sealed entry, whole or not.

\* What audit.Append can do to the file, failures included.
LEMMA LogStep ==
  ASSUME [Next]_vars
  PROVE  \/ log' = log
         \/ \E p \in Proc, whole \in BOOLEAN, newline \in BOOLEAN :
              /\ pc[p] = "append"
              /\ log' = Append(log, Piece(entry[p], whole, newline))
<1>1. ASSUME NEW p \in Proc, Stop(p), log' # log
      PROVE  \E whole \in BOOLEAN, newline \in BOOLEAN :
               /\ pc[p] = "append"
               /\ log' = Append(log, Piece(entry[p], whole, newline))
  BY <1>1 DEF Stop, Torn
<1>2. ASSUME NEW p \in Proc, AppendEntry(p)
      PROVE  /\ pc[p] = "append"
             /\ log' = Append(log, Piece(entry[p], TRUE, TRUE))
  BY <1>2 DEF AppendEntry
<1>3. ASSUME NEW p \in Proc, Step(p), ~ AppendEntry(p) PROVE log' = log
  BY <1>3 DEF Step, files, Exit, InitStat, OpenKey, OpenPub, OpenPolicy,
     NextSerial, IssuedSerial, ReadRevocations, Verify, AuditVerify, RenderKRL,
     Create, Write, SealEntry, Release, RuntimeErr, Findings
<1>4. ASSUME NEW p \in Proc, Start(p) PROVE log' = log
  BY <1>4 DEF Start, files
<1>5. CASE EditPolicy
  BY <1>5 DEF EditPolicy
<1>6. CASE UNCHANGED vars
  BY <1>6 DEF vars
<1> QED BY <1>1, <1>2, <1>3, <1>4, <1>5, <1>6 DEF Next, AllEnded

\* An entry that continues the log as it was when e.seq - 1 lines were in it.
Linked(e) ==
  /\ e.seq \in 1 .. Len(log) + 1
  /\ e.prev = IF e.seq = 1 THEN Genesis ELSE log[e.seq - 1].entry.hash
  /\ e.hash = ComputeHash(e.seq, e.body, e.prev)

ChainInv ==
  /\ IsList(log)
  /\ EntriesLinkBack
  /\ \A p \in Proc : pc[p] = "append" => Linked(entry[p])

\* What Append seals against the log as it reads it is linked to that log.
LEMMA SealLinks ==
  ASSUME IsList(log), NEW b
  PROVE  Linked(Seal(Entries(log), b))
<1>1. Len(log) \in Nat /\ DOMAIN log = 1 .. Len(log)
  BY ListDomain
<1>2. Len(Entries(log)) = Len(log) /\ (Entries(log) = <<>> <=> Len(log) = 0)
  BY EntriesOfLog
<1>3. Len(log) # 0 =>
        LastHash(Entries(log)) = log[Len(log)].entry.hash
  BY <1>1, <1>2, EntriesOfLog DEF LastHash
<1>4. Len(log) = 0 => LastHash(Entries(log)) = Genesis
  BY <1>2 DEF LastHash
<1> DEFINE e == Seal(Entries(log), b)
<1>5. /\ e.seq = Len(log) + 1 /\ e.body = b
      /\ e.prev = LastHash(Entries(log))
      /\ e.hash = ComputeHash(e.seq, e.body, e.prev)
  BY <1>2 DEF Seal
<1> QED BY <1>1, <1>3, <1>4, <1>5 DEF Linked

\* What is linked stays linked while the log grows.
LEMMA LinkedStays ==
  ASSUME ChainInv, [Next]_vars, NEW e, Linked(e)
  PROVE  Linked(e)'
<1>1. CASE log' = log
  BY <1>1 DEF Linked
<1>2. ASSUME NEW x, log' = Append(log, x) PROVE Linked(e)'
  <2>1. Len(log) \in Nat /\ DOMAIN log = 1 .. Len(log)
    BY ListDomain DEF ChainInv
  <2>2. Len(log') = Len(log) + 1 /\ \A i \in DOMAIN log : log'[i] = log[i]
    BY <1>2, AppendList DEF ChainInv
  <2> QED BY <2>1, <2>2 DEF Linked
<1> QED BY <1>1, <1>2, LogStep

\* A process arrives at "append" by sealing an entry, and keeps that entry.
LEMMA EntryStep ==
  ASSUME Control, [Next]_vars, NEW p \in Proc, pc'[p] = "append"
  PROVE  SealEntry(p) \/ (pc[p] = "append" /\ entry'[p] = entry[p])
<1> USE DEF Control, Domains, Goto, files, locals
<1>1. ASSUME NEW q \in Proc, Start(q) PROVE pc[p] = "append" /\ entry' = entry
  <2>1. pc' = pc \/ \E l \in FirstSteps : pc' = [pc EXCEPT ![q] = l]
    BY <1>1, FirstStepIs DEF Start
  <2> QED BY <1>1, <2>1 DEF Start, FirstSteps
<1>2. ASSUME NEW q \in Proc, Step(q), ~ SealEntry(q)
      PROVE  pc[p] = "append" /\ entry' = entry
  <2>1. CASE OpenPolicy(q)
    BY <2>1, RequestsAssumption
    DEF OpenPolicy, AfterOpen, CommandAt, Cmd, Revokes
  <2>2. CASE ~ OpenPolicy(q)
    BY <1>2, <2>2 DEF Step, Exit, InitStat, OpenKey, OpenPub, NextSerial,
       IssuedSerial, ReadRevocations, Verify, AuditVerify, RenderKRL,
       Create, Write, AfterWrites,
       AppendEntry, AfterAppend, Release, RuntimeErr, Findings
  <2> QED BY <2>1, <2>2
<1>3. ASSUME NEW q \in Proc, SealEntry(q), q # p
      PROVE  pc[p] = "append" /\ entry'[p] = entry[p]
  BY <1>3 DEF SealEntry
<1>4. ASSUME NEW q \in Proc, Stop(q) PROVE pc[p] = "append" /\ entry' = entry
  BY <1>4 DEF Stop
<1>5. CASE EditPolicy
  BY <1>5 DEF EditPolicy
<1>6. CASE UNCHANGED vars
  BY <1>6 DEF vars
<1> QED BY <1>1, <1>2, <1>3, <1>4, <1>5, <1>6 DEF Next, AllEnded

\* A fresh directory has no log, a provisioned one a single linked entry.
LEMMA ChainInit == Init => ChainInv
<1> SUFFICES ASSUME Init PROVE ChainInv
  OBVIOUS
<1>1. CASE FreshDir
  BY <1>1 DEF Init, FreshDir, ChainInv, IsList, EntriesLinkBack
<1>2. CASE ProvisionedDir
  <2> DEFINE e == Seal(<<>>, InitRecord(Provisioner))
             x == Piece(e, TRUE, TRUE)
  <2>1. log = <<x>>
    BY <1>2 DEF ProvisionedDir
  <2>2. IsList(log) /\ DOMAIN log = {1} /\ log[1] = x
    <3> HIDE DEF x
    <3>1. IsList(<<>>) /\ DOMAIN <<>> = {} /\ Len(<<>>) = 0
      BY DEF IsList
    <3>2. log = Append(<<>>, x)
      BY <2>1
    <3>3. /\ IsList(Append(<<>>, x)) /\ DOMAIN Append(<<>>, x) = {0 + 1}
          /\ Append(<<>>, x)[0 + 1] = x
      BY <3>1, AppendList
    <3> QED BY <3>2, <3>3
  <2>3. e.seq = 1 /\ e.prev = Genesis
        /\ e.hash = ComputeHash(e.seq, e.body, e.prev)
    BY DEF Seal, LastHash
  <2>4. EntriesLinkBack
    BY <2>2, <2>3 DEF EntriesLinkBack, Piece
  <2> QED BY <2>2, <2>4 DEF Init, ChainInv
<1> QED BY <1>1, <1>2 DEF Init

\* Links are made by SealEntry and kept by every append of another process.
LEMMA ChainNext == Control /\ ChainInv /\ [Next]_vars => ChainInv'
<1> SUFFICES ASSUME Control, ChainInv, [Next]_vars PROVE ChainInv'
  OBVIOUS
<1>1. Len(log) \in Nat /\ DOMAIN log = 1 .. Len(log)
  BY ListDomain DEF ChainInv
<1>2. IsList(log)'
  <2>1. IsList(log)
    BY DEF ChainInv
  <2>2. ASSUME NEW x, log' = Append(log, x) PROVE IsList(log')
    BY <2>1, <2>2, AppendList
  <2>3. IsList(log')
    BY <2>1, <2>2, LogStep
  <2> QED BY <2>3 DEF IsList
<1>3. EntriesLinkBack'
  <2>1. CASE log' = log
    BY <2>1 DEF EntriesLinkBack, ChainInv
  <2>2. ASSUME NEW p \in Proc, NEW whole, NEW newline, pc[p] = "append",
               log' = Append(log, Piece(entry[p], whole, newline))
        PROVE  EntriesLinkBack'
    <3>1. /\ DOMAIN log' = DOMAIN log \cup {Len(log) + 1}
          /\ \A i \in DOMAIN log : log'[i] = log[i]
          /\ log'[Len(log) + 1].entry = entry[p]
      BY <2>2, AppendList DEF ChainInv, Piece
    <3>2. Linked(entry[p])
      BY <2>2 DEF ChainInv
    <3>3. SUFFICES ASSUME NEW i \in DOMAIN log'
                   PROVE  LET e == log'[i].entry
                          IN  /\ e.seq \in 1 .. i
                              /\ e.prev = IF e.seq = 1 THEN Genesis
                                          ELSE log'[e.seq - 1].entry.hash
                              /\ e.hash = ComputeHash(e.seq, e.body, e.prev)
      BY DEF EntriesLinkBack
    <3>4. CASE i \in DOMAIN log
      BY <1>1, <3>1, <3>4 DEF ChainInv, EntriesLinkBack
    <3>5. CASE i = Len(log) + 1
      BY <1>1, <3>1, <3>2, <3>5 DEF Linked
    <3> QED BY <3>1, <3>4, <3>5
  <2> QED BY <2>1, <2>2, LogStep
<1>4. ASSUME NEW p \in Proc, pc'[p] = "append" PROVE Linked(entry[p])'
  <2>1. CASE SealEntry(p)
    <3>1. entry'[p] = Seal(Entries(log), body[p]) /\ log' = log
      BY <2>1 DEF SealEntry, files, Control, Domains
    <3> QED BY <3>1, SealLinks DEF ChainInv, Linked
  <2>2. CASE ~ SealEntry(p)
    <3>1. pc[p] = "append" /\ entry'[p] = entry[p]
      BY <1>4, <2>2, EntryStep
    <3>2. Linked(entry[p])
      BY <3>1 DEF ChainInv
    <3> QED BY <3>1, <3>2, LinkedStays DEF Linked
  <2> QED BY <2>1, <2>2
<1> QED BY <1>2, <1>3, <1>4 DEF ChainInv

\* ChainInv is invariant, with appends of several processes interleaved.
THEOREM ChainAlways == Spec => []ChainInv
BY ControlInit, ControlNext, ChainInit, ChainNext, PTL DEF Spec

\* Entries link back (EntriesLinkBack of CertAuthority): whatever commands
\* overlap and wherever they are killed, a line of audit.log continues the line
\* with number seq - 1.
THEOREM LinksBack == Spec => []EntriesLinkBack
<1>1. ChainInv => EntriesLinkBack
  BY DEF ChainInv
<1> QED BY <1>1, ChainAlways, PTL

-----------------------------------------------------------------------------
\* Audited before released.

LoggedIn(file, c) ==
  \E i \in DOMAIN file :
    LET record == file[i].entry.body
    IN  /\ file[i].whole /\ file[i].newline
        /\ record = IssueRecord(record.user, c)

AuditReady(p) ==
  LET record == IssueRecord(req[p].user, cert[p])
  IN  Cmd(p) = "issue" =>
        /\ pc[p] \in {"create", "write", "seal"} => body[p] = record
        /\ pc[p] = "append" => entry[p].body = record
        /\ pc[p] = "release" => LoggedIn(log, cert[p])

AuditInv == (\A c \in released : LoggedIn(log, c)) /\ \A p \in Proc : AuditReady(p)

\* audit.log only grows: a complete entry stays in it.
LEMMA LoggedStays ==
  ASSUME IsList(log), [Next]_vars, NEW c, LoggedIn(log, c)
  PROVE  LoggedIn(log', c)
<1>1. ASSUME NEW x, log' = Append(log, x) PROVE LoggedIn(log', c)
  BY <1>1, AppendList DEF LoggedIn
<1> QED BY <1>1, LogStep

\* No certificate has been signed or released.
LEMMA AuditInit == Init => AuditInv
BY DEF Init, AuditInv, AuditReady

\* An issue passes signing, sealing, appending and release in this order, and
\* carries the same certificate through them.
LEMMA AuditNext ==
  Control /\ ChainInv /\ AuditInv /\ [Next]_vars => AuditInv'
<1> SUFFICES ASSUME Control, ChainInv, AuditInv, [Next]_vars PROVE AuditInv'
  OBVIOUS
<1> USE DEF Control, Domains, files, locals, Goto
<1>1. IsList(log)
  BY DEF ChainInv
<1>2. \A c \in released' : LoggedIn(log', c)
  <2>1. CASE released' = released
    BY <1>1, <2>1, LoggedStays DEF AuditInv
  <2>2. ASSUME NEW p \in Proc, Release(p)
        PROVE  \A c \in released' : LoggedIn(log', c)
    <3>1. released' = released \cup {cert[p]} /\ LoggedIn(log, cert[p])
      BY <2>2 DEF Release, AuditInv, AuditReady, CommandAt
    <3> QED BY <1>1, <3>1, LoggedStays DEF AuditInv
  <2>3. released' = released \/ \E p \in Proc : Release(p)
    BY DEF Next, Start, Step, Stop, EditPolicy, AllEnded, vars, Exit, InitStat,
       OpenKey, OpenPub, OpenPolicy, NextSerial, IssuedSerial, ReadRevocations,
       Verify, AuditVerify, RenderKRL,
       Create, Write, SealEntry, AppendEntry, RuntimeErr, Findings
  <2> QED BY <2>1, <2>2, <2>3
<1>3. ASSUME NEW p \in Proc PROVE AuditReady(p)'
  <2> DEFINE Same == /\ pc'[p] = pc[p] /\ req'[p] = req[p]
                     /\ cert'[p] = cert[p] /\ body'[p] = body[p]
                     /\ entry'[p] = entry[p]
  <2>1. ASSUME Same PROVE AuditReady(p)'
    <3>1. pc[p] = "release" /\ Cmd(p) = "issue" => LoggedIn(log', cert[p])
      BY <1>1, LoggedStays DEF AuditInv, AuditReady
    <3> QED BY <2>1, <3>1 DEF AuditInv, AuditReady, Cmd
  <2>2. ASSUME NEW q \in Proc, q # p, Start(q) \/ Step(q) \/ Stop(q) PROVE Same
    <3>1. CASE Start(q) BY <2>2, <3>1 DEF Start
    <3>2. CASE Stop(q) BY <2>2, <3>2 DEF Stop
    <3>3. CASE Step(q)
      BY <2>2, <3>3 DEF Step, Exit, InitStat, OpenKey, OpenPub, OpenPolicy,
         NextSerial, IssuedSerial, ReadRevocations, Verify, AuditVerify, RenderKRL,
         Create, Write, SealEntry, AppendEntry, Release, RuntimeErr, Findings
    <3> QED BY <2>2, <3>1, <3>2, <3>3
  <2>3. CASE Start(p) \/ Stop(p)
    <3>1. pc'[p] \in FirstSteps \cup {"Killed"}
      BY <2>3, FirstStepIs DEF Start, Stop
    <3> QED BY <3>1 DEF AuditReady, FirstSteps
  <2>4. CASE Step(p)
    <3> USE DEF AuditInv, AuditReady, CommandAt, Cmd
    <3>1. CASE InitStat(p) BY <3>1 DEF InitStat
    <3>2. CASE OpenKey(p) BY <3>2 DEF OpenKey
    <3>3. CASE OpenPub(p) BY <3>3 DEF OpenPub
    <3>4. CASE OpenPolicy(p)
      BY <3>4, RequestsAssumption DEF OpenPolicy, AfterOpen
    <3>5. CASE NextSerial(p) BY <3>5 DEF NextSerial
    <3>6. CASE IssuedSerial(p) BY <3>6 DEF IssuedSerial
    <3>7. CASE ReadRevocations(p) BY <3>7 DEF ReadRevocations, Revokes
    <3>8. CASE Create(p) BY <3>8 DEF Create
    <3>9. CASE Write(p) BY <3>9 DEF Write, AfterWrites
    <3>10. CASE SealEntry(p) BY <3>10 DEF SealEntry, Seal
    <3>11. CASE AppendEntry(p)
      <4> DEFINE n == Len(log) + 1
      <4>1. n \in DOMAIN log' /\ log'[n] = Piece(entry[p], TRUE, TRUE)
        <5>1. log' = Append(log, Piece(entry[p], TRUE, TRUE))
          BY <3>11 DEF AppendEntry
        <5>2. ASSUME NEW x, log' = Append(log, x)
              PROVE  n \in DOMAIN log' /\ log'[n] = x
          BY <1>1, <5>2, AppendList
        <5> QED BY <5>1, <5>2
      <4>2. Cmd(p) = "issue" => entry[p].body = IssueRecord(req[p].user, cert[p])
        BY <3>11 DEF AppendEntry
      <4>3. IssueRecord(req[p].user, cert[p]).user = req[p].user
        BY DEF IssueRecord
      <4>4. Cmd(p) = "issue" => LoggedIn(log', cert[p])
        BY <4>1, <4>2, <4>3 DEF LoggedIn, Piece
      <4> QED BY <3>11, <4>4 DEF AppendEntry, AfterAppend
    <3>12. CASE \/ Release(p) \/ Verify(p) \/ AuditVerify(p)
                \/ RuntimeErr(p) \/ Findings(p)
      BY <3>12 DEF Release, Verify, AuditVerify, RuntimeErr, Findings, Exit
    <3>13. CASE RenderKRL(p) BY <3>13 DEF RenderKRL
    <3> QED BY <2>4, <3>1, <3>2, <3>3, <3>4, <3>5, <3>6, <3>7, <3>8, <3>9,
               <3>10, <3>11, <3>12, <3>13 DEF Step
  <2>5. CASE EditPolicy \/ UNCHANGED vars
    BY <2>1, <2>5 DEF EditPolicy, vars
  <2> QED BY <2>1, <2>2, <2>3, <2>4, <2>5 DEF Next, AllEnded
<1> QED BY <1>2, <1>3 DEF AuditInv

\* The invariant behind IssuesAudited.
LEMMA AuditAlways == Spec => []AuditInv
BY AuditInit, AuditNext, ControlAlways, ChainAlways, PTL DEF Spec

\* A process that was killed takes no step and keeps its entry.
LEMMA KilledStays ==
  ASSUME Control, [Next]_vars, NEW q \in Proc, pc[q] = "Killed"
  PROVE  pc'[q] = "Killed" /\ entry'[q] = entry[q]
<1> USE DEF Control, Domains, Goto, files, locals
<1>1. ASSUME NEW p \in Proc, Start(p) PROVE pc'[q] = pc[q] /\ entry'[q] = entry[q]
  BY <1>1 DEF Start
<1>2. ASSUME NEW p \in Proc, Step(p) PROVE pc'[q] = pc[q] /\ entry'[q] = entry[q]
  <2>1. p # q
    BY <1>2 DEF Step, InitStat, OpenKey, OpenPub, OpenPolicy, NextSerial,
       IssuedSerial, ReadRevocations, Verify, AuditVerify, RenderKRL, Create,
       Write, SealEntry, AppendEntry, Release, RuntimeErr, Broken, Findings,
       Negative
  <2> QED
    BY <1>2, <2>1 DEF Step, Exit, InitStat, OpenKey, OpenPub, OpenPolicy,
       NextSerial, IssuedSerial, ReadRevocations, Verify, AuditVerify, RenderKRL,
       Create, Write, SealEntry, AppendEntry, Release, RuntimeErr, Findings
<1>3. ASSUME NEW p \in Proc, Stop(p) PROVE pc'[q] = pc[q] /\ entry'[q] = entry[q]
  BY <1>3 DEF Stop, Running, Ended
<1>4. CASE EditPolicy \/ UNCHANGED vars
  BY <1>4 DEF EditPolicy, vars
<1> QED BY <1>1, <1>2, <1>3, <1>4 DEF Next, AllEnded

\* A line without its newline was left open by a process that was killed.
TornInv == \A i \in DOMAIN log : ~ log[i].newline => LeftOpen(i)

\* What is appended without a newline comes from a process that dies with it.
LEMMA TornStep ==
  ASSUME Control, [Next]_vars
  PROVE  \/ log' = log
         \/ \E p \in Proc, whole \in BOOLEAN, newline \in BOOLEAN :
              /\ log' = Append(log, Piece(entry[p], whole, newline))
              /\ ~ newline => pc'[p] = "Killed" /\ entry'[p] = entry[p]
<1>1. ASSUME NEW p \in Proc, Stop(p), log' # log
      PROVE  \E whole \in BOOLEAN, newline \in BOOLEAN :
               /\ log' = Append(log, Piece(entry[p], whole, newline))
               /\ pc'[p] = "Killed" /\ entry'[p] = entry[p]
  BY <1>1 DEF Stop, Torn, Goto, Control, Domains, locals
<1>2. ASSUME NEW p \in Proc, AppendEntry(p)
      PROVE  log' = Append(log, Piece(entry[p], TRUE, TRUE))
  BY <1>2 DEF AppendEntry
<1>3. ASSUME NEW p \in Proc, Step(p), ~ AppendEntry(p) PROVE log' = log
  BY <1>3 DEF Step, files, Exit, InitStat, OpenKey, OpenPub, OpenPolicy,
     NextSerial, IssuedSerial, ReadRevocations, Verify, AuditVerify, RenderKRL,
     Create, Write, SealEntry, Release, RuntimeErr, Findings
<1>4. ASSUME NEW p \in Proc, Start(p) PROVE log' = log
  BY <1>4 DEF Start, files
<1>5. CASE EditPolicy \/ UNCHANGED vars
  BY <1>5 DEF EditPolicy, vars
<1> QED BY <1>1, <1>2, <1>3, <1>4, <1>5 DEF Next, AllEnded

\* A provisioned log ends in a newline.
LEMMA TornInit == Init => TornInv
<1>1. CASE FreshDir
  BY <1>1 DEF FreshDir, TornInv
<1>2. CASE ProvisionedDir
  <2> DEFINE x == Piece(Seal(<<>>, InitRecord(Provisioner)), TRUE, TRUE)
  <2>1. log = <<x>> /\ x.newline
    BY <1>2 DEF ProvisionedDir, Piece
  <2>2. DOMAIN log = {1} /\ log[1] = x
    BY <2>1
  <2> QED BY <2>1, <2>2 DEF TornInv
<1> QED BY <1>1, <1>2 DEF Init

\* Lines that were left open stay so, and whoever left them open is gone.
LEMMA TornNext == Control /\ ChainInv /\ TornInv /\ [Next]_vars => TornInv'
<1> SUFFICES ASSUME Control, ChainInv, TornInv, [Next]_vars,
                    NEW i \in DOMAIN log', ~ log'[i].newline
             PROVE  LeftOpen(i)'
  BY DEF TornInv
<1>1. ASSUME i \in DOMAIN log, log'[i] = log[i] PROVE LeftOpen(i)'
  <2>1. PICK q \in Proc : pc[q] = "Killed" /\ entry[q] = log[i].entry
    BY <1>1 DEF TornInv, LeftOpen
  <2>2. pc'[q] = "Killed" /\ entry'[q] = entry[q]
    BY <2>1, KilledStays
  <2> QED BY <1>1, <2>1, <2>2 DEF LeftOpen
<1>2. ASSUME NEW p \in Proc, NEW whole, NEW newline,
             log' = Append(log, Piece(entry[p], whole, newline)),
             ~ newline => pc'[p] = "Killed" /\ entry'[p] = entry[p]
      PROVE  LeftOpen(i)'
  <2> DEFINE x == Piece(entry[p], whole, newline)
  <2>1. x.newline = newline /\ x.entry = entry[p]
    BY DEF Piece
  <2>2. log' = Append(log, x)
    BY <1>2
  <2> HIDE DEF x
  <2>3. /\ DOMAIN log' = DOMAIN log \cup {Len(log) + 1}
        /\ log'[Len(log) + 1] = x
        /\ \A j \in DOMAIN log : log'[j] = log[j]
    BY <2>2, AppendList DEF ChainInv
  <2>4. CASE i \in DOMAIN log
    BY <1>1, <2>3, <2>4
  <2>5. CASE i = Len(log) + 1
    BY <1>2, <2>1, <2>3, <2>5 DEF LeftOpen
  <2> QED BY <2>3, <2>4, <2>5
<1> QED BY <1>1, <1>2, TornStep

\* Only killed commands leave a line open.
LEMMA TornAlways == Spec => []TornInv
BY TornInit, TornNext, ControlAlways, ChainAlways, PTL DEF Spec

\* An entry in the log to the last byte is what Audited asks for.
LEMMA LoggedIsAudited ==
  ASSUME IsList(log), TornInv, NEW c, LoggedIn(log, c)
  PROVE  Audited(c)
<1>1. PICK i \in DOMAIN log :
        /\ log[i].whole /\ log[i].newline
        /\ Record(i) = IssueRecord(Record(i).user, c)
  BY DEF LoggedIn, Record
<1>2. i > 1 => i - 1 \in DOMAIN log
  BY <1>1, ListDomain
<1>3. i > 1 /\ ~ log[i - 1].newline => LeftOpen(i - 1)
  BY <1>2 DEF TornInv
<1> QED BY <1>1, <1>3 DEF Audited

\* Audited before released (AuditedBeforeRelease of CertAuthority): every
\* certificate runIssue hands out has its issue entry in audit.log to the last
\* byte, for any number of overlapping commands, any requests, and failures
\* anywhere; its line is its own unless a command that was killed had left that
\* line open.
THEOREM IssuesAudited == Spec => []AuditedBeforeRelease
<1>1. ChainInv /\ TornInv /\ AuditInv => AuditedBeforeRelease
  BY LoggedIsAudited DEF ChainInv, AuditInv, AuditedBeforeRelease
<1> QED BY <1>1, AuditAlways, TornAlways, ChainAlways, PTL

-----------------------------------------------------------------------------
\* Types.  The writes a process has queued are of the type of their file, and
\* an issue that has taken a serial has taken one of 1 .. MaxUint64.

Pending(q) ==
  /\ IsList(q) /\ q # <<>>
  /\ \A i \in DOMAIN q : q[i].file \in Files /\ DataOK(q[i].file, q[i].data)

Holding == {"create", "write", "seal", "append", "release"}

TypeAt(p) ==
  /\ DOMAIN pair[p] = {"priv", "pub"}
  /\ pc[p] \in {"open.policy", "KRL"} => pair[p].pub \in Proc \cup {Provisioner}
  /\ pc[p] \in {"create", "write"} => Pending(writes[p])
  /\ pc[p] \in Holding /\ Cmd(p) = "issue" => cert[p].serial \in 1 .. MaxUint64

TypeInv ==
  /\ \A f \in Files : FileOK(f)
  /\ \A c \in released : c.serial \in 1 .. MaxUint64
  /\ \A p \in Proc : TypeAt(p)

\* The data the commands write is of its file's kind.
LEMMA DataKinds ==
  /\ \A d \in Proc \cup {Provisioner} : DataOK("ca.key", d) /\ DataOK("ca.pub", d)
  /\ \A d \in PolicyDocs \cup {Default} : DataOK("policy.json", d)
  /\ \A d \in 0 .. MaxUint64 : DataOK("serial", d)
  /\ 1 \in 0 .. MaxUint64
<1>1. \A d \in Proc \cup {Provisioner} : DataOK("ca.key", d) /\ DataOK("ca.pub", d)
  BY DEF DataOK
<1>2. \A d \in PolicyDocs \cup {Default} : DataOK("policy.json", d)
  BY DEF DataOK
<1>3. \A d \in 0 .. MaxUint64 : DataOK("serial", d)
  BY DEF DataOK
<1>4. 1 \in 0 .. MaxUint64
  BY AuthorityAssumption
<1> QED BY <1>1, <1>2, <1>3, <1>4

\* A queue of one write of well-kinded data is well-kinded.
LEMMA OneWrite ==
  ASSUME NEW f \in Files, NEW d, DataOK(f, d)
  PROVE  Pending(<<[file |-> f, data |-> d]>>)
<1> DEFINE w == [file |-> f, data |-> d]
<1>1. w.file = f /\ w.data = d
  OBVIOUS
<1> HIDE DEF w
<1>2. /\ <<w>> \in Seq({w}) /\ DOMAIN <<w>> = {1} /\ <<w>>[1] = w
      /\ <<w>> # <<>>
  OBVIOUS
<1>3. IsList(<<w>>)
  BY <1>2, SeqIsList
<1>4. Pending(<<w>>)
  BY <1>1, <1>2, <1>3 DEF Pending
<1> QED BY <1>4 DEF w

\* The four files Init writes are well-kinded.
LEMMA InitWritesPending ==
  ASSUME NEW p \in Proc PROVE Pending(InitWrites(p))
<1> DEFINE W(f, d) == [file |-> f, data |-> d]
           S == {W("ca.key", p), W("ca.pub", p), W("policy.json", Default),
                 W("serial", 1)}
<1>1. \A w \in S : w.file \in Files /\ DataOK(w.file, w.data)
  BY DataKinds DEF Files
<1>2. /\ InitWrites(p) \in Seq(S) /\ DOMAIN InitWrites(p) = 1 .. 4
      /\ InitWrites(p) # <<>>
  BY DEF InitWrites
<1>3. \A i \in 1 .. 4 : InitWrites(p)[i] \in S
  BY DEF InitWrites
<1> HIDE DEF S
<1> QED BY <1>1, <1>2, <1>3, SeqIsList DEF Pending

\* A write leaves the data it was given, or a file that its reader refuses.
LEMMA WriteLeaves ==
  ASSUME NEW p \in Proc, Write(p)
  PROVE  \E file \in {File(Head(writes[p]).data), EmptyFile} :
           dir' = [dir EXCEPT ![Head(writes[p]).file] = file]
BY DEF Write, Overwritten

\* A file whose content is replaced by data of its kind.
LEMMA WrittenFile ==
  ASSUME NEW f \in Files, NEW d, DataOK(f, d), DOMAIN dir = Files,
         NEW file \in {File(d), EmptyFile},
         dir' = [dir EXCEPT ![f] = file], \A g \in Files : FileOK(g)
  PROVE  \A g \in Files : FileOK(g)'
BY DEF FileOK, File, Content

\* The list a revoke writes back holds requested revocations only, if the one it
\* read did.
LEMMA RevokeListOK ==
  ASSUME NEW r \in Requests, r.cmd \in Revokes,
         NEW file, file.kind = "data" => DataOK("revoked.json", file.data)
  PROVE  DataOK("revoked.json", Revoke(Revocations(file), Revocation(r)))
<1>1. Marshalled(Revocation(r)) \in RequestedRevocations
  BY DEF RequestedRevocations, Revokes
<1>2. Revocations(file) \in Seq(RequestedRevocations)
  BY DEF Revocations, DataOK
<1>3. Revoke(Revocations(file), Revocation(r)) \in Seq(RequestedRevocations)
  BY <1>1, <1>2 DEF Revoke
<1> QED BY <1>3 DEF DataOK

\* The KRL made of a list of requested revocations names those and no others.
LEMMA KRLDataOK ==
  ASSUME NEW file, file.kind = "data" => DataOK("revoked.json", file.data),
         NEW pub \in Proc \cup {Provisioner}
  PROVE  DataOK("revoked.krl", KRL(Revocations(file), pub))
<1> DEFINE revs == Revocations(file)
<1>1. revs \in Seq(RequestedRevocations)
  BY DEF Revocations, DataOK
<1>2. Len(revs) \in Nat /\ \A i \in DOMAIN revs : revs[i] \in RequestedRevocations
  BY <1>1
<1>3. \A rev \in RequestedRevocations : rev.serial \in 0 .. MaxUint64
  <2>1. ASSUME NEW r \in Requests, r.cmd \in Revokes
        PROVE  Revocation(r).serial \in 0 .. MaxUint64
    BY <2>1, RequestsAssumption, AuthorityAssumption DEF Revocation, Revokes
  <2>2. ASSUME NEW r PROVE Marshalled(Revocation(r)).serial = Revocation(r).serial
    BY DEF Marshalled, Revocation
  <2> QED BY <2>1, <2>2 DEF RequestedRevocations, Revokes
<1>4. {revs[i].serial : i \in DOMAIN revs} \ {0} \subseteq 1 .. MaxUint64
  BY <1>2, <1>3, AuthorityAssumption
<1>5. {revs[i].keyID : i \in {j \in DOMAIN revs : revs[j].serial = 0}} \ {NoKeyID}
        \subseteq {rev.keyID : rev \in RequestedRevocations}
  BY <1>2
<1> HIDE DEF revs
<1>6. KRL(revs, pub) \in KRLs
  BY <1>2, <1>4, <1>5 DEF KRL, KRLs
<1> QED BY <1>6 DEF DataOK, revs

\* Both initial directories hold well-kinded files.
LEMMA TypeInit == Init => TypeInv
<1> SUFFICES ASSUME Init PROVE TypeInv
  OBVIOUS
<1>1. CASE FreshDir
  BY <1>1 DEF Init, FreshDir, TypeInv, FileOK, TypeAt, Holding
<1>2. CASE ProvisionedDir
  <2>1. PICK doc \in PolicyDocs :
          dir = [f \in Files |->
                   CASE f \in {"ca.key", "ca.pub"} -> File(Provisioner)
                     [] f = "policy.json"          -> File(doc)
                     [] f = "serial"               -> File(1)
                     [] f \in {"revoked.json", "revoked.krl"} -> NoFile]
    BY <1>2 DEF ProvisionedDir
  <2>2. \A f \in Files : FileOK(f)
    <3>1. FileOK("ca.key") /\ FileOK("ca.pub")
      BY <2>1, DataKinds DEF Files, FileOK, File, Content
    <3>2. FileOK("policy.json")
      BY <2>1, DataKinds DEF Files, FileOK, File, Content
    <3>3. FileOK("serial")
      BY <2>1, DataKinds DEF Files, FileOK, File, Content
    <3>4. FileOK("revoked.json") /\ FileOK("revoked.krl")
      BY <2>1 DEF Files, FileOK
    <3> QED BY <3>1, <3>2, <3>3, <3>4 DEF Files
  <2> QED BY <2>2 DEF Init, TypeInv, TypeAt, Holding
<1> QED BY <1>1, <1>2 DEF Init

\* The counter stays in uint64, also where it wraps around.
LEMMA CounterRange ==
  ASSUME NEW n \in 0 .. MaxUint64
  PROVE  NextCounter(n) \in 0 .. MaxUint64
<1>1. MaxUint64 + 1 \in Nat \ {0} /\ n + 1 \in Nat
  BY AuthorityAssumption
<1>2. \A m \in Nat, k \in Nat \ {0} : m % k \in 0 .. k - 1
  OBVIOUS
<1> QED BY <1>1, <1>2, AuthorityAssumption DEF NextCounter

\* A process whose own variables do not change keeps its types.
LEMMA TypeAtStays ==
  ASSUME NEW p \in Proc, TypeAt(p),
         pc'[p] = pc[p], req'[p] = req[p], cert'[p] = cert[p],
         writes'[p] = writes[p], pair'[p] = pair[p]
  PROVE  TypeAt(p)'
BY DEF TypeAt, Cmd

\* Every file write writes data of the file's kind; every signed certificate has
\* a serial that nextSerial accepted.
LEMMA TypeNext == Control /\ TypeInv /\ [Next]_vars => TypeInv'
<1> SUFFICES ASSUME Control, TypeInv, [Next]_vars PROVE TypeInv'
  OBVIOUS
<1> USE DEF Control, Domains, files, locals, Goto
<1>1. ASSUME dir' = dir PROVE \A f \in Files : FileOK(f)'
  BY <1>1 DEF TypeInv, FileOK, Content
<1>2. ASSUME NEW p \in Proc, Start(p) PROVE TypeInv'
  <2>1. \A q \in Proc : TypeAt(q)'
    <3>1. TypeAt(p)'
      <4>1. pc'[p] \in FirstSteps /\ pair' = pair
        BY <1>2, FirstStepIs DEF Start
      <4> QED BY <4>1 DEF FirstSteps, TypeInv, TypeAt, Holding
    <3>2. ASSUME NEW q \in Proc, q # p PROVE TypeAt(q)'
      BY <1>2, <3>2, TypeAtStays DEF Start, TypeInv
    <3> QED BY <3>1, <3>2
  <2> QED BY <1>1, <1>2, <2>1 DEF Start, TypeInv
<1>3. ASSUME NEW p \in Proc, Step(p) PROVE TypeInv'
  <2>1. ASSUME NEW q \in Proc, q # p PROVE TypeAt(q)'
    <3>1. /\ pc'[q] = pc[q] /\ req'[q] = req[q] /\ cert'[q] = cert[q]
          /\ writes'[q] = writes[q] /\ pair'[q] = pair[q]
      BY <1>3, <2>1 DEF Step, Exit, InitStat, OpenKey, OpenPub, OpenPolicy,
         NextSerial, IssuedSerial, ReadRevocations, Verify, AuditVerify, RenderKRL,
         Create, Write, SealEntry, AppendEntry, Release, RuntimeErr, Findings
    <3> QED BY <3>1, TypeAtStays DEF TypeInv
  <2>2. CASE InitStat(p)
    <3>1. TypeAt(p)'
      BY <2>2, InitWritesPending DEF InitStat, TypeAt, CommandAt, Cmd, Holding
    <3> QED BY <1>1, <2>1, <2>2, <3>1 DEF InitStat, TypeInv
  <2>3. CASE OpenKey(p) \/ IssuedSerial(p)
    <3>1. TypeAt(p)'
      BY <2>3 DEF OpenKey, IssuedSerial, TypeInv, TypeAt, Holding
    <3> QED BY <1>1, <2>1, <2>3, <3>1 DEF OpenKey, IssuedSerial, TypeInv
  <2>12. CASE OpenPub(p)
    <3>1. Content("ca.pub") \in Proc \cup {Provisioner}
      BY <2>12 DEF OpenPub, Decodes, TypeInv, FileOK, DataOK, Files, Content,
         NoFile, EmptyFile
    <3>2. TypeAt(p)'
      BY <2>12, <3>1 DEF OpenPub, TypeInv, TypeAt, Holding
    <3> QED BY <1>1, <2>1, <2>12, <3>2 DEF OpenPub, TypeInv
  <2>13. CASE RenderKRL(p)
    <3> DEFINE d == KRL(Revocations(dir["revoked.json"]), pair[p].pub)
    <3>1. pair[p].pub \in Proc \cup {Provisioner}
      BY <2>13 DEF RenderKRL, TypeInv, TypeAt
    <3>2. dir["revoked.json"].kind = "data" =>
            DataOK("revoked.json", dir["revoked.json"].data)
      BY DEF TypeInv, FileOK, Files, Content, NoFile, EmptyFile
    <3>3. Pending(<<[file |-> "revoked.krl", data |-> d]>>)
      BY <3>1, <3>2, KRLDataOK, OneWrite DEF Files
    <3>4. TypeAt(p)'
      BY <2>13, <3>3 DEF RenderKRL, CommandAt, TypeInv, TypeAt, Cmd, Holding
    <3> QED BY <1>1, <2>1, <2>13, <3>4 DEF RenderKRL, TypeInv
  <2>4. CASE OpenPolicy(p)
    <3>1. pc'[p] \notin Holding
      BY <2>4, RequestsAssumption
      DEF OpenPolicy, AfterOpen, CommandAt, Cmd, Revokes, Holding
    <3>2. pair' = pair /\ pc[p] = "open.policy"
      BY <2>4 DEF OpenPolicy
    <3> QED BY <1>1, <2>1, <2>4, <3>1, <3>2 DEF OpenPolicy, TypeInv, TypeAt, Holding
  <2>5. CASE NextSerial(p)
    <3> DEFINE n == Content("serial")
    <3>1. n \in 1 .. MaxUint64
      BY <2>5, AuthorityAssumption
      DEF NextSerial, SerialFileOK, TypeInv, FileOK, DataOK, Files, Content,
          NoFile, EmptyFile
    <3>2. Pending(<<[file |-> "serial", data |-> NextCounter(n)]>>)
      <4>1. NextCounter(n) \in 0 .. MaxUint64
        BY <3>1, CounterRange, AuthorityAssumption
      <4> QED BY <4>1, DataKinds, OneWrite DEF Files
    <3>3. cert'[p].serial = n /\ pc'[p] = "create"
          /\ writes'[p] = <<[file |-> "serial", data |-> NextCounter(n)]>>
      BY <2>5 DEF NextSerial, Signed, Sign
    <3>4. TypeAt(p)'
      BY <2>5, <3>1, <3>2, <3>3 DEF NextSerial, TypeInv, TypeAt
    <3> QED BY <1>1, <2>1, <2>5, <3>4 DEF NextSerial, TypeInv
  <2>6. CASE ReadRevocations(p)
    <3> DEFINE file == dir["revoked.json"]
               d == Revoke(Revocations(file), Revocation(req[p]))
    <3>1. req[p] \in Requests /\ req[p].cmd \in Revokes
      BY <2>6 DEF ReadRevocations, CommandAt, Cmd, Revokes
    <3>2. file.kind = "data" => DataOK("revoked.json", file.data)
      BY DEF TypeInv, FileOK, Files, Content, NoFile, EmptyFile
    <3>3. Pending(<<[file |-> "revoked.json", data |-> d]>>)
      BY <3>1, <3>2, RevokeListOK, OneWrite DEF Files
    <3>4. TypeAt(p)'
      BY <2>6, <3>1, <3>3
      DEF ReadRevocations, TypeInv, TypeAt, Cmd, Revokes, Holding
    <3> QED BY <1>1, <2>1, <2>6, <3>4 DEF ReadRevocations, TypeInv
  <2>7. CASE Create(p)
    <3>1. \A f \in Files : FileOK(f)'
      BY <2>7 DEF Create, TypeInv, FileOK, Content
    <3>2. TypeAt(p)'
      BY <2>7 DEF Create, TypeInv, TypeAt, Cmd, Holding
    <3> QED BY <2>1, <2>7, <3>1, <3>2 DEF Create, TypeInv
  <2>8. CASE Write(p)
    <3> DEFINE w == Head(writes[p])
    <3>1. Pending(writes[p])
      BY <2>8 DEF Write, TypeInv, TypeAt
    <3>2. w.file \in Files /\ DataOK(w.file, w.data)
      BY <3>1, TailList DEF Pending
    <3>3. \A f \in Files : FileOK(f)'
      BY <2>8, <3>2, WriteLeaves, WrittenFile DEF TypeInv
    <3>4. Tail(writes[p]) # <<>> => Pending(Tail(writes[p]))
      BY <3>1, TailList DEF Pending
    <3>5. TypeAt(p)'
      BY <2>8, <3>4 DEF Write, AfterWrites, TypeInv, TypeAt, Cmd, Holding
    <3> QED BY <2>1, <2>8, <3>3, <3>5 DEF Write, TypeInv
  <2>9. CASE SealEntry(p) \/ AppendEntry(p)
    <3>1. TypeAt(p)'
      BY <2>9 DEF SealEntry, AppendEntry, AfterAppend, TypeInv, TypeAt, Cmd, Holding
    <3> QED BY <1>1, <2>1, <2>9, <3>1 DEF SealEntry, AppendEntry, TypeInv
  <2>10. CASE Release(p)
    <3>1. cert[p].serial \in 1 .. MaxUint64
      BY <2>10 DEF Release, TypeInv, TypeAt, CommandAt, Holding
    <3>2. TypeAt(p)'
      BY <2>10 DEF Release, TypeInv, TypeAt, Holding
    <3> QED BY <1>1, <2>1, <2>10, <3>1, <3>2 DEF Release, TypeInv
  <2>11. CASE Verify(p) \/ AuditVerify(p) \/ RuntimeErr(p) \/ Findings(p)
    <3>1. TypeAt(p)'
      BY <2>11 DEF Verify, AuditVerify, RuntimeErr, Findings, Exit, TypeInv,
         TypeAt, Holding
    <3> QED BY <1>1, <2>1, <2>11, <3>1
            DEF Verify, AuditVerify, RuntimeErr, Findings, Exit, TypeInv
  <2> QED BY <1>3, <2>2, <2>3, <2>4, <2>5, <2>6, <2>7, <2>8, <2>9, <2>10, <2>11,
             <2>12, <2>13 DEF Step
<1>4. ASSUME NEW p \in Proc, Stop(p) PROVE TypeInv'
  <2>1. TypeAt(p)'
    BY <1>4 DEF Stop, TypeInv, TypeAt, Holding
  <2>2. ASSUME NEW q \in Proc, q # p PROVE TypeAt(q)'
    BY <1>4, <2>2, TypeAtStays DEF Stop, TypeInv
  <2> QED BY <1>1, <1>4, <2>1, <2>2 DEF Stop, TypeInv
<1>5. CASE EditPolicy
  <2>1. \A f \in Files : FileOK(f)'
    BY <1>5, DataKinds, WrittenFile DEF EditPolicy, TypeInv, Files
  <2>2. \A q \in Proc : TypeAt(q)'
    BY <1>5, TypeAtStays DEF EditPolicy, TypeInv
  <2> QED BY <1>5, <2>1, <2>2 DEF EditPolicy, TypeInv
<1>6. CASE UNCHANGED vars
  BY <1>1, <1>6, TypeAtStays DEF vars, TypeInv
<1> QED BY <1>2, <1>3, <1>4, <1>5, <1>6 DEF Next, AllEnded

\* The type invariant of CertAuthority follows from the inductive one.
LEMMA TypeOKFromInv == Control /\ TypeInv => TypeOK
<1> SUFFICES ASSUME Control, TypeInv, NEW p \in Proc, pc[p] # "idle"
             PROVE  Cmd(p) \in {"init", "issue", "revokeSerial", "revokeKeyID",
                                "verify", "krl", "audit"}
  BY DEF TypeOK, Control, Domains, TypeInv
<1> QED BY RequestsAssumption DEF Control, CommandAt, Cmd

\* The invariant behind TypeCorrect.
LEMMA TypeAlways == Spec => []TypeInv
BY TypeInit, TypeNext, ControlAlways, PTL DEF Spec

\* Type correctness (TypeOK of CertAuthority): among other things the counter
\* stays a uint64, no certificate has serial 0, and revoked.json holds only
\* revocations that somebody asked for.
THEOREM TypeCorrect == Spec => []TypeOK
BY TypeAlways, ControlAlways, TypeOKFromInv, PTL

-----------------------------------------------------------------------------
\* Audit records have the fields issuedSerial looks at.

HasFields(b) == {"action", "serial", "keyID"} \subseteq DOMAIN b

FieldsAt(p) ==
  /\ HasFields(body[p])
  /\ pc[p] = "append" => HasFields(entry[p].body)

FieldsInv ==
  /\ \A i \in DOMAIN log : HasFields(Record(i))
  /\ \A p \in Proc : FieldsAt(p)

\* The records init, issue and revoke make.
LEMMA RecordFields ==
  /\ HasFields(NoRecord)
  /\ \A x : HasFields(InitRecord(x)) /\ HasFields(RevokeKeyIDRecord(x))
            /\ HasFields(RevokeSerialRecord(x))
  /\ \A u, c : HasFields(IssueRecord(u, c))
BY DEF HasFields, NoRecord, InitRecord, RevokeKeyIDRecord, RevokeSerialRecord,
       IssueRecord

\* No records but those of the initial log and NoRecord.
LEMMA FieldsInit == Init => FieldsInv
<1> SUFFICES ASSUME Init PROVE FieldsInv
  OBVIOUS
<1>1. \A p \in Proc : FieldsAt(p)
  BY RecordFields DEF Init, FieldsAt
<1>2. CASE FreshDir
  BY <1>1, <1>2 DEF FreshDir, FieldsInv
<1>3. CASE ProvisionedDir
  <2> DEFINE x == Piece(Seal(<<>>, InitRecord(Provisioner)), TRUE, TRUE)
  <2>1. log = <<x>> /\ x.entry.body = InitRecord(Provisioner)
    BY <1>3 DEF ProvisionedDir, Piece, Seal
  <2>2. DOMAIN log = {1} /\ log[1] = x
    BY <2>1
  <2> QED BY <1>1, <2>1, <2>2, RecordFields DEF FieldsInv, Record
<1> QED BY <1>2, <1>3 DEF Init

\* Sealing and appending keep a record as it was made.
LEMMA FieldsNext == Control /\ ChainInv /\ FieldsInv /\ [Next]_vars => FieldsInv'
<1> SUFFICES ASSUME Control, ChainInv, FieldsInv, [Next]_vars PROVE FieldsInv'
  OBVIOUS
<1> USE DEF Control, Domains, files, locals, Goto
<1>1. \A i \in DOMAIN log' : HasFields(log'[i].entry.body)
  <2>1. CASE log' = log
    BY <2>1 DEF FieldsInv, Record
  <2>2. ASSUME NEW p \in Proc, NEW whole, NEW newline, pc[p] = "append",
               log' = Append(log, Piece(entry[p], whole, newline))
        PROVE  \A i \in DOMAIN log' : HasFields(log'[i].entry.body)
    <3>1. HasFields(Piece(entry[p], whole, newline).entry.body)
      BY <2>2 DEF FieldsInv, FieldsAt, Piece
    <3>2. /\ DOMAIN log' = DOMAIN log \cup {Len(log) + 1}
          /\ log'[Len(log) + 1] = Piece(entry[p], whole, newline)
          /\ \A i \in DOMAIN log : log'[i] = log[i]
      BY <2>2, AppendList DEF ChainInv
    <3> QED BY <3>1, <3>2 DEF FieldsInv, Record
  <2> QED BY <2>1, <2>2, LogStep
<1>2. ASSUME NEW p \in Proc PROVE FieldsAt(p)'
  <2>1. \/ body'[p] = body[p]
        \/ \E x : body'[p] \in {InitRecord(x), RevokeKeyIDRecord(x),
                                RevokeSerialRecord(x)}
        \/ \E u, c : body'[p] = IssueRecord(u, c)
    <3>1. ASSUME NEW q \in Proc, q # p, Start(q) \/ Step(q) \/ Stop(q)
          PROVE  body'[p] = body[p]
      <4>1. CASE Start(q) BY <4>1 DEF Start
      <4>2. CASE Stop(q) BY <4>2 DEF Stop
      <4>3. CASE Step(q)
        BY <3>1, <4>3 DEF Step, Exit, InitStat, OpenKey, OpenPub, OpenPolicy,
           NextSerial, IssuedSerial, ReadRevocations, Verify, AuditVerify, RenderKRL,
           Create, Write, SealEntry, AppendEntry, Release, RuntimeErr, Findings
      <4> QED BY <3>1, <4>1, <4>2, <4>3
    <3>2. CASE InitStat(p)
      BY <3>2 DEF InitStat
    <3>3. CASE NextSerial(p)
      BY <3>3 DEF NextSerial
    <3>4. CASE IssuedSerial(p)
      BY <3>4 DEF IssuedSerial
    <3>5. CASE ReadRevocations(p)
      BY <3>5 DEF ReadRevocations
    <3>6. CASE Step(p) /\ ~ (InitStat(p) \/ NextSerial(p) \/ IssuedSerial(p)
                             \/ ReadRevocations(p))
      BY <3>6 DEF Step, Exit, OpenKey, OpenPub, OpenPolicy, Verify, AuditVerify,
         RenderKRL, Create, Write, SealEntry, AppendEntry, Release, RuntimeErr, Findings
    <3>7. CASE Start(p) \/ Stop(p) \/ EditPolicy \/ UNCHANGED vars
      BY <3>7 DEF Start, Stop, EditPolicy, vars
    <3> QED BY <3>1, <3>2, <3>3, <3>4, <3>5, <3>6, <3>7 DEF Next, AllEnded
  <2>2. HasFields(body'[p])
    BY <2>1, RecordFields DEF FieldsInv, FieldsAt
  <2>3. ASSUME pc'[p] = "append" PROVE HasFields(entry'[p].body)
    <3>1. CASE SealEntry(p)
      BY <3>1 DEF SealEntry, Seal, FieldsInv, FieldsAt
    <3>2. CASE pc[p] = "append" /\ entry'[p] = entry[p]
      BY <3>2 DEF FieldsInv, FieldsAt
    <3> QED BY <2>3, <3>1, <3>2, EntryStep
  <2> QED BY <2>2, <2>3 DEF FieldsAt
<1> QED BY <1>1, <1>2 DEF FieldsInv, Record

-----------------------------------------------------------------------------
\* A serial gets into revoked.json by way of a process that has found it in the
\* log; the log keeps it.

SerialIn(file, serial) ==
  \E i \in DOMAIN file : /\ file[i].whole
                         /\ file[i].entry.body.action = "issue"
                         /\ file[i].entry.body.serial = serial

Backed(file, revs) ==
  \A i \in DOMAIN revs : revs[i].serial # 0 => SerialIn(file, revs[i].serial)

BackedAt(p) ==
  /\ pc[p] = "Revocations" /\ Cmd(p) = "revokeSerial" =>
       SerialIn(log, req[p].serial)
  /\ pc[p] \in {"create", "write"} =>
       \A i \in DOMAIN writes[p] :
         writes[p][i].file = "revoked.json" => Backed(log, writes[p][i].data)

BackedInv ==
  /\ Decodes("revoked.json") => Backed(log, Content("revoked.json"))
  /\ \A p \in Proc : BackedAt(p)

\* audit.log only grows: a list that was backed stays backed.
LEMMA BackedStays ==
  ASSUME IsList(log), [Next]_vars
  PROVE  /\ \A n : SerialIn(log, n) => SerialIn(log', n)
         /\ \A revs : Backed(log, revs) => Backed(log', revs)
<1>1. ASSUME NEW n, SerialIn(log, n) PROVE SerialIn(log', n)
  <2>1. ASSUME NEW x, log' = Append(log, x) PROVE SerialIn(log', n)
    BY <1>1, <2>1, AppendList DEF SerialIn
  <2> QED BY <1>1, <2>1, LogStep
<1> QED BY <1>1 DEF Backed

\* issuedSerial finds a serial only in a complete issue entry of the log.
LEMMA IssuedIsLogged ==
  ASSUME IsList(log), FieldsInv, Readable(log),
         NEW n, WasIssued(Entries(log), n)
  PROVE  SerialIn(log, n)
<1>1. PICK i \in DOMAIN log : /\ Entries(log)[i].body.action = "issue"
                             /\ Entries(log)[i].body.serial = n
  BY EntriesOfLog DEF WasIssued, IssueEntries
<1>2. Entries(log)[i].body =
        [log[i].entry.body EXCEPT !.keyID = JsonRoundTrip(@)]
  BY DEF Entries, ReadBack
<1>3. HasFields(log[i].entry.body)
  BY DEF FieldsInv, Record
<1>4. log[i].entry.body.action = "issue" /\ log[i].entry.body.serial = n
  BY <1>1, <1>2, <1>3 DEF HasFields
<1> QED BY <1>4 DEF SerialIn, Readable, LineOK

\* A revoke extends the list it has read by its own revocation.
LEMMA RevokeBacked ==
  ASSUME NEW r \in Requests, r.cmd \in Revokes,
         r.cmd = "revokeSerial" => SerialIn(log, r.serial),
         NEW revs \in Seq(RequestedRevocations), Backed(log, revs)
  PROVE  Backed(log, Revoke(revs, Revocation(r)))
<1> DEFINE rev == Marshalled(Revocation(r))
<1>1. rev.serial # 0 => SerialIn(log, rev.serial)
  BY DEF Marshalled, Revocation, Revokes
<1>2. Revoke(revs, Revocation(r)) = Append(revs, rev)
  BY DEF Revoke
<1> HIDE DEF rev
<1>3. IsList(revs)
  BY SeqIsList
<1> QED BY <1>1, <1>2, <1>3, AppendList DEF Backed

\* Nothing is revoked in a fresh or a provisioned directory.
LEMMA BackedInit == Init => BackedInv
<1> SUFFICES ASSUME Init PROVE BackedInv
  OBVIOUS
<1>1. ~ Decodes("revoked.json")
  <2>1. CASE FreshDir
    BY <2>1 DEF FreshDir, Decodes, Files, NoFile
  <2>2. CASE ProvisionedDir
    <3>1. dir["revoked.json"] = NoFile
      BY <2>2 DEF ProvisionedDir, Files
    <3> QED BY <3>1 DEF Decodes, NoFile
  <2> QED BY <2>1, <2>2 DEF Init
<1> QED BY <1>1 DEF Init, BackedInv, BackedAt

\* Only IssuedSerial and ReadRevocations bring in a serial; Write moves it on.
LEMMA BackedNext ==
  Control /\ ChainInv /\ FieldsInv /\ TypeInv /\ BackedInv /\ [Next]_vars
    => BackedInv'
<1> SUFFICES ASSUME Control, ChainInv, FieldsInv, TypeInv, BackedInv, [Next]_vars
             PROVE  BackedInv'
  OBVIOUS
<1> USE DEF Control, Domains, files, locals, Goto
<1>1. IsList(log)
  BY DEF ChainInv
<1>2. dir'["revoked.json"].kind = "data" =>
        Backed(log', dir'["revoked.json"].data)
  <2>1. CASE dir'["revoked.json"] = dir["revoked.json"]
    BY <1>1, <2>1, BackedStays DEF BackedInv, Decodes, Content
  <2>2. ASSUME NEW p \in Proc, Create(p)
        PROVE  \/ dir'["revoked.json"] = dir["revoked.json"]
               \/ dir'["revoked.json"].kind # "data"
    BY <2>2 DEF Create, EmptyFile, Files
  <2>3. ASSUME NEW p \in Proc, Write(p)
        PROVE  \/ dir'["revoked.json"] = dir["revoked.json"]
               \/ dir'["revoked.json"].kind # "data"
               \/ Backed(log', dir'["revoked.json"].data)
    <3> DEFINE w == Head(writes[p])
    <3>1. Pending(writes[p]) /\ pc[p] = "write"
      BY <2>3 DEF Write, TypeInv, TypeAt
    <3>2. w = writes[p][1] /\ 1 \in DOMAIN writes[p]
      BY <3>1, TailList DEF Pending
    <3>3. w.file = "revoked.json" => Backed(log, w.data)
      BY <3>1, <3>2 DEF BackedInv, BackedAt
    <3>4. PICK file \in {File(w.data), EmptyFile} :
            dir' = [dir EXCEPT ![w.file] = file]
      BY <2>3, WriteLeaves
    <3>5. CASE w.file = "revoked.json"
      BY <1>1, <3>3, <3>4, <3>5, BackedStays DEF File, EmptyFile, Files
    <3>6. CASE w.file # "revoked.json"
      BY <3>4, <3>6 DEF Files
    <3> QED BY <3>5, <3>6
  <2>4. \/ dir'["revoked.json"] = dir["revoked.json"]
        \/ \E p \in Proc : Create(p) \/ Write(p)
    <3>1. CASE EditPolicy
      BY <3>1 DEF EditPolicy, Files
    <3> QED BY <3>1
      DEF Next, Start, Step, Stop, AllEnded, vars, Exit, InitStat,
          OpenKey, OpenPub, OpenPolicy, NextSerial, IssuedSerial,
          ReadRevocations, Verify, AuditVerify, RenderKRL, SealEntry,
          AppendEntry, Release, RuntimeErr, Findings
  <2> QED BY <2>1, <2>2, <2>3, <2>4
<1>3. ASSUME NEW p \in Proc PROVE BackedAt(p)'
  <2>1. ASSUME pc'[p] = pc[p], req'[p] = req[p], writes'[p] = writes[p]
        PROVE  BackedAt(p)'
    BY <1>1, <2>1, BackedStays DEF BackedInv, BackedAt, Cmd
  <2>2. ASSUME NEW q \in Proc, q # p, Start(q) \/ Step(q) \/ Stop(q)
        PROVE  pc'[p] = pc[p] /\ req'[p] = req[p] /\ writes'[p] = writes[p]
    <3>1. CASE Start(q) BY <2>2, <3>1 DEF Start
    <3>2. CASE Stop(q) BY <2>2, <3>2 DEF Stop
    <3>3. CASE Step(q)
      BY <2>2, <3>3 DEF Step, Exit, InitStat, OpenKey, OpenPub, OpenPolicy,
         NextSerial, IssuedSerial, ReadRevocations, Verify, AuditVerify, RenderKRL,
         Create, Write, SealEntry, AppendEntry, Release, RuntimeErr, Findings
    <3> QED BY <2>2, <3>1, <3>2, <3>3
  <2>3. CASE Start(p) \/ Stop(p)
    <3>1. pc'[p] \in FirstSteps \cup {"Killed"}
      BY <2>3, FirstStepIs DEF Start, Stop
    <3> QED BY <3>1 DEF BackedAt, FirstSteps
  <2>4. CASE Step(p)
    <3>1. CASE InitStat(p)
      BY <3>1 DEF InitStat, InitWrites, BackedAt
    <3>2. CASE OpenPolicy(p)
      BY <3>2, RequestsAssumption
      DEF OpenPolicy, AfterOpen, BackedAt, CommandAt, Cmd, Revokes
    <3>3. CASE NextSerial(p)
      BY <3>3 DEF NextSerial, BackedAt
    <3>4. CASE IssuedSerial(p)
      BY <1>1, <3>4, IssuedIsLogged DEF IssuedSerial, IssuedOK, BackedAt
    <3>5. CASE ReadRevocations(p)
      <4> DEFINE file == dir["revoked.json"]
                 d == Revoke(Revocations(file), Revocation(req[p]))
      <4>1. req[p] \in Requests /\ req[p].cmd \in Revokes
        BY <3>5 DEF ReadRevocations, CommandAt, Cmd, Revokes
      <4>2. req[p].cmd = "revokeSerial" => SerialIn(log, req[p].serial)
        BY <3>5 DEF ReadRevocations, BackedInv, BackedAt, Cmd
      <4>3. Revocations(file) \in Seq(RequestedRevocations)
        BY DEF Revocations, TypeInv, FileOK, DataOK, Files, Content, NoFile,
           EmptyFile
      <4>4. Backed(log, Revocations(file))
        BY DEF Revocations, BackedInv, Backed, Decodes, Content
      <4>5. Backed(log, d)
        BY <4>1, <4>2, <4>3, <4>4, RevokeBacked
      <4>6. /\ writes'[p] = <<[file |-> "revoked.json", data |-> d]>>
            /\ pc'[p] = "create" /\ log' = log
        BY <3>5 DEF ReadRevocations
      <4> QED BY <4>5, <4>6 DEF BackedAt
    <3>6. CASE Create(p)
      BY <3>6 DEF Create, BackedInv, BackedAt
    <3>7. CASE Write(p)
      <4>1. Pending(writes[p])
        BY <3>7 DEF Write, TypeInv, TypeAt
      <4>2. \A i \in DOMAIN Tail(writes[p]) :
              i + 1 \in DOMAIN writes[p] /\ Tail(writes[p])[i] = writes[p][i + 1]
        BY <4>1, TailList DEF Pending
      <4> QED BY <3>7, <4>2 DEF Write, AfterWrites, BackedInv, BackedAt
    <3>8. CASE OpenKey(p) \/ OpenPub(p) \/ Verify(p) \/ SealEntry(p)
               \/ AppendEntry(p) \/ Release(p) \/ RuntimeErr(p) \/ Findings(p)
               \/ AuditVerify(p)
      BY <3>8 DEF OpenKey, OpenPub, Verify, AuditVerify, Exit, SealEntry,
         AppendEntry, AfterAppend, Release, RuntimeErr, Findings, BackedAt
    <3>9. CASE RenderKRL(p)
      <4>1. pc'[p] = "create" /\ Cmd(p)' = "krl" /\ DOMAIN writes'[p] = {1}
            /\ writes'[p][1].file = "revoked.krl"
        BY <3>9 DEF RenderKRL, CommandAt, Cmd
      <4> QED BY <4>1 DEF BackedAt
    <3> QED BY <2>4, <3>1, <3>2, <3>3, <3>4, <3>5, <3>6, <3>7, <3>8, <3>9 DEF Step
  <2>5. CASE EditPolicy \/ UNCHANGED vars
    BY <2>1, <2>5 DEF EditPolicy, vars
  <2> QED BY <2>1, <2>2, <2>3, <2>4, <2>5 DEF Next, AllEnded
<1> QED BY <1>2, <1>3 DEF BackedInv, Decodes, Content

\* Records keep their fields, and revoked.json its backing in the log.
LEMMA FieldsAlways == Spec => []FieldsInv
BY FieldsInit, FieldsNext, ControlAlways, ChainAlways, PTL DEF Spec

\* The invariant behind NoThinAir.
LEMMA BackedAlways == Spec => []BackedInv
BY BackedInit, BackedNext, FieldsAlways, TypeAlways, ControlAlways, ChainAlways,
   PTL DEF Spec

\* Only issued serials are revoked (NoThinAirRevocation of CertAuthority):
\* RevokeSerial's look into the audit log holds good although revoked.json is
\* written later, by whichever process, and without a lock.
THEOREM NoThinAir == Spec => []NoThinAirRevocation
<1>1. BackedInv => NoThinAirRevocation
  BY DEF BackedInv, Backed, SerialIn, NoThinAirRevocation, SerialLogged, Record
<1> QED BY <1>1, BackedAlways, PTL
=============================================================================
