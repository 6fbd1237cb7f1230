---------------------------- MODULE LedgerProofs ----------------------------
(***************************************************************************)
(* The ledger, the counter, the revocation list and the certificates that  *)
(* are out, for every number of commands and every request: commands that  *)
(* run one at a time implement Authority, killed anywhere, and without an  *)
(* interruption the books agree between commands.                          *)
(***************************************************************************)
EXTENDS AuthorityRefinement, ExclusiveProofs

-----------------------------------------------------------------------------
\* The ledger, the counter and the certificates that are out, and what the
\* running command knows of them.

\* Every issue entry has a serial below n.
EntriesBelow(n) ==
  \A i \in DOMAIN log : Record(i).action = "issue" => Record(i).serial \in 1 .. n - 1

NoIssueEntry == \A i \in DOMAIN log : Record(i).action # "issue"

Noted(rev) ==
  \E i \in DOMAIN log : Record(i).action = "revoke" /\ RevocationOf(Record(i)) = rev

InitLedger(p) ==
  /\ pc[p] \in {"create", "write"} => NoIssueEntry
  /\ pc[p] \in {"create", "write", "seal", "append"} => body[p].action = "init"

IssueLedger(p) ==
  /\ pc[p] \in {"create", "write", "seal", "append"} => EntriesBelow(cert[p].serial)
  /\ pc[p] \in Holding => \A c \in released : c.serial < cert[p].serial
  /\ pc[p] = "create" => dir["serial"] = File(cert[p].serial)
  /\ pc[p] \in {"seal", "append"} => dir["serial"] = File(NextCounter(cert[p].serial))

RevokeLedger(p) ==
  /\ pc[p] \in {"create", "write", "seal", "append"} => ~ Noted(Revocation(req[p]))
  /\ pc[p] = "create" =>
       /\ RevocationsOK(dir["revoked.json"])
       /\ ~ Listed(Revs, Revocation(req[p]))
       /\ OutputOf(p) = Append(Revs, Revocation(req[p]))
  /\ pc[p] \in {"seal", "append"} => Decodes("revoked.json")

LedgerAt(p) ==
  /\ Cmd(p) = "init" => InitLedger(p)
  /\ Cmd(p) = "issue" => IssueLedger(p)
  /\ Cmd(p) \in Revokes => RevokeLedger(p)

LedgerInv ==
  /\ dir["serial"] = NoFile => NoIssueEntry
  /\ Decodes("serial") => Content("serial") = 0 \/ EntriesBelow(Content("serial"))
  /\ \A p \in Proc : LedgerAt(p)

\* The action of the entry that is appended is its command's.
LEMMA EntryAction ==
  ASSUME Control, AuditInv, RecordInv, LedgerInv, NEW p \in Proc, pc[p] = "append"
  PROVE  /\ entry[p].body.action = "issue" =>
              Cmd(p) = "issue" /\ entry[p].body = IssueRecord(req[p].user, cert[p])
         /\ entry[p].body.action = "revoke" =>
              Cmd(p) \in Revokes /\ RevocationOf(entry[p].body) = Revocation(req[p])
<1>1. CommandAt(p) /\ RecordAt(p) /\ LedgerAt(p) /\ AuditReady(p)
  BY DEF Control, RecordInv, LedgerInv, AuditInv
<1>2. CASE Cmd(p) = "init"
  BY <1>1, <1>2 DEF RecordAt, LedgerAt, InitLedger
<1>3. CASE Cmd(p) = "issue"
  BY <1>1, <1>3 DEF AuditReady, IssueRecord
<1>4. CASE Cmd(p) \in Revokes
  BY <1>1, <1>4 DEF RecordAt, Tells
<1> QED BY <1>1, <1>2, <1>3, <1>4 DEF CommandAt

\* Who appends changes nothing else, and does not go on to write a file.
LEMMA AppendsAlone ==
  ASSUME [Next]_vars, log' # log
  PROVE  \E p \in Proc, whole, newline \in BOOLEAN :
           /\ pc[p] = "append"
           /\ log' = Append(log, Piece(entry[p], whole, newline))
           /\ AppendEntry(p) \/ Stop(p)
<1>1. ASSUME NEW p \in Proc, Stop(p)
      PROVE  \E whole, newline \in BOOLEAN :
               /\ pc[p] = "append"
               /\ log' = Append(log, Piece(entry[p], whole, newline))
  BY <1>1 DEF Stop, Torn
<1>2. ASSUME NEW p \in Proc, AppendEntry(p)
      PROVE  \E whole, newline \in BOOLEAN :
               /\ pc[p] = "append"
               /\ log' = Append(log, Piece(entry[p], whole, newline))
  BY <1>2 DEF AppendEntry
<1>3. ASSUME NEW p \in Proc, Start(p) \/ Step(p), ~ AppendEntry(p) PROVE FALSE
  BY <1>3 DEF Start, Step, files, Exit, InitStat, OpenKey, OpenPub, OpenPolicy,
     NextSerial, IssuedSerial, ReadRevocations, Verify, AuditVerify, RenderKRL,
     Create, Write, SealEntry, Release, RuntimeErr, Findings
<1>4. ~ EditPolicy /\ ~ UNCHANGED vars
  BY DEF EditPolicy, vars
<1>5. PICK p \in Proc : Stop(p) \/ AppendEntry(p)
  BY <1>3, <1>4 DEF Next, AllEnded
<1>6. CASE Stop(p)
  BY <1>1, <1>6
<1>7. CASE AppendEntry(p)
  BY <1>2, <1>7
<1> QED BY <1>5, <1>6, <1>7

\* The ledger grows by one entry.
LEMMA LedgerAppend ==
  ASSUME IsList(log), NEW x, log' = Append(log, x)
  PROVE  /\ \A n : EntriesBelow(n) =>
              \/ EntriesBelow(n)'
              \/ x.entry.body.action = "issue" /\ x.entry.body.serial \notin 1 .. n - 1
         /\ NoIssueEntry => NoIssueEntry' \/ x.entry.body.action = "issue"
<1>1. /\ DOMAIN log' = DOMAIN log \cup {Len(log) + 1}
      /\ log'[Len(log) + 1] = x
      /\ \A i \in DOMAIN log : log'[i] = log[i]
  BY AppendList
<1> QED BY <1>1 DEF EntriesBelow, NoIssueEntry, Record

\* Each command's part.
LEMMA LedgerAtNext ==
  ASSUME InvalidIds = {}, Control, Solo, ChainInv, TypeInv, Truncated, AuditInv,
         RecordInv, SetupInv, SerialInv, PromiseInv, LedgerInv, [Next]_vars,
         NEW p \in Proc
  PROVE  LedgerAt(p)'
<1> USE DEF Control, Domains, files, locals, Goto
<1>1. LedgerAt(p) /\ CommandAt(p) /\ TypeAt(p) /\ SerialAt(p) /\ CounterAt(p)
      /\ PromiseAt(p)
  BY DEF LedgerInv, TypeInv, SerialInv, PromiseInv
<1>2. ASSUME pc'[p] \notin Holding PROVE LedgerAt(p)'
  BY <1>2 DEF LedgerAt, InitLedger, IssueLedger, RevokeLedger, Holding
<1>3. CASE Start(p) \/ Stop(p)
  <2>1. pc'[p] \in FirstSteps \cup {"Killed"}
    BY <1>3, FirstStepIs DEF Start, Stop
  <2> QED BY <1>2, <2>1 DEF FirstSteps, Holding
<1>4. ASSUME Untouched(p), log' = log, released' = released,
             \A f \in Files : f # "policy.json" => dir'[f] = dir[f]
      PROVE  LedgerAt(p)'
  <2>1. /\ pc'[p] = pc[p] /\ Cmd(p)' = Cmd(p) /\ writes'[p] = writes[p]
        /\ req'[p] = req[p] /\ body'[p] = body[p] /\ cert'[p] = cert[p]
        /\ Revs' = Revs
    BY <1>4 DEF Untouched, Cmd, Files, Revs
  <2>2. dir'["serial"] = dir["serial"] /\ dir'["revoked.json"] = dir["revoked.json"]
    BY <1>4 DEF Files
  <2>4. InitLedger(p)' = InitLedger(p)
    BY <1>4, <2>1 DEF InitLedger, NoIssueEntry, Record
  <2>5. IssueLedger(p)' = IssueLedger(p)
    BY <1>4, <2>1, <2>2 DEF IssueLedger, EntriesBelow, Record
  <2>6. RevokeLedger(p)' = RevokeLedger(p)
    BY <1>4, <2>1, <2>2 DEF RevokeLedger, Noted, Record, OutputOf, Decodes
  <2> QED BY <1>1, <1>4, <2>1, <2>4, <2>5, <2>6 DEF LedgerAt
<1>5. CASE Untouched(p) /\ pc[p] \in Resting
  BY <1>2, <1>5 DEF Untouched, Resting, Ended, Holding
<1>6. CASE Step(p)
  <2>1. CASE InitStat(p)
    <3>1. dir["serial"] = NoFile
      BY <2>1 DEF InitStat, MayInit, SetupInv, Decodes, NoFile
    <3>2. NoIssueEntry
      BY <3>1 DEF LedgerInv
    <3> QED BY <1>1, <2>1, <3>2
            DEF InitStat, CommandAt, Cmd, LedgerAt, InitLedger, NoIssueEntry, Record,
                InitRecord, NoRecord, Revokes
  <2>2. CASE NextSerial(p)
    <3>1. PICK n : n = Content("serial")
      OBVIOUS
    <3>2. /\ cert'[p].serial = n /\ pc'[p] = "create" /\ Cmd(p)' = "issue"
          /\ dir' = dir /\ log' = log /\ released' = released
          /\ Decodes("serial") /\ n # 0
      BY <1>1, <2>2, <3>1
      DEF NextSerial, Signed, Sign, CommandAt, Cmd, SerialFileOK, Decodes, Content
    <3>3. EntriesBelow(n)
      BY <3>1, <3>2 DEF LedgerInv
    <3>4. dir["serial"] = File(n) /\ n \in Nat
      BY <3>1, <3>2, AuthorityAssumption
      DEF TypeInv, FileOK, DataOK, Files, Decodes, NoFile, EmptyFile
    <3>5. ASSUME NEW c \in released PROVE c.serial < n
      <4>1. PICK i \in DOMAIN log : Record(i) = IssueRecord(Record(i).user, c)
        BY DEF AuditInv, LoggedIn, Record
      <4>2. Record(i).action = "issue" /\ Record(i).serial = c.serial
        BY <4>1 DEF IssueRecord
      <4> QED BY <3>3, <3>4, <4>2 DEF EntriesBelow
    <3> QED BY <3>2, <3>3, <3>4, <3>5
            DEF LedgerAt, IssueLedger, EntriesBelow, Record, Revokes
  <2>3. CASE ReadRevocations(p)
    <3> DEFINE own == Revocation(req[p])
    <3>1. /\ pc[p] = "Revocations" /\ pc'[p] = "create" /\ req' = req
          /\ dir' = dir /\ log' = log /\ Cmd(p)' = Cmd(p) /\ Cmd(p) \in Revokes
          /\ RevocationsOK(dir["revoked.json"]) /\ ~ AlreadyRevoked(Revs, own)
          /\ OutputOf(p)' = Append(Revs, own)
      BY <1>1, <2>3, FaithfulJson
      DEF ReadRevocations, MayRevoke, CommandAt, Cmd, Revs, OutputOf, Revoke
    <3>2. ~ Listed(Revs, own)
      BY <3>1 DEF Listed, AlreadyRevoked, Revocation
    <3>3. ~ Noted(own)
      <4>1. Noted(own) => Promised(own)
        BY DEF Noted, Promised
      <4>2. InForce(own) => Listed(Revs, own)
        BY <3>1 DEF InForce, Listed, Revs, RevocationsOK, EmptyFile
      <4> QED BY <3>2, <4>1, <4>2 DEF PromiseInv
    <3>4. Revs' = Revs /\ (Revocation(req[p]))' = own
      BY <3>1 DEF Revs
    <3> QED BY <3>1, <3>2, <3>3, <3>4
            DEF LedgerAt, RevokeLedger, Revokes, Noted, Record
  <2>4. CASE RenderKRL(p)
    BY <1>1, <2>4 DEF RenderKRL, CommandAt, Cmd, LedgerAt, Revokes
  <2>5. CASE Create(p)
    <3>1. /\ pc[p] = "create" /\ pc'[p] = "write" /\ cert'[p] = cert[p]
          /\ writes'[p] = writes[p] /\ Cmd(p)' = Cmd(p) /\ log' = log
          /\ released' = released /\ body' = body /\ req'[p] = req[p]
      BY <2>5 DEF Create, Cmd
    <3> QED BY <1>1, <3>1
            DEF LedgerAt, InitLedger, IssueLedger, RevokeLedger, NoIssueEntry,
                EntriesBelow, Noted, Record, Holding
  <2>6. CASE Write(p)
    <3>1. /\ pc[p] = "write" /\ pc'[p] \in {"create", "seal", "ExitOK"}
          /\ cert'[p] = cert[p] /\ Cmd(p)' = Cmd(p) /\ log' = log
          /\ released' = released /\ body' = body /\ req'[p] = req[p]
      BY <2>6 DEF Write, AfterWrites, Cmd
    <3>2. Cmd(p) # "init" =>
            /\ Head(writes[p]).file = OutputFile(Cmd(p)) /\ Tail(writes[p]) = <<>>
      BY <3>1, NextWrite
    <3>3. CASE Cmd(p) = "init"
      BY <1>1, <3>1, <3>3
      DEF LedgerAt, InitLedger, NoIssueEntry, Record, Revokes
    <3>4. CASE Cmd(p) = "issue"
      <4>1. writes[p] = <<[file |-> "serial",
                           data |-> NextCounter(cert[p].serial)]>>
        BY <1>1, <3>1, <3>4 DEF CounterAt
      <4>2. /\ dir'["serial"] = File(NextCounter(cert[p].serial)) /\ pc'[p] = "seal"
        <5>1. /\ Head(writes[p]).file = "serial" /\ Tail(writes[p]) = <<>>
              /\ Head(writes[p]).data = NextCounter(cert[p].serial)
          BY <4>1
        <5>2. dir' = [dir EXCEPT ![Head(writes[p]).file] =
                                   File(Head(writes[p]).data)]
          BY <2>6, <5>1, WriteAlone
        <5>3. pc'[p] = "seal"
          BY <2>6, <3>4, <5>1 DEF Write, AfterWrites
        <5> QED BY <5>1, <5>2, <5>3 DEF Files
      <4> QED BY <1>1, <3>1, <3>4, <4>2
              DEF LedgerAt, IssueLedger, EntriesBelow, Record, Revokes, Holding
    <3>5. CASE Cmd(p) \in Revokes
      <4>1. pc'[p] = "seal" /\ dir'["revoked.json"].kind = "data"
        <5>1. Head(writes[p]).file = "revoked.json" /\ Tail(writes[p]) = <<>>
          BY <3>2, <3>5 DEF OutputFile, Revokes
        <5>2. dir' = [dir EXCEPT ![Head(writes[p]).file] =
                                   File(Head(writes[p]).data)]
          BY <2>6, <5>1, WriteAlone
        <5>3. pc'[p] = "seal"
          BY <2>6, <3>5, <5>1 DEF Write, AfterWrites, Revokes
        <5> QED BY <5>1, <5>2, <5>3 DEF Files, File
      <4> QED BY <1>1, <3>1, <3>5, <4>1
              DEF LedgerAt, RevokeLedger, Noted, Record, Revokes, Decodes
    <3>6. CASE Cmd(p) = "krl"
      BY <1>2, <2>6, <3>2, <3>6 DEF Write, AfterWrites, Holding
    <3> QED BY <1>1, <3>1, <3>3, <3>4, <3>5, <3>6 DEF CommandAt
  <2>7. CASE SealEntry(p)
    <3>1. /\ pc[p] = "seal" /\ pc'[p] = "append" /\ dir' = dir /\ log' = log
          /\ released' = released /\ req' = req /\ cert'[p] = cert[p]
          /\ body'[p] = body[p] /\ Cmd(p)' = Cmd(p)
      BY <2>7 DEF SealEntry, Cmd
    <3> QED BY <1>1, <3>1
            DEF LedgerAt, InitLedger, IssueLedger, RevokeLedger, NoIssueEntry,
                EntriesBelow, Noted, Record, Holding, Decodes
  <2>8. CASE AppendEntry(p)
    <3>1. /\ pc[p] = "append" /\ pc'[p] = AfterAppend(Cmd(p)) /\ cert'[p] = cert[p]
          /\ released' = released /\ Cmd(p)' = Cmd(p)
      BY <2>8 DEF AppendEntry, Cmd
    <3> QED BY <1>1, <3>1
            DEF LedgerAt, InitLedger, IssueLedger, RevokeLedger, AfterAppend,
                Holding, Revokes
  <2>9. CASE OpenPolicy(p)
    <3>1. pc'[p] \notin Holding
      BY <2>9, <1>1, RequestsAssumption
      DEF OpenPolicy, AfterOpen, CommandAt, Cmd, Holding
    <3> QED BY <1>2, <3>1
  <2>10. CASE \/ OpenKey(p) \/ OpenPub(p) \/ IssuedSerial(p) \/ Verify(p)
              \/ AuditVerify(p) \/ Release(p) \/ RuntimeErr(p) \/ Findings(p)
    <3>1. pc'[p] \notin Holding
      BY <2>10 DEF OpenKey, OpenPub, IssuedSerial, Verify, AuditVerify, Release,
         RuntimeErr, Findings, Exit, Holding
    <3> QED BY <1>2, <3>1
  <2> QED BY <1>6, <2>1, <2>2, <2>3, <2>4, <2>5, <2>6, <2>7, <2>8, <2>9, <2>10
          DEF Step
<1>7. CASE Untouched(p) /\ UNCHANGED <<log, released>> /\ EditPolicy
  BY <1>4, <1>7 DEF EditPolicy, Files
<1>8. CASE Untouched(p) /\ UNCHANGED <<dir, log, released>>
  BY <1>4, <1>8
<1> QED BY <1>3, <1>5, <1>6, <1>7, <1>8, StepCases

\* The ledger and the counter grow together.
LEMMA LedgerNext ==
  ASSUME InvalidIds = {}
  PROVE  Control /\ Solo /\ ChainInv /\ TypeInv /\ Truncated /\ AuditInv /\ RecordInv
           /\ SetupInv /\ SerialInv /\ PromiseInv /\ LedgerInv /\ [Next]_vars
           => LedgerInv'
<1> SUFFICES ASSUME Control, Solo, ChainInv, TypeInv, Truncated, AuditInv, RecordInv,
                    SetupInv, SerialInv, PromiseInv, LedgerInv, [Next]_vars
             PROVE  LedgerInv'
  OBVIOUS
<1> USE DEF Control, Domains, Goto
<1>1. \A p \in Proc : LedgerAt(p)'
  BY LedgerAtNext
<1> DEFINE CounterAbove == Decodes("serial") =>
             Content("serial") = 0 \/ EntriesBelow(Content("serial"))
           Unset == dir["serial"] = NoFile => NoIssueEntry
<1>2. Unset /\ CounterAbove
  BY DEF LedgerInv
<1>3. dir'["serial"] = NoFile => dir["serial"] = NoFile
  BY FilesStay DEF Files
<1>4. CASE log' # log
  <2>1. PICK p \in Proc, whole, newline \in BOOLEAN :
          /\ pc[p] = "append"
          /\ log' = Append(log, Piece(entry[p], whole, newline))
          /\ AppendEntry(p) \/ Stop(p)
    BY <1>4, AppendsAlone
  <2>2. dir' = dir
    BY <2>1 DEF AppendEntry, Stop
  <2> DEFINE b == entry[p].body
  <2>3. PICK x : log' = Append(log, x) /\ x.entry.body = b
    BY <2>1 DEF Piece
  <2>4. CASE b.action = "issue"
    <3>1. /\ Cmd(p) = "issue" /\ b.serial = cert[p].serial
          /\ cert[p].serial \in 1 .. MaxUint64
      <4>1. Cmd(p) = "issue" /\ b = IssueRecord(req[p].user, cert[p])
        BY <2>1, <2>4, EntryAction
      <4> QED BY <2>1, <4>1 DEF IssueRecord, TypeInv, TypeAt, Holding
    <3>2. PICK n : n = cert[p].serial
      OBVIOUS
    <3>3. EntriesBelow(n) /\ dir["serial"] = File(NextCounter(n))
      BY <2>1, <3>1, <3>2 DEF LedgerInv, LedgerAt, IssueLedger
    <3>4. Unset'
      BY <2>2, <3>3 DEF File, NoFile
    <3>5. NextCounter(n) = 0 \/ NextCounter(n) = n + 1
      BY <3>1, <3>2, NextIsGreater
    <3>6. n \in Nat /\ n \in 1 .. (n + 1) - 1
      BY <3>1, <3>2, AuthorityAssumption
    <3>7. EntriesBelow(n + 1)
      BY <3>3, <3>6 DEF EntriesBelow
    <3>8. EntriesBelow(n + 1)'
      BY <2>3, <3>1, <3>2, <3>6, <3>7, LedgerAppend DEF ChainInv
    <3>9. CounterAbove'
      BY <2>2, <3>3, <3>5, <3>8 DEF Content, File
    <3> QED BY <1>1, <3>4, <3>9 DEF LedgerInv
  <2>5. CASE b.action # "issue"
    <3>1. Unset'
      BY <1>2, <2>2, <2>3, <2>5, LedgerAppend DEF ChainInv
    <3>2. CounterAbove'
      BY <1>2, <2>2, <2>3, <2>5, LedgerAppend DEF ChainInv, Decodes, Content
    <3> QED BY <1>1, <3>1, <3>2 DEF LedgerInv
  <2> QED BY <2>4, <2>5
<1>5. CASE log' = log
  <2>1. Unset'
    BY <1>2, <1>3, <1>5 DEF NoIssueEntry, Record
  <2>2. ASSUME dir'["serial"] = dir["serial"] PROVE CounterAbove'
    BY <1>2, <1>5, <2>2 DEF EntriesBelow, Record, Decodes, Content
  <2>3. ASSUME EditPolicy \/ dir' = dir PROVE CounterAbove'
    BY <2>2, <2>3 DEF EditPolicy, Files
  <2>4. ASSUME NEW p \in Proc, Create(p) PROVE CounterAbove'
    BY <2>2, <2>4 DEF Create, Files, Decodes, EmptyFile
  <2>5. ASSUME NEW p \in Proc, Write(p), Head(writes[p]).file = "serial"
        PROVE  CounterAbove'
    <3>1. pc[p] = "write" /\ dir'["serial"] = File(Head(writes[p]).data)
      BY <2>5, WriteAlone DEF Write, Files
    <3>2. LedgerAt(p) /\ CommandAt(p)
      BY DEF LedgerInv
    <3>3. CASE Cmd(p) = "init"
      <4>1. NoIssueEntry
        BY <3>1, <3>2, <3>3 DEF LedgerAt, InitLedger
      <4> QED BY <1>5, <4>1 DEF NoIssueEntry, EntriesBelow, Record
    <3>4. CASE Cmd(p) = "issue"
      <4>1. PICK n : n = cert[p].serial
        OBVIOUS
      <4>2. Head(writes[p]).data = NextCounter(n)
        BY <3>1, <3>4, <4>1 DEF SerialInv, CounterAt
      <4>3. n \in 1 .. MaxUint64 /\ EntriesBelow(n)
        BY <3>1, <3>2, <3>4, <4>1 DEF TypeInv, TypeAt, Holding, LedgerAt, IssueLedger
      <4>4. NextCounter(n) = 0 \/ NextCounter(n) = n + 1
        BY <4>3, NextIsGreater
      <4>5. n \in Nat
        BY <4>3, AuthorityAssumption
      <4>6. EntriesBelow(n + 1)
        BY <4>3, <4>5 DEF EntriesBelow
      <4> QED BY <1>5, <3>1, <4>2, <4>4, <4>6
              DEF EntriesBelow, Record, Content, File
    <3>5. CASE Cmd(p) \notin {"init", "issue"}
      BY <2>5, <3>1, <3>5, NextWrite DEF OutputFile
    <3> QED BY <3>3, <3>4, <3>5
  <2>6. ASSUME NEW p \in Proc, Write(p), Head(writes[p]).file # "serial"
        PROVE  CounterAbove'
    BY <2>2, <2>6, WriteLeaves DEF Files
  <2>7. CounterAbove'
    <3>1. ASSUME NEW p \in Proc, Write(p) PROVE CounterAbove'
      BY <2>5, <2>6, <3>1
    <3> QED BY <2>3, <2>4, <3>1, DirStep
  <2> QED BY <1>1, <2>1, <2>7 DEF LedgerInv
<1> QED BY <1>4, <1>5

\* Every state has it.
LEMMA LedgerAlways ==
  ASSUME Exclusive, InvalidIds = {} PROVE Spec => []LedgerInv
<1>1. Init => LedgerInv
  <2> SUFFICES ASSUME Init PROVE LedgerInv
    OBVIOUS
  <2>1. NoIssueEntry
    <3>1. CASE log = <<>>
      BY <3>1 DEF NoIssueEntry
    <3>2. ASSUME NEW x, log = <<x>>, x.entry.body.action # "issue"
          PROVE  NoIssueEntry
      BY <3>2 DEF NoIssueEntry, Record
    <3>3. Piece(Seal(<<>>, InitRecord(Provisioner)), TRUE, TRUE).entry.body.action = "init"
      BY DEF Piece, Seal, InitRecord, NoRecord
    <3> QED BY <3>1, <3>2, <3>3 DEF Init, FreshDir, ProvisionedDir
  <2>2. \A n : EntriesBelow(n)
    BY <2>1 DEF NoIssueEntry, EntriesBelow
  <2>3. ASSUME NEW p \in Proc PROVE LedgerAt(p)
    <3>1. pc[p] = "idle"
      BY DEF Init
    <3> QED BY <3>1
            DEF LedgerAt, InitLedger, IssueLedger, RevokeLedger, Holding
  <2> QED BY <2>1, <2>2, <2>3 DEF LedgerInv
<1> QED BY <1>1, LedgerNext, ControlAlways, OneAtATime, ChainAlways, TypeAlways,
           TruncatedAlways, AuditAlways, RecordAlways, SetupAlways, SerialAlways, PromisesKept,
           PTL DEF Spec

-----------------------------------------------------------------------------
\* What a command that goes on has read of the log can still be read.

ReadAt(p) ==
  \/ pc[p] = "append"
  \/ pc[p] \in {"Revocations", "create", "write"} /\ Cmd(p) = "revokeSerial"

ReadInv == \A p \in Proc : ReadAt(p) => Readable(log)

LEMMA ReadNext == Control /\ Solo /\ ReadInv /\ [Next]_vars => ReadInv'
<1> SUFFICES ASSUME Control, Solo, ReadInv, [Next]_vars, NEW p \in Proc, ReadAt(p)'
             PROVE  Readable(log)'
  BY DEF ReadInv
<1> USE DEF Control, Domains, files, Goto
<1>1. pc'[p] \in {"append", "Revocations", "create", "write"}
  BY DEF ReadAt
<1>2. ASSUME log' = log, ReadAt(p) PROVE Readable(log)'
  BY <1>2 DEF ReadInv
<1>3. CASE Start(p) \/ Stop(p)
  <2>1. pc'[p] \in FirstSteps \cup {"Killed"}
    BY <1>3, FirstStepIs DEF Start, Stop
  <2> QED BY <1>1, <2>1 DEF FirstSteps
<1>4. CASE Untouched(p) /\ log' = log
  <2>1. ReadAt(p)
    BY <1>4 DEF ReadAt, Untouched, Cmd
  <2> QED BY <1>2, <1>4, <2>1
<1>5. CASE Untouched(p) /\ pc[p] \in Resting
  BY <1>1, <1>5 DEF Untouched, Resting, Ended
<1>6. CASE Step(p)
  <2>1. CASE SealEntry(p)
    BY <2>1 DEF SealEntry
  <2>2. CASE IssuedSerial(p)
    BY <2>2 DEF IssuedSerial, IssuedOK
  <2>3. CASE ReadRevocations(p)
    <3>1. pc[p] = "Revocations" /\ pc'[p] = "create" /\ log' = log /\ Cmd(p)' = Cmd(p)
      BY <2>3 DEF ReadRevocations, Cmd
    <3>2. ReadAt(p)
      BY <3>1 DEF ReadAt
    <3> QED BY <1>2, <3>1, <3>2
  <2>4. CASE NextSerial(p) \/ InitStat(p) \/ RenderKRL(p) \/ OpenPolicy(p)
    <3>1. Cmd(p)' # "revokeSerial" \/ pc'[p] \notin {"Revocations", "create", "write"}
      BY <2>4, RequestsAssumption
      DEF NextSerial, InitStat, RenderKRL, OpenPolicy, AfterOpen, CommandAt, Cmd
    <3>2. pc'[p] # "append"
      BY <2>4, RequestsAssumption
      DEF NextSerial, InitStat, RenderKRL, OpenPolicy, AfterOpen, CommandAt, Cmd
    <3> QED BY <3>1, <3>2 DEF ReadAt
  <2>5. CASE Create(p) \/ Write(p)
    <3>1. /\ pc[p] \in {"create", "write"} /\ pc'[p] # "append" /\ log' = log
          /\ Cmd(p)' = Cmd(p)
      BY <2>5 DEF Create, Write, AfterWrites, Cmd
    <3>2. ReadAt(p)
      BY <3>1 DEF ReadAt
    <3> QED BY <1>2, <3>1, <3>2
  <2>6. CASE \/ OpenKey(p) \/ OpenPub(p) \/ Verify(p) \/ AuditVerify(p)
             \/ AppendEntry(p) \/ Release(p) \/ RuntimeErr(p) \/ Findings(p)
    <3>1. pc'[p] \notin {"append", "Revocations", "create", "write"}
      BY <2>6 DEF OpenKey, OpenPub, Verify, AuditVerify, AppendEntry,
         AfterAppend, Release, RuntimeErr, Findings, Exit
    <3> QED BY <1>1, <3>1
  <2> QED BY <1>6, <2>1, <2>2, <2>3, <2>4, <2>5, <2>6 DEF Step
<1> QED BY <1>3, <1>4, <1>5, <1>6, StepCases

\* Every state has it.
LEMMA ReadAlways == ASSUME Exclusive PROVE Spec => []ReadInv
<1>1. Init => ReadInv
  BY DEF Init, ReadInv, ReadAt
<1> QED BY <1>1, ReadNext, ControlAlways, OneAtATime, PTL DEF Spec

-----------------------------------------------------------------------------
\* The view of a file: what it holds, or what its writer is about to put there.

Kept == {"ca.key", "serial", "revoked.json"}

WriterSees ==
  Solo => \A p \in Proc : pc[p] = "write" =>
            \A f : View(f) = IF Head(writes[p]).file = f
                             THEN File(Head(writes[p]).data) ELSE dir[f]

NobodyWrites == (\A p \in Proc : pc[p] # "write") => \A f : View(f) = dir[f]

\* At most one process writes.
LEMMA Views == WriterSees /\ NobodyWrites
<1>1. ASSUME Solo, NEW p \in Proc, pc[p] = "write", NEW f
      PROVE  View(f) = IF Head(writes[p]).file = f THEN File(Head(writes[p]).data)
                                                   ELSE dir[f]
  <2>1. \A q \in Writers(f) : q = p
    BY <1>1 DEF Solo, Resting, Ended, Writers
  <2>2. CASE Head(writes[p]).file = f
    <3>1. Writers(f) # {} /\ p \in Writers(f)
      BY <1>1, <2>2 DEF Writers
    <3>2. (CHOOSE q \in Writers(f) : TRUE) = p
      BY <2>1, <3>1
    <3> QED BY <2>2, <3>1, <3>2 DEF View
  <2>3. CASE Head(writes[p]).file # f
    <3>1. Writers(f) = {}
      BY <2>1, <2>3 DEF Writers
    <3> QED BY <2>3, <3>1 DEF View
  <2> QED BY <2>2, <2>3
<1>2. NobodyWrites
  BY DEF NobodyWrites, View, Writers
<1> QED BY <1>1, <1>2 DEF WriterSees

\* And after the step.
LEMMA ViewsNext == WriterSees' /\ NobodyWrites'
BY Views, PTL

\* Two views of the same writer and the same file are equal.
LEMMA ViewStays ==
  ASSUME NEW f, dir'[f] = dir[f],
         \A p \in Proc : /\ pc'[p] = "write" <=> pc[p] = "write"
                         /\ pc[p] = "write" => writes'[p] = writes[p]
  PROVE  View(f)' = View(f)
<1>1. Writers(f)' = Writers(f)
  BY DEF Writers
<1>2. \A p \in Writers(f) : writes'[p] = writes[p]
  BY DEF Writers
<1>3. Writers(f) # {} => (CHOOSE p \in Writers(f) : TRUE) \in Writers(f)
  OBVIOUS
<1> QED BY <1>1, <1>2, <1>3 DEF View

\* A process that writes changes the view when it truncates the file, and when
\* it is killed before the write.
LEMMA ViewStep ==
  ASSUME Control, Solo, Solo', SetupInv, TypeInv, Truncated, [Next]_vars
  PROVE  \/ \A f \in Kept : View(f)' = View(f)
         \/ \E p \in Proc : \E w :
              /\ Create(p) /\ w = Head(writes[p])
              /\ View(w.file)' = File(w.data)
              /\ \A f \in Kept : /\ View(f) = dir[f]
                                 /\ f # w.file => View(f)' = View(f)
         \/ \E p \in Proc : \E w :
              /\ Stop(p) /\ pc[p] = "write" /\ w = Head(writes[p])
              /\ View(w.file) = File(w.data)
              /\ w.file \in Kept => View(w.file)' = EmptyFile
              /\ \A f \in Kept : f # w.file => View(f) = dir[f] /\ View(f)' = View(f)
<1> USE DEF Control, Domains, Goto
<1>1. ASSUME NEW p \in Proc, Create(p), NEW w, w = Head(writes[p])
      PROVE  /\ View(w.file)' = File(w.data)
             /\ \A f \in Kept : /\ View(f) = dir[f]
                                /\ f # w.file => View(f)' = View(f)
  <2>1. \A q \in Proc : pc[q] # "write"
    BY <1>1 DEF Create, Solo, Resting, Ended
  <2>2. \A f : View(f) = dir[f]
    BY <2>1, Views DEF NobodyWrites
  <2>3. pc'[p] = "write" /\ writes'[p] = writes[p]
    BY <1>1 DEF Create, locals
  <2>4. ASSUME NEW f
        PROVE  View(f)' = IF w.file = f THEN File(w.data) ELSE dir'[f]
    BY <1>1, <2>3, ViewsNext DEF WriterSees
  <2>5. \A f \in Kept : f # w.file => dir'[f] = dir[f]
    BY <1>1 DEF Create, Kept, Files
  <2> QED BY <2>2, <2>4, <2>5
<1>2. ASSUME NEW p \in Proc, Write(p), NEW f \in Kept PROVE View(f)' = View(f)
  <2>1. pc[p] = "write" /\ \A q \in Proc : pc'[q] # "write"
    <3>1. pc[p] = "write" /\ pc'[p] # "write"
      BY <1>2 DEF Write, AfterWrites
    <3>2. \A q \in Proc \ {p} : pc'[q] = pc[q] /\ pc[q] # "write"
      BY <1>2, <3>1 DEF Write, Solo, Resting, Ended
    <3> QED BY <3>1, <3>2
  <2>2. View(f)' = dir'[f]
    BY <2>1, ViewsNext DEF NobodyWrites
  <2>3. View(f) = IF Head(writes[p]).file = f THEN File(Head(writes[p]).data)
                                              ELSE dir[f]
    BY <2>1, Views DEF WriterSees
  <2>4. dir'[f] = IF Head(writes[p]).file = f THEN File(Head(writes[p]).data)
                                              ELSE dir[f]
    <3>1. Head(writes[p]).file # "policy.json" =>
            dir' = [dir EXCEPT ![Head(writes[p]).file] = File(Head(writes[p]).data)]
      BY <1>2, WriteAlone
    <3>2. \E x : dir' = [dir EXCEPT ![Head(writes[p]).file] = x]
      BY <1>2, WriteLeaves
    <3> QED BY <3>1, <3>2 DEF Kept, Files
  <2> QED BY <2>2, <2>3, <2>4
<1>3. ASSUME NEW p \in Proc, Stop(p), pc[p] = "write", NEW w, w = Head(writes[p])
      PROVE  /\ View(w.file) = File(w.data)
             /\ w.file \in Kept => View(w.file)' = EmptyFile
             /\ \A f \in Kept : f # w.file => View(f) = dir[f] /\ View(f)' = View(f)
  <2>1. \A q \in Proc : pc'[q] # "write"
    BY <1>3 DEF Stop, Solo, Resting, Ended
  <2>2. ASSUME NEW f PROVE View(f)' = dir[f]
    BY <1>3, <2>1, ViewsNext DEF NobodyWrites, Stop
  <2>3. ASSUME NEW f
        PROVE  View(f) = IF w.file = f THEN File(w.data) ELSE dir[f]
    BY <1>3, Views DEF WriterSees
  <2>4. w.file # "policy.json" => dir[w.file] = EmptyFile
    BY <1>3 DEF Truncated, TruncatedAt, Target
  <2> QED BY <2>2, <2>3, <2>4 DEF Kept
<1>4. ASSUME ~ \E p \in Proc : Create(p) \/ Write(p) \/ (Stop(p) /\ pc[p] = "write"),
             NEW f \in Kept
      PROVE  View(f)' = View(f)
  <2>1. dir'[f] = dir[f]
    BY <1>4, DirStep DEF EditPolicy, Kept, Files
  <2>2. ASSUME NEW p \in Proc
        PROVE  /\ pc'[p] = "write" <=> pc[p] = "write"
               /\ pc[p] = "write" => writes'[p] = writes[p]
    <3>1. CASE Start(p)
      <4>1. pc'[p] \in FirstSteps
        BY <3>1, FirstStepIs DEF Start
      <4> QED BY <3>1, <4>1 DEF Start, FirstSteps
    <3>2. CASE Stop(p)
      BY <1>4, <3>2 DEF Stop
    <3>3. CASE Step(p)
      <4>1. CASE \/ InitStat(p) \/ OpenKey(p) \/ OpenPub(p) \/ NextSerial(p)
                 \/ IssuedSerial(p) \/ ReadRevocations(p) \/ RenderKRL(p)
                 \/ SealEntry(p)
        BY <4>1 DEF InitStat, OpenKey, OpenPub, NextSerial, IssuedSerial,
           ReadRevocations, RenderKRL, SealEntry
      <4>2. CASE OpenPolicy(p)
        BY <4>2, RequestsAssumption DEF OpenPolicy, AfterOpen, CommandAt, Cmd
      <4>3. CASE AppendEntry(p) \/ Release(p)
        BY <4>3 DEF AppendEntry, AfterAppend, Release
      <4>4. CASE Verify(p) \/ AuditVerify(p) \/ RuntimeErr(p) \/ Findings(p)
        BY <4>4, StepsRun DEF Verify, AuditVerify, RuntimeErr, Broken, Findings,
           Negative, Exit
      <4> QED BY <1>4, <3>3, <4>1, <4>2, <4>3, <4>4 DEF Step
    <3> QED BY <3>1, <3>2, <3>3, StepCases DEF Untouched
  <2> QED BY <2>1, <2>2, ViewStays
<1> QED BY <1>1, <1>2, <1>3, <1>4

-----------------------------------------------------------------------------
\* The abstract state in terms of views and entries.

\* The three kinds of file.
LEMMA Values ==
  /\ Value(NoFile) = Null /\ Value(EmptyFile) = Lost
  /\ \A d : Value(File(d)) = d
  /\ RevokedIn(NoFile) = {} /\ RevokedIn(EmptyFile) = Lost
  /\ \A d : RevokedIn(File(d)) = {d[i] : i \in DOMAIN d}
BY DEF Value, RevokedIn, Revocations, RevocationsOK, NoFile, EmptyFile, File

\* The list as it is read can be told from a lost one.
LEMMA RevokedRead ==
  ASSUME TypeInv, RevocationsOK(dir["revoked.json"])
  PROVE  /\ RevokedIn(dir["revoked.json"]) = {Revs[i] : i \in DOMAIN Revs}
         /\ RevokedIn(dir["revoked.json"]) # Lost
         /\ IsList(Revs)
<1> DEFINE file == dir["revoked.json"]
<1>1. RevokedIn(file) = {Revs[i] : i \in DOMAIN Revs}
  BY DEF RevokedIn, Revs
<1>2. Revs \in Seq(RequestedRevocations)
  BY DEF TypeInv, FileOK, DataOK, Files, Revs, Revocations, RevocationsOK, NoFile,
     EmptyFile, File, Content
<1>3. IsList(Revs)
  BY <1>2, SeqIsList
<1>4. {Revs[i] : i \in DOMAIN Revs} \in SUBSET RequestedRevocations
  BY <1>2
<1> QED BY <1>1, <1>3, <1>4, LostAssumption

\* Without a new line the ledger stays as it is.
LEMMA LedgerStays ==
  ASSUME log' = log
  PROVE  Readable(log)' = Readable(log) /\ Issues' = Issues /\ Notes' = Notes
BY DEF Issues, Notes, Ledger, LoggedActions, Record

\* A ledger that cannot be read shows nothing.
LEMMA LedgerLost ==
  ~ Readable(log) => Issues = {} /\ Notes = {}
BY DEF Issues, Notes, Ledger

\* And after the step.
LEMMA LedgerLostNext ==
  ~ Readable(log)' => Issues' = {} /\ Notes' = {}
BY DEF Issues, Notes, Ledger

\* A new line adds its record, if the log can be read with it.
LEMMA LedgerGrows ==
  ASSUME IsList(log), Readable(log), NEW x, log' = Append(log, x), Readable(log)'
  PROVE  LET b == x.entry.body
         IN  /\ x.whole
             /\ Issues' = IF b.action = "issue"
                          THEN Issues \cup {Certified(b)} ELSE Issues
             /\ Notes' = IF b.action = "revoke"
                         THEN Notes \cup {RevocationOf(b)} ELSE Notes
<1> DEFINE last == Len(log) + 1
<1>1. /\ DOMAIN log' = DOMAIN log \cup {last}
      /\ log'[last] = x
      /\ \A i \in DOMAIN log : log'[i] = log[i]
      /\ last \notin DOMAIN log
  BY AppendList, ListDomain
<1>9. x.whole
  BY <1>1 DEF Readable, LineOK
<1>2. ASSUME NEW action
      PROVE  Ledger(action)' = IF x.entry.body.action = action
                               THEN Ledger(action) \cup {last} ELSE Ledger(action)
  <2>1. Ledger(action)' = LoggedActions(action)' /\ Ledger(action) = LoggedActions(action)
    BY DEF Ledger
  <2>2. LoggedActions(action)' = IF x.entry.body.action = action
                                 THEN LoggedActions(action) \cup {last}
                                 ELSE LoggedActions(action)
    BY <1>1 DEF LoggedActions, Record
  <2> QED BY <2>1, <2>2
<1>3. \A action : Ledger(action) \subseteq DOMAIN log
  BY DEF Ledger, LoggedActions
<1>4. \A i \in DOMAIN log : Record(i)' = Record(i)
  BY <1>1 DEF Record
<1>5. Issues' = {Certified(log'[i].entry.body) : i \in Ledger("issue")'}
  BY DEF Issues, Record
<1>6. Notes' = {RevocationOf(log'[i].entry.body) : i \in Ledger("revoke")'}
  BY DEF Notes, Record
<1> HIDE DEF last
<1>7. Issues' = IF x.entry.body.action = "issue"
                THEN Issues \cup {Certified(x.entry.body)} ELSE Issues
  BY <1>1, <1>2, <1>3, <1>5 DEF Issues, Record
<1>8. Notes' = IF x.entry.body.action = "revoke"
               THEN Notes \cup {RevocationOf(x.entry.body)} ELSE Notes
  BY <1>1, <1>2, <1>3, <1>6 DEF Notes, Record
<1> QED BY <1>7, <1>8, <1>9

\* Only a command at "release" has a certificate to hand out; of commands that
\* run one at a time, that is the one which steps.
LEMMA UndeliveredBy ==
  ASSUME Control, Solo, NEW p \in Proc, pc[p] \notin Resting,
         NEW l, pc' = [pc EXCEPT ![p] = l], cert' = cert
  PROVE  /\ Undelivered = IF pc[p] = "release" THEN {IssueRecord("", cert[p])} ELSE {}
         /\ Undelivered' = IF l = "release" THEN {IssueRecord("", cert[p])} ELSE {}
<1>1. \A q \in Proc : q # p => pc[q] # "release" /\ pc'[q] = pc[q]
  BY DEF Solo, Resting, Ended, Control, Domains
<1>2. pc'[p] = l
  BY DEF Control, Domains
<1>3. {q \in Proc : pc[q] = "release"} = IF pc[p] = "release" THEN {p} ELSE {}
  BY <1>1
<1>4. {q \in Proc : pc'[q] = "release"} = IF l = "release" THEN {p} ELSE {}
  BY <1>1, <1>2
<1>5. Undelivered' = {IssueRecord("", cert[q]) : q \in {r \in Proc : pc'[r] = "release"}}
  BY DEF Undelivered
<1> QED BY <1>3, <1>4, <1>5 DEF Undelivered

\* It gets there by appending, and leaves by handing out or by being killed.
LEMMA UndeliveredStays ==
  ASSUME Control, Solo, [Next]_vars,
         \A q \in Proc : /\ ~ AppendEntry(q) /\ ~ Release(q)
                         /\ ~ (Stop(q) /\ pc[q] = "release")
  PROVE  Undelivered' = Undelivered
<1> USE DEF Control, Domains, Goto
<1>1. ASSUME NEW p \in Proc
      PROVE  /\ pc'[p] = "release" <=> pc[p] = "release"
             /\ pc[p] = "release" => cert'[p] = cert[p]
  <2>1. CASE Untouched(p)
    BY <2>1 DEF Untouched
  <2>2. CASE Start(p) \/ Stop(p)
    <3>1. pc'[p] \in FirstSteps \cup {"Killed"}
      BY <2>2, FirstStepIs DEF Start, Stop
    <3>2. pc[p] # "release"
      BY <2>2 DEF Start
    <3> QED BY <3>1, <3>2 DEF FirstSteps
  <2>3. CASE Step(p)
    <3>1. pc[p] # "release"
      BY <2>3 DEF Step, InitStat, OpenKey, OpenPub, OpenPolicy, NextSerial,
         IssuedSerial, ReadRevocations, Verify, AuditVerify, RenderKRL, Create,
         Write, SealEntry, RuntimeErr, Broken, Findings, Negative
    <3>2. CASE OpenPolicy(p)
      BY <3>1, <3>2, RequestsAssumption DEF OpenPolicy, AfterOpen, CommandAt, Cmd
    <3>3. CASE Write(p)
      BY <3>1, <3>3 DEF Write, AfterWrites
    <3>4. CASE ~ (OpenPolicy(p) \/ Write(p))
      <4>1. CASE \/ InitStat(p) \/ OpenKey(p) \/ OpenPub(p) \/ NextSerial(p)
                 \/ IssuedSerial(p) \/ ReadRevocations(p) \/ RenderKRL(p)
                 \/ Create(p) \/ SealEntry(p)
        BY <3>1, <4>1 DEF InitStat, OpenKey, OpenPub, NextSerial, IssuedSerial,
           ReadRevocations, RenderKRL, Create, SealEntry
      <4>2. CASE Verify(p) \/ AuditVerify(p) \/ RuntimeErr(p) \/ Findings(p)
        BY <3>1, <4>2 DEF Verify, AuditVerify, RuntimeErr, Findings, Exit
      <4>3. ~ AppendEntry(p) /\ ~ Release(p)
        OBVIOUS
      <4>4. \/ InitStat(p) \/ OpenKey(p) \/ OpenPub(p) \/ NextSerial(p)
            \/ IssuedSerial(p) \/ ReadRevocations(p) \/ RenderKRL(p)
            \/ Create(p) \/ SealEntry(p)
            \/ Verify(p) \/ AuditVerify(p) \/ RuntimeErr(p) \/ Findings(p)
        BY <2>3, <3>4, <4>3 DEF Step
      <4> QED BY <4>1, <4>2, <4>4
    <3> QED BY <3>2, <3>3, <3>4
  <2> QED BY <2>1, <2>2, <2>3, StepCases
<1>2. {p \in Proc : pc'[p] = "release"} = {p \in Proc : pc[p] = "release"}
  BY <1>1
<1> QED BY <1>1, <1>2 DEF Undelivered

-----------------------------------------------------------------------------
\* Each kind of step is a step of Authority, or none.

\* What the entry of a certificate says about it, whoever asked for it.
LEMMA Certificates ==
  ASSUME NEW u, NEW c
  PROVE  /\ Certified(IssueRecord(u, c)) = IssueRecord("", c)
         /\ IssueRecord(u, c).serial = c.serial /\ IssueRecord(u, c).action = "issue"
<1>1. ASSUME NEW z PROVE [IssueRecord(u, c) EXCEPT !.user = z] = IssueRecord(z, c)
  BY DEF IssueRecord
<1>2. \A z : z = "" => [IssueRecord(u, c) EXCEPT !.user = z] = IssueRecord(z, c)
  BY <1>1
<1>3. Certified(IssueRecord(u, c)) = IssueRecord("", c)
  BY <1>2 DEF Certified
<1>4. IssueRecord(u, c).serial = c.serial /\ IssueRecord(u, c).action = "issue"
  BY DEF IssueRecord
<1> QED BY <1>3, <1>4

\* The revocation a revoke command carries is one that may be asked for.
LEMMA Revocable ==
  ASSUME InvalidIds = {}, Control, NEW p \in Proc, pc[p] # "idle", Cmd(p) \in Revokes
  PROVE  Revocation(req[p]) \in RequestedRevocations
<1>1. req[p] \in Requests
  BY DEF Control, CommandAt, Revokes
<1> QED BY <1>1, FaithfulJson DEF RequestedRevocations, Revokes, Cmd

\* Legibility is a truth value.
LEMMA Legible == Readable(log) \in BOOLEAN /\ Readable(log)' \in BOOLEAN
BY DEF Readable

\* An entry of a certificate may be entered: its serial is taken, and the ledger
\* shows only smaller ones.
LEMMA EntryEnters ==
  ASSUME Control, Solo, TypeInv, AuditInv, FieldsInv, RecordInv, LedgerInv, ReadInv,
         NEW p \in Proc, pc[p] = "append", entry[p].body.action = "issue"
  PROVE  /\ Certified(entry[p].body) = IssueRecord("", cert[p])
         /\ Abstract!Enterable(IssueRecord("", cert[p]))
<1>1. Cmd(p) = "issue" /\ entry[p].body = IssueRecord(req[p].user, cert[p])
  BY EntryAction
<1>2. PICK n, c : n = cert[p].serial /\ c = IssueRecord("", cert[p])
  OBVIOUS
<1>3. Certified(entry[p].body) = c /\ c.serial = n
  <2>1. PICK u, d : entry[p].body = IssueRecord(u, d) /\ d = cert[p]
    BY <1>1
  <2>2. Certified(IssueRecord(u, d)) = IssueRecord("", d)
    BY Certificates
  <2>3. IssueRecord("", d).serial = d.serial
    BY Certificates
  <2> QED BY <1>2, <2>1, <2>2, <2>3
<1>4. n \in 1 .. MaxUint64 /\ EntriesBelow(n) /\ dir["serial"] = File(NextCounter(n))
  BY <1>1, <1>2 DEF TypeInv, TypeAt, Holding, LedgerInv, LedgerAt, IssueLedger
<1>5. View("serial") = dir["serial"]
  <2>1. \A q \in Proc : pc[q] # "write"
    BY DEF Solo, Resting, Ended
  <2> QED BY <2>1, Views DEF NobodyWrites
<1>6. Value(View("serial")) = NextCounter(n) /\ NextCounter(n) \in 0 .. MaxUint64
  BY <1>4, <1>5, Values, CounterRange
<1>7. Abstract!Taken(n)
  BY <1>4, <1>6, NextIsGreater, AuthorityAssumption DEF Abstract!Taken
<1>8. ASSUME NEW d \in Issues PROVE d.serial < n
  <2>1. PICK i \in DOMAIN log : d = Certified(Record(i)) /\ Record(i).action = "issue"
    BY DEF Issues, Ledger, LoggedActions
  <2>2. d.serial = Record(i).serial
    BY <2>1 DEF FieldsInv, HasFields, Certified
  <2>3. Record(i).serial \in 1 .. n - 1
    BY <1>4, <2>1 DEF EntriesBelow
  <2> QED BY <1>4, <2>2, <2>3, AuthorityAssumption
<1>9. Readable(log)
  BY DEF ReadInv, ReadAt
<1>10. Abstract!Enterable(c)
  BY <1>3, <1>7, <1>8, <1>9 DEF Abstract!Enterable
<1> QED BY <1>2, <1>3, <1>10

\* A new entry: Enter for a certificate, Note for a revocation.  When the log
\* can no longer be read with it: Spoil if the command goes on to hand its
\* certificate out, or else Lose.
LEMMA EntryRefines ==
  ASSUME InvalidIds = {}, Control, Solo, ChainInv, TypeInv, AuditInv, FieldsInv,
         RecordInv, PromiseInv, LedgerInv, ReadInv,
         NEW p \in Proc, pc[p] = "append", NEW whole, NEW newline,
         log' = Append(log, Piece(entry[p], whole, newline)),
         AppendEntry(p) \/ Stop(p),
         \A f \in Kept : View(f)' = View(f)
  PROVE  Abstract!Next \/ UNCHANGED Abstract!vars
<1> DEFINE b == entry[p].body
           c == IssueRecord("", cert[p])
<1>1. \A f : View(f) = dir[f]
  <2>1. \A q \in Proc : pc[q] # "write"
    BY DEF Solo, Resting, Ended
  <2> QED BY <2>1, Views DEF NobodyWrites
<1>2. UNCHANGED <<View("ca.key"), View("serial"), View("revoked.json"), Deliveries>>
  BY DEF Kept, Deliveries, AppendEntry, Stop
<1>3. /\ Undelivered = {}
      /\ Undelivered' \in {{c}, {}}
      /\ Undelivered' = {c} => Cmd(p) = "issue" /\ b.action = "issue"
  <2>1. cert' = cert /\ pc[p] \notin Resting
    BY DEF AppendEntry, Stop, locals, Resting, Ended
  <2>2. PICK l : /\ pc' = [pc EXCEPT ![p] = l]
                 /\ l = "Killed" \/ l = AfterAppend(Cmd(p))
    BY DEF AppendEntry, Stop, Goto
  <2>3. Undelivered = {} /\ Undelivered' = IF l = "release" THEN {c} ELSE {}
    BY <2>1, <2>2, UndeliveredBy
  <2>4. l = "release" => Cmd(p) = "issue"
    BY <2>2 DEF AfterAppend
  <2> HIDE DEF b, c
  <2>5. Cmd(p) = "issue" => b.action = "issue"
    <3>1. Cmd(p) = "issue" => b = IssueRecord(req[p].user, cert[p])
      BY DEF AuditInv, AuditReady, b
    <3>2. IssueRecord(req[p].user, cert[p]).action = "issue"
      BY Certificates
    <3> QED BY <3>1, <3>2
  <2>6. c \in {c} /\ c \notin {}
    OBVIOUS
  <2>7. CASE l = "release"
    BY <2>3, <2>4, <2>5, <2>7
  <2>8. CASE l # "release"
    BY <2>3, <2>6, <2>8
  <2> QED BY <2>7, <2>8
<1>4. LedgerAt(p) /\ PromiseAt(p) /\ Readable(log)
  BY DEF LedgerInv, PromiseInv, ReadInv, ReadAt
<1>5. b.action = "issue" => Certified(b) = c /\ Abstract!Enterable(c)
  BY EntryEnters
<1>6. CASE Readable(log)'
  <2>1. /\ Issues' = IF b.action = "issue" THEN Issues \cup {Certified(b)} ELSE Issues
        /\ Notes' = IF b.action = "revoke" THEN Notes \cup {RevocationOf(b)} ELSE Notes
    BY <1>4, <1>6, LedgerGrows DEF ChainInv, Piece
  <2>2. Readable(log)' = Readable(log)
    BY <1>4, <1>6, Legible
  <2> HIDE DEF b, c
  <2>3. CASE b.action = "issue"
    <3>1. Notes' = Notes /\ Issues' = Issues \cup {c}
      BY <1>5, <2>1, <2>3
    <3>2. Abstract!Enter(c)
      BY <1>2, <1>3, <1>5, <2>2, <2>3, <3>1 DEF Abstract!Enter
    <3> QED BY <3>1, <3>2 DEF Abstract!Next
  <2>4. CASE b.action = "revoke"
    <3> DEFINE rev == Revocation(req[p])
    <3>1. Cmd(p) \in Revokes /\ RevocationOf(b) = rev
      BY <2>4, EntryAction DEF b
    <3>2. rev \in RequestedRevocations
      BY <3>1, Revocable
    <3>3. InForce(rev) /\ Decodes("revoked.json") /\ ~ Noted(rev)
      BY <1>4, <3>1 DEF PromiseAt, LedgerAt, RevokeLedger
    <3>4. RevocationsOK(dir["revoked.json"]) /\ dir["revoked.json"] # EmptyFile
      BY <3>3 DEF Decodes, RevocationsOK, EmptyFile
    <3>5. /\ rev \in RevokedIn(View("revoked.json"))
          /\ RevokedIn(View("revoked.json")) # Lost
      BY <1>1, <3>3, <3>4, RevokedRead DEF InForce, Revs
    <3>6. rev \notin Notes
      BY <3>3 DEF Notes, Ledger, LoggedActions, Noted
    <3>7. Issues' = Issues /\ Notes' = Notes \cup {rev}
      BY <2>1, <2>4, <3>1
    <3>8. Undelivered' = Undelivered
      BY <1>3, <2>4
    <3> HIDE DEF rev
    <3>9. Abstract!Note(rev)
      BY <1>2, <1>4, <2>2, <3>5, <3>6, <3>7, <3>8 DEF Abstract!Note
    <3> QED BY <3>2, <3>9 DEF Abstract!Next
  <2>5. CASE b.action \notin {"issue", "revoke"}
    <3>1. Undelivered' = Undelivered
      BY <1>3, <2>5
    <3>2. Issues' = Issues /\ Notes' = Notes
      BY <2>1, <2>5
    <3> QED BY <1>2, <2>2, <3>1, <3>2 DEF Abstract!vars, Abstract!ledger
  <2> QED BY <2>3, <2>4, <2>5
<1>7. CASE ~ Readable(log)'
  <2>1. Readable(log)' = FALSE
    BY <1>7, Legible
  <2>2. Abstract!LoseLedger
    BY <1>7, <2>1, LedgerLostNext DEF Abstract!LoseLedger
  <2> HIDE DEF b, c
  <2>3. CASE Undelivered' = {c}
    <3>1. Abstract!Spoil(c)
      BY <1>2, <1>3, <1>5, <2>2, <2>3 DEF Abstract!Spoil
    <3> QED BY <2>3, <3>1 DEF Abstract!Next
  <2>4. CASE Undelivered' = {}
    <3>1. Undelivered' = Undelivered
      BY <1>3, <2>4
    <3>2. Abstract!Lose
      BY <1>2, <2>2, <3>1 DEF Abstract!Lose, Abstract!ledger
    <3> QED BY <3>2 DEF Abstract!Next
  <2> QED BY <1>3, <2>3, <2>4
<1> QED BY <1>6, <1>7

\* Handing out is Deliver.
LEMMA ReleaseRefines ==
  ASSUME Control, Solo, TypeInv, AuditInv, LedgerInv, NEW p \in Proc, Release(p),
         \A f \in Kept : View(f)' = View(f)
  PROVE  Abstract!Next
<1> DEFINE c == IssueRecord("", cert[p])
<1>1. UNCHANGED <<View("ca.key"), View("serial"), View("revoked.json"),
                  Issues, Notes, Readable(log)>>
  BY LedgerStays DEF Kept, Release
<1>2. pc[p] = "release" /\ Cmd(p) = "issue"
  BY DEF Release, Control, CommandAt
<1>3. Undelivered = {c} /\ Undelivered' = {}
  <2>1. cert' = cert /\ pc[p] \notin Resting
    BY <1>2 DEF Release, locals, Resting, Ended
  <2>2. PICK l : pc' = [pc EXCEPT ![p] = l] /\ l = "ExitOK"
    BY DEF Release, Goto
  <2>3. /\ Undelivered = IF pc[p] = "release" THEN {c} ELSE {}
        /\ Undelivered' = IF l = "release" THEN {c} ELSE {}
    BY <1>2, <2>1, <2>2, UndeliveredBy
  <2> QED BY <1>2, <2>2, <2>3
<1>4. ASSUME NEW d \in Deliveries PROVE d.serial < c.serial
  <2>1. PICK x \in released : d = IssueRecord("", x)
    BY DEF Deliveries
  <2>2. x.serial < cert[p].serial
    BY <1>2 DEF LedgerInv, LedgerAt, IssueLedger, Holding
  <2> QED BY <2>1, <2>2 DEF IssueRecord
<1>5. Deliveries' = Deliveries \cup {c}
  BY DEF Deliveries, Release
<1> HIDE DEF c
<1>6. Abstract!Deliver(c)
  BY <1>1, <1>3, <1>4, <1>5 DEF Abstract!Deliver, Abstract!ledger
<1> QED BY <1>3, <1>6 DEF Abstract!Next

\* A command killed with its certificate in hand is Forget.
LEMMA ForgetRefines ==
  ASSUME Control, Solo, NEW p \in Proc, Stop(p), pc[p] = "release",
         \A f \in Kept : View(f)' = View(f)
  PROVE  Abstract!Next
<1>1. log' = log /\ released' = released
  BY DEF Stop
<1>2. UNCHANGED <<View("ca.key"), View("serial"), View("revoked.json"),
                  Issues, Notes, Readable(log), Deliveries>>
  BY <1>1, LedgerStays DEF Kept, Deliveries
<1>3. Undelivered' = {}
  <2>1. cert' = cert /\ pc[p] \notin Resting
    BY DEF Stop, locals, Resting, Ended
  <2>2. PICK l : pc' = [pc EXCEPT ![p] = l] /\ l = "Killed"
    BY DEF Stop, Goto
  <2>3. Undelivered' = IF l = "release" THEN {IssueRecord("", cert[p])} ELSE {}
    BY <2>1, <2>2, UndeliveredBy
  <2> QED BY <2>2, <2>3
<1>4. Abstract!Forget
  BY <1>2, <1>3 DEF Abstract!Forget, Abstract!ledger
<1> QED BY <1>4 DEF Abstract!Next

\* Only a write to a kept file is a step of Authority.
LEMMA OtherFiles ==
  ASSUME log' = log, released' = released, Undelivered' = Undelivered,
         \A f \in Kept : View(f)' = View(f)
  PROVE  UNCHANGED Abstract!vars
<1>1. UNCHANGED <<View("ca.key"), View("serial"), View("revoked.json"), Deliveries>>
  BY DEF Kept, Deliveries
<1>2. UNCHANGED <<Issues, Notes, Readable(log)>>
  BY LedgerStays
<1> QED BY <1>1, <1>2 DEF Abstract!vars, Abstract!ledger

\* Which command writes which of the kept files.
LEMMA KeptWrites ==
  ASSUME Control, SetupInv, NEW p \in Proc, pc[p] \in {"create", "write"},
         NEW w, w = Head(writes[p])
  PROVE  /\ w.file = "ca.key" => AtKey(p) /\ w = KeyW(p)
         /\ w.file = "serial" => (AtSerial(p) /\ w = SerialW) \/ Cmd(p) = "issue"
         /\ w.file = "revoked.json" => Cmd(p) \in Revokes
<1>1. /\ KeyW(p).file = "ca.key" /\ PubW(p).file = "ca.pub"
      /\ PolicyW.file = "policy.json" /\ SerialW.file = "serial"
  BY DEF KeyW, PubW, PolicyW, SerialW
<1>2. CASE Cmd(p) = "init"
  <2>1. \/ AtKey(p) /\ w = KeyW(p)
        \/ w = PubW(p)
        \/ w = PolicyW
        \/ AtSerial(p) /\ w = SerialW
    BY <1>2, NextWrite, ZenonT(30)
  <2> QED BY <1>1, <2>1
<1>3. CASE Cmd(p) # "init"
  <2>1. w.file = OutputFile(Cmd(p))
    BY <1>3, NextWrite
  <2>2. Cmd(p) \in {"issue", "krl"} \cup Revokes
    BY <1>3 DEF Control, CommandAt
  <2> QED BY <2>1, <2>2 DEF OutputFile
<1> QED BY <1>2, <1>3

\* Truncating a file: Establish and StartCounter for init, Take for issue, Revoke.
LEMMA CreateRefines ==
  ASSUME InvalidIds = {}, Control, TypeInv, FieldsInv, BackedInv, SetupInv,
         SerialInv, PromiseInv, LedgerInv, ReadInv, Undelivered' = Undelivered,
         NEW p \in Proc, Create(p), NEW w, w = Head(writes[p]),
         View(w.file)' = File(w.data),
         \A f \in Kept : View(f) = dir[f] /\ (f # w.file => View(f)' = View(f))
  PROVE  Abstract!Next \/ UNCHANGED Abstract!vars
<1>1. pc[p] = "create" /\ log' = log /\ released' = released
  BY DEF Create
<1>2. UNCHANGED <<Issues, Notes, Readable(log), Deliveries, Undelivered>>
  BY <1>1, LedgerStays DEF Deliveries
<1>3. CASE w.file \notin Kept
  BY <1>1, <1>3, OtherFiles
<1>4. CASE w.file = "ca.key"
  <2>1. AtKey(p) /\ w = KeyW(p)
    BY <1>1, <1>4, KeptWrites
  <2>2. View("ca.key") = NoFile /\ View("serial") = NoFile /\ View("ca.key")' = File(p)
    BY <1>1, <1>4, <2>1 DEF AtKey, Coming, Kept, KeyW
  <2>3. UNCHANGED <<View("serial"), View("revoked.json")>>
    BY <1>4 DEF Kept
  <2>4. Abstract!Establish(p)
    BY <1>2, <2>2, <2>3, Values DEF Abstract!Establish, Abstract!ledger
  <2> QED BY <2>4 DEF Abstract!Next
<1>5. CASE w.file = "serial"
  <2>1. UNCHANGED <<View("ca.key"), View("revoked.json")>>
    BY <1>5 DEF Kept
  <2>2. CASE AtSerial(p) /\ w = SerialW
    <3>1. /\ View("ca.key") = File(p) /\ View("serial") = NoFile
          /\ View("serial")' = File(1)
      BY <1>1, <1>5, <2>2 DEF AtSerial, Coming, InPlace, Kept, SerialW
    <3>2. Abstract!StartCounter
      BY <1>2, <2>1, <3>1, Values DEF Abstract!StartCounter, Abstract!ledger
    <3> QED BY <3>2 DEF Abstract!Next
  <2>3. CASE Cmd(p) = "issue"
    <3>1. PICK n : n = cert[p].serial
      OBVIOUS
    <3>2. writes[p] = <<[file |-> "serial", data |-> NextCounter(n)]>>
      BY <1>1, <2>3, <3>1 DEF SerialInv, CounterAt
    <3>3. w.data = NextCounter(n)
      BY <3>2
    <3>4. n \in 1 .. MaxUint64 /\ dir["serial"] = File(n)
      BY <1>1, <2>3, <3>1 DEF TypeInv, TypeAt, Holding, LedgerInv, LedgerAt, IssueLedger
    <3>5. /\ Value(View("serial")) = n
          /\ Value(View("serial"))' = (n + 1) % (MaxUint64 + 1)
      BY <1>5, <3>3, <3>4, Values DEF Kept, NextCounter
    <3>6. Abstract!Take
      BY <1>2, <2>1, <3>4, <3>5 DEF Abstract!Take, Abstract!ledger
    <3> QED BY <3>6 DEF Abstract!Next
  <2> QED BY <1>1, <1>5, <2>2, <2>3, KeptWrites
<1>6. CASE w.file = "revoked.json"
  <2> DEFINE rev == Revocation(req[p])
  <2>1. UNCHANGED <<View("ca.key"), View("serial")>>
    BY <1>6 DEF Kept
  <2>2. Cmd(p) \in Revokes
    BY <1>1, <1>6, KeptWrites
  <2>3. rev \in RequestedRevocations
    BY <1>1, <2>2, Revocable
  <2>4. /\ RevocationsOK(dir["revoked.json"]) /\ ~ Listed(Revs, rev)
        /\ OutputOf(p) = Append(Revs, rev)
    BY <1>1, <2>2 DEF LedgerInv, LedgerAt, RevokeLedger
  <2>5. writes[p] = <<[file |-> "revoked.json", data |-> OutputOf(p)]>>
    <3>1. PICK d : writes[p] = <<[file |-> "revoked.json", data |-> d]>>
      BY <1>1, <2>2 DEF PromiseInv, PromiseAt, Carries
    <3> QED BY <3>1 DEF OutputOf
  <2>6. w.data = OutputOf(p)
    BY <2>5
  <2> HIDE DEF rev
  <2>7. /\ RevokedIn(View("revoked.json")) = {Revs[i] : i \in DOMAIN Revs}
        /\ RevokedIn(View("revoked.json")) # Lost
        /\ IsList(Revs)
    BY <2>4, RevokedRead DEF Kept
  <2>8. RevokedIn(View("revoked.json"))' =
          {Append(Revs, rev)[i] : i \in DOMAIN Append(Revs, rev)}
    BY <1>6, <2>4, <2>6, Values
  <2>9. /\ DOMAIN Append(Revs, rev) = DOMAIN Revs \cup {Len(Revs) + 1}
        /\ \A i \in DOMAIN Revs : Append(Revs, rev)[i] = Revs[i]
        /\ Append(Revs, rev)[Len(Revs) + 1] = rev
    BY <2>7, AppendList
  <2>10. RevokedIn(View("revoked.json"))' = RevokedIn(View("revoked.json")) \cup {rev}
    BY <2>7, <2>8, <2>9
  <2>11. rev \notin RevokedIn(View("revoked.json"))
    BY <2>4, <2>7 DEF Listed
  <2>12. ASSUME rev.serial # 0 PROVE \E c \in Issues : c.serial = rev.serial
    <3>1. Backed(log, Append(Revs, rev))
      <4>1. \A i \in DOMAIN writes[p] : writes[p][i].file = "revoked.json" =>
              Backed(log, writes[p][i].data)
        BY <1>1 DEF BackedInv, BackedAt
      <4>2. 1 \in DOMAIN writes[p] /\ writes[p][1].file = "revoked.json"
        BY <2>5
      <4> QED BY <2>4, <4>1, <4>2 DEF OutputOf
    <3>2. SerialIn(log, rev.serial)
      BY <2>9, <2>12, <3>1 DEF Backed
    <3>3. PICK i \in DOMAIN log : /\ log[i].whole /\ Record(i).action = "issue"
                                  /\ Record(i).serial = rev.serial
      BY <3>2 DEF SerialIn, Record
    <3>4. Certified(Record(i)).serial = rev.serial
      BY <3>3 DEF FieldsInv, HasFields, Certified
    <3>5. Cmd(p) = "revokeSerial"
      BY <2>2, <2>12 DEF rev, Revocation, Revokes, Cmd
    <3>6. Readable(log)
      BY <1>1, <3>5 DEF ReadInv, ReadAt
    <3> QED BY <3>3, <3>4, <3>6 DEF Issues, Ledger, LoggedActions
  <2>13. Abstract!Revoke(rev)
    BY <1>2, <2>1, <2>7, <2>10, <2>11, <2>12 DEF Abstract!Revoke, Abstract!ledger
  <2> QED BY <2>3, <2>13 DEF Abstract!Next
<1> QED BY <1>3, <1>4, <1>5, <1>6 DEF Kept

\* A command killed before its write loses the file it has truncated.
LEMMA StopRefines ==
  ASSUME Control, Solo, TypeInv, SetupInv, Undelivered' = Undelivered,
         NEW p \in Proc, Stop(p), pc[p] = "write", NEW w, w = Head(writes[p]),
         View(w.file) = File(w.data),
         w.file \in Kept => View(w.file)' = EmptyFile,
         \A f \in Kept : f # w.file => View(f) = dir[f] /\ View(f)' = View(f)
  PROVE  Abstract!Next \/ UNCHANGED Abstract!vars
<1>1. log' = log /\ released' = released
  BY DEF Stop
<1>2. UNCHANGED <<Issues, Notes, Readable(log), Deliveries, Undelivered>>
  BY <1>1, LedgerStays DEF Deliveries
<1>3. CASE w.file \notin Kept
  BY <1>1, <1>3, OtherFiles
<1>4. CASE w.file = "ca.key"
  <2>1. AtKey(p)
    BY <1>4, KeptWrites
  <2>2. View("serial") = NoFile /\ View("ca.key")' = EmptyFile
    BY <1>4, <2>1 DEF AtKey, Kept
  <2>3. UNCHANGED <<View("serial"), View("revoked.json")>>
    BY <1>4 DEF Kept
  <2>4. Abstract!Lose
    BY <1>2, <2>2, <2>3, Values DEF Abstract!Lose, Abstract!ledger
  <2> QED BY <2>4 DEF Abstract!Next
<1>5. CASE w.file = "serial"
  <2>1. w.data \in 0 .. MaxUint64
    <3>1. DataOK("serial", w.data)
      BY <1>5, TailList DEF TypeInv, TypeAt, Pending
    <3> QED BY <3>1 DEF DataOK
  <2>2. Value(View("serial")) # Null /\ Value(View("serial"))' = Lost
    BY <1>5, <2>1, Values, LostAssumption, AuthorityAssumption DEF Kept
  <2>3. UNCHANGED <<View("ca.key"), View("revoked.json")>>
    BY <1>5 DEF Kept
  <2>4. Abstract!Lose
    BY <1>2, <2>2, <2>3 DEF Abstract!Lose, Abstract!ledger
  <2> QED BY <2>4 DEF Abstract!Next
<1>6. CASE w.file = "revoked.json"
  <2>1. RevokedIn(View("revoked.json"))' = Lost
    BY <1>6, Values DEF Kept
  <2>2. UNCHANGED <<View("ca.key"), View("serial")>>
    BY <1>6 DEF Kept
  <2>3. Abstract!Lose
    BY <1>2, <2>1, <2>2 DEF Abstract!Lose, Abstract!ledger
  <2> QED BY <2>3 DEF Abstract!Next
<1> QED BY <1>3, <1>4, <1>5, <1>6 DEF Kept

\* A fresh directory is unset, a provisioned one is at serial 1.
LEMMA InitRefines == Init => Abstract!Init
<1> SUFFICES ASSUME Init PROVE Abstract!Init
  OBVIOUS
<1>1. \A f : View(f) = dir[f]
  BY Views DEF NobodyWrites, Init
<1>2. Deliveries = {}
  BY DEF Deliveries, Init
<1>7. Undelivered = {}
  BY DEF Undelivered, Init
<1>8. Readable(log) = TRUE
  <2>1. CASE log = <<>>
    BY <2>1 DEF Readable
  <2>2. CASE ProvisionedDir
    <3> DEFINE x == Piece(Seal(<<>>, InitRecord(Provisioner)), TRUE, TRUE)
    <3>1. /\ log = <<x>> /\ x.whole
          /\ x.entry.body.keyID = NoKeyID
      BY <2>2 DEF ProvisionedDir, Piece, Seal, InitRecord, NoRecord
    <3> HIDE DEF x
    <3>2. DOMAIN log = {1} /\ log[1] = x
      BY <3>1
    <3> QED BY <3>1, <3>2, LinesAssumption DEF Readable, LineOK
  <2> QED BY <2>1, <2>2 DEF Init, FreshDir
<1>3. ASSUME NEW action \in {"issue", "revoke"} PROVE Ledger(action) = {}
  <2>1. CASE log = <<>>
    BY <2>1 DEF Ledger, LoggedActions
  <2>2. CASE ProvisionedDir
    <3> DEFINE x == Piece(Seal(<<>>, InitRecord(Provisioner)), TRUE, TRUE)
    <3>1. log = <<x>> /\ x.entry.body.action = "init"
      BY <2>2 DEF ProvisionedDir, Piece, Seal, InitRecord, NoRecord
    <3> HIDE DEF x
    <3>2. DOMAIN log = {1} /\ Record(1).action = "init"
      BY <3>1 DEF Record
    <3> QED BY <3>2 DEF Ledger, LoggedActions
  <2> QED BY <2>1, <2>2 DEF Init, FreshDir
<1>4. Issues = {} /\ Notes = {}
  BY <1>3 DEF Issues, Notes
<1>5. CASE FreshDir
  <2>1. \A f \in Kept : View(f) = NoFile
    BY <1>1, <1>5 DEF FreshDir, Kept, Files
  <2> QED BY <1>2, <1>4, <1>7, <1>8, <2>1, Values DEF Abstract!Init, Kept
<1>6. CASE ProvisionedDir
  <2>1. /\ View("ca.key") = File(Provisioner) /\ View("serial") = File(1)
        /\ View("revoked.json") = NoFile
    BY <1>1, <1>6 DEF ProvisionedDir, Files
  <2> QED BY <1>2, <1>4, <1>7, <1>8, <2>1, Values DEF Abstract!Init
<1> QED BY <1>5, <1>6 DEF Init

\* Every step of commands that do not overlap.
LEMMA StepRefines ==
  ASSUME InvalidIds = {}
  PROVE  Control /\ Solo /\ Solo' /\ ChainInv /\ TypeInv /\ Truncated /\ AuditInv
           /\ FieldsInv /\ BackedInv /\ RecordInv /\ SetupInv /\ SerialInv
           /\ PromiseInv /\ LedgerInv /\ ReadInv /\ [Next]_vars
         => [Abstract!Next]_Abstract!vars
<1> SUFFICES ASSUME Control, Solo, Solo', ChainInv, TypeInv, Truncated, AuditInv,
                    FieldsInv, BackedInv, RecordInv, SetupInv, SerialInv, PromiseInv,
                    LedgerInv, ReadInv, [Next]_vars
             PROVE  Abstract!Next \/ UNCHANGED Abstract!vars
  OBVIOUS
<1>1. ASSUME NEW p \in Proc, pc[p] \in {"append", "release"}
      PROVE  /\ \A q \in Proc : pc[q] \notin {"create", "write"}
             /\ (\A f \in Kept : View(f)' = View(f))
  <2>1. \A q \in Proc : pc[q] \notin {"create", "write"}
    BY <1>1 DEF Solo, Resting, Ended
  <2>2. ~ \E q \in Proc : Create(q) \/ (Stop(q) /\ pc[q] = "write")
    BY <2>1 DEF Create
  <2> QED BY <2>1, <2>2, ViewStep
<1>2. CASE log' # log
  <2>1. PICK p \in Proc, whole, newline \in BOOLEAN :
          /\ pc[p] = "append"
          /\ log' = Append(log, Piece(entry[p], whole, newline))
          /\ AppendEntry(p) \/ Stop(p)
    BY <1>2, AppendsAlone
  <2> QED BY <1>1, <2>1, EntryRefines
<1>3. ASSUME NEW p \in Proc, AppendEntry(p) PROVE log' # log
  <2>1. PICK x : log' = Append(log, x)
    BY <1>3 DEF AppendEntry
  <2> QED BY <2>1, AppendList, ListDomain DEF ChainInv
<1>4. ASSUME NEW p \in Proc, Release(p) PROVE Abstract!Next
  BY <1>1, <1>4, ReleaseRefines DEF Release
<1>5. ASSUME NEW p \in Proc, Stop(p), pc[p] = "release" PROVE Abstract!Next
  BY <1>1, <1>5, ForgetRefines
<1>6. ASSUME log' = log, \A q \in Proc : /\ ~ AppendEntry(q) /\ ~ Release(q)
                                         /\ ~ (Stop(q) /\ pc[q] = "release")
      PROVE  Abstract!Next \/ UNCHANGED Abstract!vars
  <2>1. Undelivered' = Undelivered
    BY <1>6, UndeliveredStays
  <2>2. released' = released
    BY <1>6, ReleasedStep
  <2>3. CASE \A f \in Kept : View(f)' = View(f)
    BY <1>6, <2>1, <2>2, <2>3, OtherFiles
  <2>4. ASSUME NEW p \in Proc, NEW w, Create(p), w = Head(writes[p]),
               View(w.file)' = File(w.data),
               \A f \in Kept : View(f) = dir[f] /\ (f # w.file => View(f)' = View(f))
        PROVE  Abstract!Next \/ UNCHANGED Abstract!vars
    BY <2>1, <2>4, CreateRefines
  <2>5. ASSUME NEW p \in Proc, NEW w, Stop(p), pc[p] = "write", w = Head(writes[p]),
               View(w.file) = File(w.data),
               w.file \in Kept => View(w.file)' = EmptyFile,
               \A f \in Kept : f # w.file => View(f) = dir[f] /\ View(f)' = View(f)
        PROVE  Abstract!Next \/ UNCHANGED Abstract!vars
    BY <2>1, <2>5, StopRefines
  <2> QED BY <2>3, <2>4, <2>5, ViewStep
<1> QED BY <1>2, <1>3, <1>4, <1>5, <1>6

\* Commands that run one at a time keep what Authority promises, for every
\* number of them and wherever they are killed: every serial goes out at most
\* once, with an entry that is readable up to the one before it, no revocation
\* is taken back, and the key is never replaced.
THEOREM Refines ==
  ASSUME Exclusive, InvalidIds = {} PROVE Spec => ImplementsAuthority
<1>1. Init => Abstract!Init
  BY InitRefines
<1>2. Control /\ Solo /\ Solo' /\ ChainInv /\ TypeInv /\ Truncated /\ AuditInv
        /\ FieldsInv /\ BackedInv /\ RecordInv /\ SetupInv /\ SerialInv
        /\ PromiseInv /\ LedgerInv /\ ReadInv /\ [Next]_vars
      => [Abstract!Next]_Abstract!vars
  BY StepRefines
<1>3. Spec => /\ []Control /\ []Solo /\ []ChainInv /\ []TypeInv /\ []Truncated
             /\ []AuditInv /\ []FieldsInv /\ []BackedInv /\ []RecordInv
             /\ []SetupInv /\ []SerialInv /\ []PromiseInv /\ []LedgerInv
             /\ []ReadInv
  BY ControlAlways, OneAtATime, ChainAlways, TypeAlways, TruncatedAlways, AuditAlways,
     FieldsAlways, BackedAlways, RecordAlways, SetupAlways, SerialAlways,
     PromisesKept, LedgerAlways, ReadAlways
<1> QED BY <1>1, <1>2, <1>3, PTL DEF Spec, ImplementsAuthority, Abstract!Spec

-----------------------------------------------------------------------------
\* The books between commands: serials are taken once, and as long as nothing
\* was interrupted, each has its entry and its certificate, and the revocations
\* are those of the revoke entries, in their order.

LoggedSerials == {Record(i).serial : i \in LoggedActions("issue")}
GivenSerials  == {c.serial : c \in released}

Once ==
  /\ \A i, j \in LoggedActions("issue") : Record(i).serial = Record(j).serial => i = j
  /\ \A c, d \in released : c.serial = d.serial => c = d

\* The serials below the counter, which is 0 after the last one.
Last(n) == IF n = 0 THEN MaxUint64 ELSE n - 1
TakenSerials == IF Decodes("serial") THEN 1 .. Last(Content("serial")) ELSE {}

Issuing(p) == Cmd(p) = "issue" /\ pc[p] \in Holding

IssueTally(p) ==
  /\ GivenSerials = 1 .. cert[p].serial - 1
  /\ pc[p] # "release" => LoggedSerials = 1 .. cert[p].serial - 1
  /\ pc[p] = "release" => /\ LoggedSerials = 1 .. cert[p].serial
                          /\ dir["serial"] = File(NextCounter(cert[p].serial))

IssueBooks ==
  /\ (\A p \in Proc : ~ Issuing(p)) =>
       LoggedSerials = TakenSerials /\ GivenSerials = TakenSerials
  /\ \A p \in Proc : Issuing(p) => IssueTally(p)

\* revs are the revocations of the revoke entries of file (IsRevokeEntries).
RevokesIn(file) == {i \in DOMAIN file : file[i].entry.body.action = "revoke"}

Matches(file, revs) ==
  \E at \in [DOMAIN revs -> RevokesIn(file)] :
    /\ \A j, k \in DOMAIN revs : j < k => at[j] < at[k]
    /\ \A i \in RevokesIn(file) : \E k \in DOMAIN revs : at[k] = i
    /\ \A k \in DOMAIN revs : revs[k] = Marshalled(RevocationOf(file[at[k]].entry.body))

\* longer is that list and one revocation more.
Ahead(file, longer, rev) ==
  \E revs : IsList(revs) /\ Matches(file, revs) /\ longer = Append(revs, rev)

Revoking(p) == Cmd(p) \in Revokes /\ pc[p] \in Holding

RevokeTally(p) ==
  /\ pc[p] \in {"create", "write"} => Ahead(log, OutputOf(p), Revocation(req[p]))
  /\ pc[p] \in {"seal", "append"} => Ahead(log, Revs, Revocation(req[p]))

RevokeBooks ==
  /\ (\A p \in Proc : ~ Revoking(p)) => Matches(log, Revs)
  /\ \A p \in Proc : Revoking(p) => RevokeTally(p)

Books == WholeLog /\ IssueBooks /\ RevokeBooks

BooksInv == Once /\ (Uninterrupted => Books)

-----------------------------------------------------------------------------
\* While a command steps, the others rest.
LEMMA OthersRest ==
  ASSUME Control, Solo, NEW p \in Proc, Step(p), NEW q \in Proc, q # p
  PROVE  pc[q] \in Resting /\ pc'[q] = pc[q] /\ pc[q] \notin Holding
BY StepsRun, OthersUntouched DEF Solo, Untouched, Resting, Ended, Holding

\* What a command that holds something does next, if it can read the log.
LEMMA HoldingSteps ==
  ASSUME Readable(log), NEW p \in Proc, Step(p), pc[p] \in Holding
  PROVE  Create(p) \/ Write(p) \/ SealEntry(p) \/ AppendEntry(p) \/ Release(p)
<1>1. ~ RuntimeErr(p) /\ ~ Findings(p)
  BY DEF RuntimeErr, Broken, Findings, Negative, Holding
<1> QED BY <1>1 DEF Step, InitStat, OpenKey, OpenPub, OpenPolicy, NextSerial,
           IssuedSerial, ReadRevocations, Verify, AuditVerify, RenderKRL, Holding

\* What it did before.
LEMMA EarlierSteps ==
  ASSUME Control, NEW p \in Proc, Step(p), pc[p] \notin Holding
  PROVE  /\ UNCHANGED <<dir, log, released>>
         /\ pc'[p] \in Holding =>
              InitStat(p) \/ NextSerial(p) \/ ReadRevocations(p) \/ RenderKRL(p)
<1> USE DEF Control, Domains, files, Goto, Holding
<1>1. ~ (Create(p) \/ Write(p) \/ SealEntry(p) \/ AppendEntry(p) \/ Release(p))
  BY DEF Create, Write, SealEntry, AppendEntry, Release
<1>2. UNCHANGED <<dir, log, released>>
  BY <1>1 DEF Step, Exit, InitStat, OpenKey, OpenPub, OpenPolicy, NextSerial,
     IssuedSerial, ReadRevocations, Verify, AuditVerify, RenderKRL, RuntimeErr,
     Findings
<1>3. CASE OpenPolicy(p)
  BY <1>2, <1>3, RequestsAssumption DEF OpenPolicy, AfterOpen, CommandAt, Cmd
<1>4. CASE OpenKey(p) \/ OpenPub(p) \/ IssuedSerial(p)
  BY <1>2, <1>4 DEF OpenKey, OpenPub, IssuedSerial
<1>5. CASE Verify(p) \/ AuditVerify(p) \/ RuntimeErr(p) \/ Findings(p)
  BY <1>2, <1>5 DEF Verify, AuditVerify, RuntimeErr, Findings, Exit
<1> QED BY <1>1, <1>2, <1>3, <1>4, <1>5 DEF Step

\* A new line counts under its action.
LEMMA LoggedGrows ==
  ASSUME IsList(log), NEW x, log' = Append(log, x)
  PROVE  LET last == Len(log) + 1
             b == x.entry.body
         IN  /\ last \notin DOMAIN log
             /\ log'[last].entry.body = b
             /\ \A i \in DOMAIN log : log'[i].entry.body = Record(i)
             /\ \A action : LoggedActions(action)' =
                  IF b.action = action THEN LoggedActions(action) \cup {last}
                                       ELSE LoggedActions(action)
             /\ LoggedSerials' = IF b.action = "issue" THEN LoggedSerials \cup {b.serial}
                                                      ELSE LoggedSerials
<1> DEFINE last == Len(log) + 1
<1>1. /\ DOMAIN log' = DOMAIN log \cup {last}
      /\ log'[last] = x
      /\ \A i \in DOMAIN log : log'[i] = log[i]
      /\ last \notin DOMAIN log
  BY AppendList, ListDomain
<1> HIDE DEF last
<1>2. /\ log'[last].entry.body = x.entry.body
      /\ \A i \in DOMAIN log : log'[i].entry.body = Record(i)
  BY <1>1 DEF Record
<1>3. \A action : LoggedActions(action)' =
        IF x.entry.body.action = action THEN LoggedActions(action) \cup {last}
                                        ELSE LoggedActions(action)
  BY <1>1 DEF LoggedActions, Record
<1>4. LoggedSerials' = IF x.entry.body.action = "issue"
                       THEN LoggedSerials \cup {x.entry.body.serial} ELSE LoggedSerials
  BY <1>1, <1>3 DEF LoggedSerials, LoggedActions, Record
<1> QED BY <1>1, <1>2, <1>3, <1>4 DEF last

\* Nothing is counted anew without a line.
LEMMA LoggedStaysPut ==
  ASSUME log' = log
  PROVE  /\ \A action : LoggedActions(action)' = LoggedActions(action)
         /\ LoggedSerials' = LoggedSerials
BY DEF LoggedActions, LoggedSerials, Record

\* A revoke entry matches its revocation, other entries match none.
LEMMA MatchesGrow ==
  ASSUME NEW file, IsList(file), NEW revs, IsList(revs), Matches(file, revs), NEW x
  PROVE  LET b == x.entry.body
         IN  IF b.action = "revoke"
             THEN Matches(Append(file, x), Append(revs, Marshalled(RevocationOf(b))))
             ELSE Matches(Append(file, x), revs)
<1> DEFINE b == x.entry.body
           last == Len(file) + 1
           longer == Append(file, x)
<1>1. PICK at \in [DOMAIN revs -> RevokesIn(file)] :
        /\ \A j, k \in DOMAIN revs : j < k => at[j] < at[k]
        /\ \A i \in RevokesIn(file) : \E k \in DOMAIN revs : at[k] = i
        /\ \A k \in DOMAIN revs : revs[k] = Marshalled(RevocationOf(file[at[k]].entry.body))
  BY DEF Matches
<1>2. /\ DOMAIN longer = DOMAIN file \cup {last} /\ last \notin DOMAIN file
      /\ longer[last] = x /\ \A i \in DOMAIN file : longer[i] = file[i]
      /\ DOMAIN file = 1 .. Len(file) /\ Len(file) \in Nat
  BY AppendList, ListDomain
<1>3. RevokesIn(longer) = IF b.action = "revoke" THEN RevokesIn(file) \cup {last}
                                                ELSE RevokesIn(file)
  BY <1>2 DEF RevokesIn
<1>4. RevokesIn(file) \subseteq DOMAIN file /\ \A i \in RevokesIn(file) : i < last
  <2>1. RevokesIn(file) \subseteq DOMAIN file
    BY DEF RevokesIn
  <2>2. \A i \in DOMAIN file : i < last
    BY <1>2
  <2> QED BY <2>1, <2>2
<1> HIDE DEF longer, last, b
<1>5. CASE b.action # "revoke"
  <2>1. at \in [DOMAIN revs -> RevokesIn(longer)]
    BY <1>3, <1>5
  <2>2. \A k \in DOMAIN revs : longer[at[k]] = file[at[k]]
    BY <1>1, <1>2, <1>4
  <2>3. \A k \in DOMAIN revs : revs[k] = Marshalled(RevocationOf(longer[at[k]].entry.body))
    BY <1>1, <2>2
  <2>4. \A i \in RevokesIn(longer) : \E k \in DOMAIN revs : at[k] = i
    BY <1>1, <1>3, <1>5
  <2>5. Matches(longer, revs)
    BY <1>1, <2>1, <2>3, <2>4 DEF Matches
  <2> QED BY <1>5, <2>5 DEF longer, b
<1>6. CASE b.action = "revoke"
  <2> DEFINE rev == Marshalled(RevocationOf(b))
             all == Append(revs, rev)
             new == Len(revs) + 1
             into == [k \in DOMAIN all |-> IF k = new THEN last ELSE at[k]]
  <2>1. /\ DOMAIN all = DOMAIN revs \cup {new} /\ new \notin DOMAIN revs
        /\ all[new] = rev /\ \A k \in DOMAIN revs : all[k] = revs[k]
        /\ \A k \in DOMAIN revs : k < new /\ ~ new < k
        /\ ~ new < new
    <3>1. DOMAIN revs = 1 .. Len(revs) /\ Len(revs) \in Nat
      BY ListDomain
    <3>2. /\ DOMAIN all = DOMAIN revs \cup {new}
          /\ all[new] = rev /\ \A k \in DOMAIN revs : all[k] = revs[k]
      BY AppendList
    <3> HIDE DEF all
    <3> QED BY <3>1, <3>2
  <2> HIDE DEF all, new
  <2>2. /\ \A k \in DOMAIN revs : into[k] = at[k] /\ at[k] \in RevokesIn(file)
        /\ into[new] = last
        /\ DOMAIN into = DOMAIN all
    BY <1>1, <2>1
  <2>3. into \in [DOMAIN all -> RevokesIn(longer)]
    BY <1>1, <1>3, <1>6, <2>1
  <2> HIDE DEF into
  <2>4. \A j, k \in DOMAIN all : j < k => into[j] < into[k]
    BY <1>1, <1>4, <2>1, <2>2
  <2>5. \A i \in RevokesIn(longer) : \E k \in DOMAIN all : into[k] = i
    BY <1>1, <1>3, <1>6, <2>1, <2>2
  <2>6. \A k \in DOMAIN all : all[k] = Marshalled(RevocationOf(longer[into[k]].entry.body))
    <3>1. ASSUME NEW k \in DOMAIN revs
          PROVE  all[k] = Marshalled(RevocationOf(longer[into[k]].entry.body))
      <4>1. longer[into[k]] = file[at[k]] /\ all[k] = revs[k]
        BY <1>2, <1>4, <2>1, <2>2
      <4> QED BY <1>1, <4>1
    <3>2. all[new] = Marshalled(RevocationOf(longer[into[new]].entry.body))
      BY <1>2, <2>1, <2>2 DEF b
    <3> QED BY <2>1, <3>1, <3>2
  <2>7. Matches(longer, all)
    BY <2>3, <2>4, <2>5, <2>6 DEF Matches
  <2> QED BY <1>6, <2>7 DEF longer, all, b
<1> QED BY <1>5, <1>6

-----------------------------------------------------------------------------
\* An entry is for a serial above all entered ones, a certificate handed out for
\* one above all handed out.
LEMMA OnceNext ==
  ASSUME Control, ChainInv, TypeInv, AuditInv, RecordInv, LedgerInv, Once, [Next]_vars
  PROVE  Once'
<1>1. \A i, j \in LoggedActions("issue")' :
        Record(i)'.serial = Record(j)'.serial => i = j
  <2>1. CASE log' = log
    BY <2>1, LoggedStaysPut DEF Once, Record
  <2>2. CASE log' # log
    <3>1. PICK p \in Proc, whole, newline \in BOOLEAN :
            /\ pc[p] = "append"
            /\ log' = Append(log, Piece(entry[p], whole, newline))
      BY <2>2, AppendsAlone
    <3> DEFINE b == entry[p].body
               last == Len(log) + 1
    <3>2. /\ last \notin DOMAIN log /\ log'[last].entry.body = b
          /\ \A i \in DOMAIN log : log'[i].entry.body = Record(i)
          /\ LoggedActions("issue")' = IF b.action = "issue"
                                       THEN LoggedActions("issue") \cup {last}
                                       ELSE LoggedActions("issue")
      BY <3>1, LoggedGrows DEF ChainInv, Piece
    <3>3. ASSUME b.action = "issue", NEW i \in LoggedActions("issue")
          PROVE  Record(i).serial # b.serial
      <4>1. Cmd(p) = "issue" /\ b = IssueRecord(req[p].user, cert[p])
        BY <3>1, <3>3, EntryAction
      <4> HIDE DEF b
      <4>2. b.serial = cert[p].serial
        <5>1. IssueRecord(req[p].user, cert[p]).serial = cert[p].serial
          BY Certificates
        <5> QED BY ONLY <4>1, <5>1
      <4>3. EntriesBelow(cert[p].serial) /\ cert[p].serial \in 1 .. MaxUint64
        BY <3>1, <4>1 DEF LedgerInv, LedgerAt, IssueLedger, TypeInv, TypeAt, Holding
      <4>4. Record(i).serial \in 1 .. cert[p].serial - 1
        BY <3>3, <4>3 DEF EntriesBelow, LoggedActions
      <4>5. Record(i).serial < cert[p].serial /\ cert[p].serial \in Nat
        BY <4>3, <4>4, AuthorityAssumption
      <4>6. \A m, n \in Nat : m < n => m # n
        OBVIOUS
      <4> QED BY <4>2, <4>4, <4>5, <4>6
    <3>4. LoggedActions("issue") \subseteq DOMAIN log
      BY DEF LoggedActions
    <3> HIDE DEF b, last
    <3> QED BY <3>2, <3>3, <3>4 DEF Once, Record
  <2> QED BY <2>1, <2>2
<1>2. \A c, d \in released' : c.serial = d.serial => c = d
  <2>1. CASE released' = released
    BY <2>1 DEF Once
  <2>2. ASSUME NEW p \in Proc, Release(p), released' = released \cup {cert[p]}
        PROVE  \A c, d \in released' : c.serial = d.serial => c = d
    <3>1. pc[p] = "release" /\ Cmd(p) = "issue"
      BY <2>2 DEF Release, Control, CommandAt
    <3>2. cert[p].serial \in Nat /\ \A c \in released : c.serial < cert[p].serial
      BY <3>1, AuthorityAssumption
      DEF LedgerInv, LedgerAt, IssueLedger, TypeInv, TypeAt, Holding
    <3>3. \A c \in released : c.serial \in Nat
      BY AuthorityAssumption DEF TypeInv
    <3>4. \A c \in released : c.serial # cert[p].serial
      BY <3>2, <3>3
    <3> QED BY <2>2, <3>4 DEF Once
  <2> QED BY <2>1, <2>2, ReleasedStep
<1> QED BY <1>1, <1>2 DEF Once

-----------------------------------------------------------------------------
\* A command starts, ends or reads: nothing is counted.
LEMMA SameBooks ==
  ASSUME log' = log, released' = released, \A f \in Kept : dir'[f] = dir[f],
         \A p \in Proc : \/ pc[p] \notin Holding /\ pc'[p] \notin Holding
                         \/ /\ pc'[p] = pc[p] /\ req'[p] = req[p]
                            /\ cert'[p] = cert[p] /\ writes'[p] = writes[p]
  PROVE  /\ IssueBooks => IssueBooks'
         /\ RevokeBooks => RevokeBooks'
<1>1. LoggedSerials' = LoggedSerials /\ GivenSerials' = GivenSerials
  BY LoggedStaysPut DEF GivenSerials
<1>2. dir'["serial"] = dir["serial"] /\ dir'["revoked.json"] = dir["revoked.json"]
  BY DEF Kept
<1>3. TakenSerials' = TakenSerials /\ Revs' = Revs
  BY <1>2 DEF TakenSerials, Decodes, Content, Revs
<1>4. ASSUME NEW p \in Proc
      PROVE  /\ Issuing(p)' = Issuing(p) /\ Revoking(p)' = Revoking(p)
             /\ Issuing(p) => IssueTally(p)' = IssueTally(p)
             /\ Revoking(p) => RevokeTally(p)' = RevokeTally(p)
  <2>1. CASE pc[p] \notin Holding /\ pc'[p] \notin Holding
    BY <2>1 DEF Issuing, Revoking
  <2>2. CASE /\ pc'[p] = pc[p] /\ req'[p] = req[p]
             /\ cert'[p] = cert[p] /\ writes'[p] = writes[p]
    BY <1>1, <1>2, <1>3, <2>2
    DEF Issuing, Revoking, IssueTally, RevokeTally, Cmd, OutputOf
  <2> QED BY <2>1, <2>2
<1>5. IssueBooks => IssueBooks'
  BY <1>1, <1>3, <1>4 DEF IssueBooks
<1>6. RevokeBooks => RevokeBooks'
  BY <1>1, <1>3, <1>4 DEF RevokeBooks
<1> QED BY <1>5, <1>6

\* The books of a command that steps, all others resting.
LEMMA BooksOf ==
  ASSUME Control, Solo, NEW p \in Proc, Step(p)
  PROVE  /\ IssueBooks => IF Issuing(p) THEN IssueTally(p)
                          ELSE LoggedSerials = TakenSerials /\ GivenSerials = TakenSerials
         /\ (IF Issuing(p) THEN IssueTally(p)
             ELSE LoggedSerials = TakenSerials /\ GivenSerials = TakenSerials)'
               => IssueBooks'
         /\ RevokeBooks => IF Revoking(p) THEN RevokeTally(p) ELSE Matches(log, Revs)
         /\ (IF Revoking(p) THEN RevokeTally(p) ELSE Matches(log, Revs))' => RevokeBooks'
<1>1. \A q \in Proc : q # p =>
        ~ Issuing(q) /\ ~ Issuing(q)' /\ ~ Revoking(q) /\ ~ Revoking(q)'
  BY OthersRest DEF Issuing, Revoking
<1> QED BY <1>1 DEF IssueBooks, RevokeBooks

\* What NextCounter leaves is the serials up to this one.
LEMMA LastTaken ==
  ASSUME NEW n \in 1 .. MaxUint64
  PROVE  Last(NextCounter(n)) = n /\ n \in Nat /\ 1 .. Last(1) = {}
<1>1. MaxUint64 \in Nat /\ n \in Nat /\ n # 0
  BY AuthorityAssumption
<1>2. NextCounter(n) = 0 => n = MaxUint64
  <2>1. NextCounter(n) = (n + 1) % (MaxUint64 + 1)
    BY DEF NextCounter
  <2>2. CASE n < MaxUint64
    <3>1. \A a, b \in Nat : 0 < a /\ a < b => a % b = a
      OBVIOUS
    <3>2. n + 1 \in Nat /\ MaxUint64 + 1 \in Nat /\ 0 < n + 1 /\ n + 1 < MaxUint64 + 1
      BY <1>1, <2>2
    <3> QED BY <1>1, <2>1, <3>1, <3>2
  <2> QED BY <1>1, <2>2
<1>3. NextCounter(n) = 0 \/ NextCounter(n) = n + 1
  BY NextIsGreater
<1>4. n + 1 # 0 /\ (n + 1) - 1 = n /\ 1 .. 0 = {}
  BY <1>1
<1> QED BY <1>1, <1>2, <1>3, <1>4 DEF Last

\* Entries of other actions do not count.
LEMMA AppendCounts ==
  ASSUME Control, ChainInv, AuditInv, RecordInv, LedgerInv, NEW p \in Proc,
         AppendEntry(p)
  PROVE  /\ LoggedSerials' = IF Cmd(p) = "issue"
                             THEN LoggedSerials \cup {cert[p].serial} ELSE LoggedSerials
         /\ \A revs : IsList(revs) /\ Matches(log, revs) =>
              IF Cmd(p) \in Revokes
              THEN Matches(log', Append(revs, Marshalled(Revocation(req[p]))))
              ELSE Matches(log', revs)
<1> DEFINE b == entry[p].body
<1>1. pc[p] = "append" /\ log' = Append(log, Piece(entry[p], TRUE, TRUE))
  BY DEF AppendEntry
<1>2. LoggedSerials' = IF b.action = "issue" THEN LoggedSerials \cup {b.serial}
                                            ELSE LoggedSerials
  BY <1>1, LoggedGrows DEF ChainInv, Piece
<1>8. ASSUME NEW revs, IsList(revs), Matches(log, revs)
      PROVE  IF b.action = "revoke"
             THEN Matches(log', Append(revs, Marshalled(RevocationOf(b))))
             ELSE Matches(log', revs)
  <2>1. PICK x : log' = Append(log, x) /\ x.entry.body = b
    BY <1>1 DEF Piece
  <2> HIDE DEF b
  <2>2. IsList(log)
    BY DEF ChainInv
  <2>3. IF x.entry.body.action = "revoke"
        THEN Matches(Append(log, x), Append(revs, Marshalled(RevocationOf(x.entry.body))))
        ELSE Matches(Append(log, x), revs)
    BY <1>8, <2>2, MatchesGrow
  <2> QED BY <2>1, <2>3
<1>3. Cmd(p) = "issue" => b.action = "issue" /\ b.serial = cert[p].serial
  <2>1. Cmd(p) = "issue" => b = IssueRecord(req[p].user, cert[p])
    BY <1>1 DEF AuditInv, AuditReady
  <2>2. /\ IssueRecord(req[p].user, cert[p]).action = "issue"
        /\ IssueRecord(req[p].user, cert[p]).serial = cert[p].serial
    BY Certificates
  <2> HIDE DEF b
  <2> QED BY <2>1, <2>2
<1>4. Cmd(p) \in Revokes => b.action = "revoke"
  BY <1>1 DEF RecordInv, RecordAt, Tells
<1>5. b.action = "issue" => Cmd(p) = "issue"
  BY <1>1, EntryAction
<1>6. b.action = "revoke" => /\ Cmd(p) \in Revokes
                             /\ RevocationOf(b) = Revocation(req[p])
  BY <1>1, EntryAction
<1> HIDE DEF b
<1>7. LoggedSerials' = IF Cmd(p) = "issue"
                       THEN LoggedSerials \cup {cert[p].serial} ELSE LoggedSerials
  BY <1>2, <1>3, <1>5
<1> QED BY <1>4, <1>6, <1>7, <1>8

\* Issue takes a serial, enters it and hands the certificate out; init starts at 1.
LEMMA IssueBooksNext ==
  ASSUME Control, Solo, ChainInv, TypeInv, Truncated, AuditInv, RecordInv, SetupInv, SerialInv,
         LedgerInv, Readable(log), IssueBooks, NEW p \in Proc, Step(p)
  PROVE  IssueBooks'
<1> USE DEF Control, Domains, Goto
<1> DEFINE n == cert[p].serial
           Settled == LoggedSerials = TakenSerials /\ GivenSerials = TakenSerials
<1>1. pc[p] # "idle" /\ req' = req /\ Cmd(p)' = Cmd(p) /\ CommandAt(p)
  <2>1. pc[p] # "idle"
    BY StepsRun DEF Resting
  <2>2. req' = req
    BY DEF Step, Exit, InitStat, OpenKey, OpenPub, OpenPolicy, files, locals,
       NextSerial, IssuedSerial, ReadRevocations, Verify, AuditVerify, RenderKRL,
       Create, Write, SealEntry, AppendEntry, Release, RuntimeErr, Findings
  <2> QED BY <2>1, <2>2 DEF Cmd
<1>2. IF Issuing(p) THEN IssueTally(p) ELSE Settled
  BY BooksOf
<1>3. SUFFICES (IF Issuing(p) THEN IssueTally(p) ELSE Settled)'
  BY BooksOf
<1>4. CASE Cmd(p) # "issue"
  <2>1. ~ Issuing(p) /\ ~ Issuing(p)' /\ Settled
    BY <1>1, <1>2, <1>4 DEF Issuing
  <2>2. LoggedSerials' = LoggedSerials
    <3>1. CASE AppendEntry(p)
      BY <1>4, <3>1, AppendCounts
    <3>2. CASE ~ AppendEntry(p)
      <4>1. log' = log
        BY <3>2 DEF Step, Exit, InitStat, OpenKey, OpenPub, OpenPolicy, files,
           NextSerial, IssuedSerial, ReadRevocations, Verify, AuditVerify,
           RenderKRL, Create, Write, SealEntry, Release, RuntimeErr, Findings
      <4> QED BY <4>1, LoggedStaysPut
    <3> QED BY <3>1, <3>2
  <2>3. GivenSerials' = GivenSerials
    <3>1. ~ Release(p)
      BY <1>1, <1>4 DEF Release, CommandAt
    <3>2. released' = released
      BY <3>1 DEF Step, Exit, InitStat, OpenKey, OpenPub, OpenPolicy, files,
         NextSerial, IssuedSerial, ReadRevocations, Verify, AuditVerify,
         RenderKRL, Create, Write, SealEntry, AppendEntry, RuntimeErr, Findings
    <3> QED BY <3>2 DEF GivenSerials
  <2>4. TakenSerials' = TakenSerials
    <3>1. ASSUME dir'["serial"] = dir["serial"] PROVE TakenSerials' = TakenSerials
      BY <3>1 DEF TakenSerials, Decodes, Content
    <3>2. CASE Create(p) /\ Head(writes[p]).file = "serial"
      <4>1. AtSerial(p) /\ pc[p] = "create"
        BY <1>4, <3>2, KeptWrites DEF Create
      <4>2. dir["serial"] = NoFile /\ dir'["serial"] = EmptyFile
        BY <3>2, <4>1 DEF AtSerial, Coming, Create, Files
      <4> QED BY <4>2 DEF TakenSerials, Decodes, NoFile, EmptyFile
    <3>3. CASE Write(p) /\ Head(writes[p]).file = "serial"
      <4>1. AtSerial(p) /\ pc[p] = "write" /\ Head(writes[p]) = SerialW
        BY <1>4, <3>3, KeptWrites DEF Write
      <4>2. dir["serial"] = EmptyFile /\ dir'["serial"] = File(1)
        <5>1. dir' = [dir EXCEPT ![Head(writes[p]).file] = File(Head(writes[p]).data)]
          BY <3>3, WriteAlone
        <5>2. dir["serial"] = EmptyFile
          BY <3>3, <4>1 DEF Truncated, TruncatedAt, Target
        <5> QED BY <3>3, <4>1, <5>1, <5>2 DEF Files, SerialW
      <4>3. 1 .. Last(1) = {}
        BY DEF Last
      <4> QED BY <4>2, <4>3 DEF TakenSerials, Decodes, Content, EmptyFile, File
    <3>4. CASE (Create(p) \/ Write(p)) /\ Head(writes[p]).file # "serial"
      BY <3>1, <3>4, WriteLeaves DEF Create, Files
    <3>5. CASE ~ (Create(p) \/ Write(p))
      <4>1. dir' = dir
        BY <3>5 DEF Step, Exit, InitStat, OpenKey, OpenPub, OpenPolicy, files,
           NextSerial, IssuedSerial, ReadRevocations, Verify, AuditVerify,
           RenderKRL, SealEntry, AppendEntry, Release, RuntimeErr, Findings
      <4> QED BY <3>1, <4>1
    <3> QED BY <3>2, <3>3, <3>4, <3>5
  <2> QED BY <2>1, <2>2, <2>3, <2>4
<1>5. CASE Cmd(p) = "issue" /\ pc[p] \notin Holding
  <2>1. UNCHANGED <<dir, log, released>> /\ Settled
    BY <1>2, <1>5, EarlierSteps DEF Issuing
  <2>2. /\ LoggedSerials' = LoggedSerials /\ GivenSerials' = GivenSerials
        /\ TakenSerials' = TakenSerials
    BY <2>1, LoggedStaysPut DEF GivenSerials, TakenSerials, Decodes, Content
  <2>3. CASE NextSerial(p)
    <3>1. PICK k : k = Content("serial")
      OBVIOUS
    <3>2. /\ cert'[p].serial = k /\ pc'[p] = "create"
          /\ Decodes("serial") /\ k # 0
      BY <2>3, <3>1 DEF NextSerial, Signed, Sign, SerialFileOK, Decodes, Content
    <3>3. TakenSerials = 1 .. k - 1
      BY <3>1, <3>2 DEF TakenSerials, Last
    <3> QED BY <2>1, <2>2, <3>2, <3>3 DEF IssueTally, Issuing, Holding, Settled
  <2>4. CASE pc'[p] \notin Holding
    BY <2>1, <2>2, <2>4 DEF Issuing
  <2>5. ~ (InitStat(p) \/ ReadRevocations(p) \/ RenderKRL(p))
    BY <1>1, <1>5 DEF InitStat, ReadRevocations, RenderKRL, CommandAt, Revokes
  <2> QED BY <1>5, <2>3, <2>4, <2>5, EarlierSteps
<1>6. CASE Cmd(p) = "issue" /\ pc[p] \in Holding
  <2>1. IssueTally(p) /\ n \in 1 .. MaxUint64
    BY <1>2, <1>6 DEF Issuing, TypeInv, TypeAt
  <2>2. CASE Create(p) \/ Write(p) \/ SealEntry(p)
    <3>1. /\ log' = log /\ released' = released /\ cert' = cert
          /\ pc[p] \in {"create", "write", "seal"}
      BY <2>2 DEF Create, Write, SealEntry, files, locals
    <3>2. pc'[p] \in {"write", "seal", "append"}
      <4>1. CASE Write(p)
        <5>1. Tail(writes[p]) = <<>>
          BY <1>6, <4>1, NextWrite DEF Write
        <5> QED BY <1>6, <4>1, <5>1 DEF Write, AfterWrites
      <4> QED BY <2>2, <4>1 DEF Create, SealEntry
    <3>3. LoggedSerials' = LoggedSerials /\ GivenSerials' = GivenSerials
      BY <3>1, LoggedStaysPut DEF GivenSerials
    <3> QED BY <1>1, <1>6, <2>1, <3>1, <3>2, <3>3 DEF Issuing, IssueTally, Holding
  <2>3. CASE AppendEntry(p)
    <3>1. /\ pc[p] = "append" /\ pc'[p] = "release" /\ dir' = dir
          /\ released' = released /\ cert' = cert
      BY <1>6, <2>3 DEF AppendEntry, AfterAppend, locals
    <3>2. PICK k : k = n
      OBVIOUS
    <3>3. LoggedSerials' = LoggedSerials \cup {k} /\ GivenSerials' = GivenSerials
      BY <1>6, <2>3, <3>1, <3>2, AppendCounts DEF GivenSerials
    <3>4. LoggedSerials = 1 .. k - 1 /\ GivenSerials = 1 .. k - 1
      BY <2>1, <3>1, <3>2 DEF IssueTally
    <3>5. (1 .. k - 1) \cup {k} = 1 .. k
      BY <2>1, <3>2, AuthorityAssumption
    <3>6. dir["serial"] = File(NextCounter(k))
      BY <1>6, <3>1, <3>2 DEF LedgerInv, LedgerAt, IssueLedger
    <3> QED BY <1>1, <1>6, <3>1, <3>2, <3>3, <3>4, <3>5, <3>6
            DEF Issuing, IssueTally, Holding
  <2>4. CASE Release(p)
    <3>1. /\ pc[p] = "release" /\ pc'[p] = "ExitOK" /\ dir' = dir /\ log' = log
          /\ released' = released \cup {cert[p]}
      BY <2>4 DEF Release
    <3>2. PICK k : k = n
      OBVIOUS
    <3>3. /\ LoggedSerials = 1 .. k /\ GivenSerials = 1 .. k - 1
          /\ dir["serial"] = File(NextCounter(k))
      BY <2>1, <3>1, <3>2 DEF IssueTally
    <3>4. LoggedSerials' = LoggedSerials /\ GivenSerials' = GivenSerials \cup {k}
      BY <3>1, <3>2, LoggedStaysPut DEF GivenSerials
    <3>5. (1 .. k - 1) \cup {k} = 1 .. k
      BY <2>1, <3>2, AuthorityAssumption
    <3>6. TakenSerials' = 1 .. k
      <4>1. Last(NextCounter(k)) = k
        BY <2>1, <3>2, LastTaken
      <4> QED BY <3>1, <3>3, <4>1 DEF TakenSerials, Decodes, Content, File
    <3>7. ~ Issuing(p)'
      BY <3>1 DEF Issuing, Holding
    <3> QED BY <3>3, <3>4, <3>5, <3>6, <3>7
  <2> QED BY <1>6, <2>2, <2>3, <2>4, HoldingSteps
<1> QED BY <1>4, <1>5, <1>6

\* Revoke writes the longer list, then the entry.
LEMMA RevokeBooksNext ==
  ASSUME InvalidIds = {}, Control, Solo, ChainInv, TypeInv, Truncated, AuditInv,
         RecordInv, SetupInv, LedgerInv, Readable(log), RevokeBooks, NEW p \in Proc, Step(p)
  PROVE  RevokeBooks'
<1> USE DEF Control, Domains, Goto
<1>1. pc[p] # "idle" /\ req' = req /\ Cmd(p)' = Cmd(p) /\ CommandAt(p)
  <2>1. pc[p] # "idle"
    BY StepsRun DEF Resting
  <2>2. req' = req
    BY DEF Step, Exit, InitStat, OpenKey, OpenPub, OpenPolicy, files, locals,
       NextSerial, IssuedSerial, ReadRevocations, Verify, AuditVerify, RenderKRL,
       Create, Write, SealEntry, AppendEntry, Release, RuntimeErr, Findings
  <2> QED BY <2>1, <2>2 DEF Cmd
<1>2. IF Revoking(p) THEN RevokeTally(p) ELSE Matches(log, Revs)
  BY BooksOf
<1>3. SUFFICES (IF Revoking(p) THEN RevokeTally(p) ELSE Matches(log, Revs))'
  BY BooksOf
<1>4. ~ AppendEntry(p) => log' = log
  BY DEF Step, Exit, InitStat, OpenKey, OpenPub, OpenPolicy, files,
     NextSerial, IssuedSerial, ReadRevocations, Verify, AuditVerify,
     RenderKRL, Create, Write, SealEntry, Release, RuntimeErr, Findings
<1>8. IsList(Revs)
  BY RevsAreList, SeqIsList
<1>5. CASE Cmd(p) \notin Revokes
  <2>1. ~ Revoking(p) /\ ~ Revoking(p)' /\ Matches(log, Revs)
    BY <1>1, <1>2, <1>5 DEF Revoking
  <2>2. Matches(log', Revs)
    <3>1. CASE AppendEntry(p)
      <4>1. PICK revs : revs = Revs
        OBVIOUS
      <4> QED BY <1>5, <1>8, <2>1, <3>1, <4>1, AppendCounts
    <3>2. CASE ~ AppendEntry(p)
      BY <1>4, <2>1, <3>2
    <3> QED BY <3>1, <3>2
  <2>3. dir'["revoked.json"] = dir["revoked.json"]
    <3>1. CASE Create(p) \/ Write(p)
      <4>1. Head(writes[p]).file # "revoked.json"
        BY <1>5, <3>1, KeptWrites DEF Create, Write
      <4> QED BY <3>1, <4>1, WriteLeaves DEF Create, Files
    <3>2. CASE ~ (Create(p) \/ Write(p))
      BY <3>2 DEF Step, Exit, InitStat, OpenKey, OpenPub, OpenPolicy, files,
         NextSerial, IssuedSerial, ReadRevocations, Verify, AuditVerify,
         RenderKRL, SealEntry, AppendEntry, Release, RuntimeErr, Findings
    <3> QED BY <3>1, <3>2
  <2>4. Revs' = Revs
    BY <2>3 DEF Revs
  <2> QED BY <2>1, <2>2, <2>4
<1>6. CASE Cmd(p) \in Revokes /\ pc[p] \notin Holding
  <2>1. UNCHANGED <<dir, log, released>> /\ Matches(log, Revs)
    BY <1>2, <1>6, EarlierSteps DEF Revoking
  <2>2. Revs' = Revs
    BY <2>1 DEF Revs
  <2>3. CASE ReadRevocations(p)
    <3>1. /\ pc'[p] = "create"
          /\ OutputOf(p)' = Append(Revs, Revocation(req[p]))
      BY <2>3, FaithfulJson DEF ReadRevocations, Revoke, Revs, OutputOf
    <3>2. Ahead(log', OutputOf(p)', Revocation(req[p]))
      BY <1>8, <2>1, <3>1 DEF Ahead
    <3> QED BY <1>1, <1>6, <3>1, <3>2 DEF RevokeTally, Revoking, Holding
  <2>4. CASE pc'[p] \notin Holding
    BY <2>1, <2>2, <2>4 DEF Revoking
  <2>5. ~ (InitStat(p) \/ NextSerial(p) \/ RenderKRL(p))
    BY <1>1, <1>6 DEF InitStat, NextSerial, RenderKRL, CommandAt, Revokes
  <2> QED BY <1>6, <2>3, <2>4, <2>5, EarlierSteps
<1>7. CASE Cmd(p) \in Revokes /\ pc[p] \in Holding
  <2>1. RevokeTally(p)
    BY <1>2, <1>7 DEF Revoking
  <2>2. CASE Create(p)
    <3>1. pc[p] = "create" /\ pc'[p] = "write" /\ writes'[p] = writes[p] /\ log' = log
      BY <1>4, <2>2 DEF Create, AppendEntry, locals
    <3> QED BY <1>1, <1>7, <2>1, <3>1 DEF Revoking, RevokeTally, Holding, OutputOf
  <2>3. CASE Write(p)
    <3>1. pc[p] = "write" /\ log' = log
      BY <1>4, <2>3 DEF Write, AppendEntry
    <3>2. /\ Head(writes[p]).file = "revoked.json" /\ Tail(writes[p]) = <<>>
          /\ Head(writes[p]).data = OutputOf(p)
      <4>1. PICK d : writes[p] = <<[file |-> OutputFile(Cmd(p)), data |-> d]>>
        BY <1>7, <3>1 DEF SetupInv, OutputAt, Revokes
      <4>2. Head(writes[p]).data = d /\ writes[p][1].data = d
        BY <4>1
      <4>3. Head(writes[p]).file = "revoked.json" /\ Tail(writes[p]) = <<>>
        BY <1>7, <3>1, NextWrite DEF OutputFile, Revokes
      <4> QED BY <4>2, <4>3 DEF OutputOf
    <3>3. pc'[p] = "seal" /\ dir'["revoked.json"] = File(OutputOf(p))
      <4>1. dir' = [dir EXCEPT ![Head(writes[p]).file] = File(Head(writes[p]).data)]
        BY <2>3, <3>2, WriteAlone
      <4>2. pc'[p] = "seal"
        BY <1>7, <2>3, <3>2 DEF Write, AfterWrites, Revokes
      <4> QED BY <3>2, <4>1, <4>2 DEF Files
    <3>4. Revs' = OutputOf(p)
      BY <3>3 DEF Revs, Revocations, File
    <3> QED BY <1>1, <1>7, <2>1, <3>1, <3>3, <3>4 DEF Revoking, RevokeTally, Holding
  <2>4. CASE SealEntry(p)
    <3>1. pc[p] = "seal" /\ pc'[p] = "append" /\ dir' = dir /\ log' = log
      BY <1>4, <2>4 DEF SealEntry, AppendEntry, files
    <3> QED BY <1>1, <1>7, <2>1, <3>1 DEF Revoking, RevokeTally, Holding, Revs
  <2>5. CASE AppendEntry(p)
    <3>1. pc[p] = "append" /\ pc'[p] = "ExitOK" /\ dir' = dir
      BY <1>7, <2>5 DEF AppendEntry, AfterAppend, Revokes
    <3>2. Revs' = Revs /\ Ahead(log, Revs, Revocation(req[p]))
      BY <2>1, <3>1 DEF RevokeTally, Revs
    <3>3. PICK revs : /\ IsList(revs) /\ Matches(log, revs)
                      /\ Revs = Append(revs, Revocation(req[p]))
      BY <3>2 DEF Ahead
    <3>4. Matches(log', Append(revs, Marshalled(Revocation(req[p]))))
      BY <1>7, <2>5, <3>3, AppendCounts
    <3>5. Matches(log', Revs')
      BY <3>2, <3>3, <3>4, FaithfulJson
    <3> QED BY <3>1, <3>5 DEF Revoking, Holding
  <2>6. ~ Release(p)
    BY <1>1, <1>7 DEF Release, CommandAt, Revokes
  <2> QED BY <1>7, <2>2, <2>3, <2>4, <2>5, <2>6, HoldingSteps
<1> QED BY <1>5, <1>6, <1>7

\* Every step keeps the books, unless a command is interrupted.
LEMMA BooksNext ==
  ASSUME InvalidIds = {}, LongIds = {}
  PROVE  Control /\ Solo /\ ChainInv /\ TypeInv /\ Truncated /\ AuditInv /\ RecordInv
           /\ SetupInv /\ SerialInv /\ LedgerInv /\ BooksInv /\ [Next]_vars => BooksInv'
<1> SUFFICES ASSUME Control, Solo, ChainInv, TypeInv, Truncated, AuditInv, RecordInv,
                    SetupInv, SerialInv, LedgerInv, BooksInv, [Next]_vars
             PROVE  BooksInv'
  OBVIOUS
<1>1. Once'
  BY OnceNext DEF BooksInv
<1>2. SUFFICES ASSUME Uninterrupted' PROVE Books'
  BY <1>1 DEF BooksInv
<1>3. Books /\ \A p \in Proc : ~ Stop(p)
  BY <1>2, StillUninterrupted DEF BooksInv
<1>4. WholeLog' /\ Readable(log)
  BY <1>3, WholeNext, WholeIsReadable DEF Books
<1>5. ASSUME NEW p \in Proc, Step(p) PROVE Books'
  <2>1. IssueBooks'
    BY <1>3, <1>4, <1>5, IssueBooksNext DEF Books
  <2>2. RevokeBooks'
    BY <1>3, <1>4, <1>5, RevokeBooksNext DEF Books
  <2> QED BY <1>4, <2>1, <2>2 DEF Books
<1>6. ASSUME NEW p \in Proc, Start(p) PROVE Books'
  <2>1. dir' = dir /\ log' = log /\ released' = released
    BY <1>6 DEF Start, files
  <2>2. pc[p] \notin Holding /\ pc'[p] \notin Holding
    <3>1. pc[p] = "idle" /\ pc'[p] \in FirstSteps
      BY <1>6, FirstStepIs DEF Start, Goto, Control, Domains
    <3> QED BY <3>1 DEF Holding, FirstSteps
  <2>3. ASSUME NEW q \in Proc, q # p
        PROVE  /\ pc'[q] = pc[q] /\ req'[q] = req[q]
               /\ cert'[q] = cert[q] /\ writes'[q] = writes[q]
    BY <1>6, <2>3, OthersUntouched DEF Untouched
  <2> QED BY <1>3, <1>4, <2>1, <2>2, <2>3, SameBooks DEF Books
<1>7. CASE EditPolicy \/ UNCHANGED vars
  <2>1. /\ log' = log /\ released' = released /\ pc' = pc /\ req' = req
        /\ cert' = cert /\ writes' = writes
    BY <1>7 DEF EditPolicy, vars, locals
  <2>2. \A f \in Kept : dir'[f] = dir[f]
    BY <1>7 DEF EditPolicy, vars, Kept, Control, Domains, Files
  <2> QED BY <1>3, <1>4, <2>1, <2>2, SameBooks DEF Books
<1> QED BY <1>3, <1>5, <1>6, <1>7 DEF Next, AllEnded

\* They are kept from the start.
LEMMA BooksAlways ==
  ASSUME Exclusive, InvalidIds = {}, LongIds = {} PROVE Spec => []BooksInv
<1>1. Init => BooksInv
  <2> SUFFICES ASSUME Init PROVE BooksInv
    OBVIOUS
  <2>1. /\ \A p \in Proc : ~ Issuing(p) /\ ~ Revoking(p)
        /\ released = {}
    BY DEF Init, Issuing, Revoking, Holding
  <2>2. WholeLog /\ \A action \in {"issue", "revoke"} : LoggedActions(action) = {}
    <3>1. CASE log = <<>>
      BY <3>1 DEF WholeLog, LoggedActions
    <3>2. CASE ProvisionedDir
      <4> DEFINE x == Piece(Seal(<<>>, InitRecord(Provisioner)), TRUE, TRUE)
      <4>1. log = <<x>> /\ x.entry.body.action = "init" /\ x.whole /\ x.newline
        BY <3>2 DEF ProvisionedDir, Piece, Seal, InitRecord, NoRecord
      <4> HIDE DEF x
      <4>2. DOMAIN log = {1} /\ log[1] = x /\ Record(1).action = "init"
        BY <4>1 DEF Record
      <4> QED BY <4>1, <4>2 DEF WholeLog, LoggedActions
    <3> QED BY <3>1, <3>2 DEF Init, FreshDir
  <2>3. LoggedSerials = {} /\ GivenSerials = {} /\ RevokesIn(log) = {}
    BY <2>1, <2>2 DEF LoggedSerials, GivenSerials, RevokesIn, LoggedActions, Record
  <2>4. TakenSerials = {}
    <3>1. dir["serial"] = NoFile \/ dir["serial"] = File(1)
      BY DEF Init, FreshDir, ProvisionedDir, Files
    <3>2. 1 .. Last(1) = {}
      BY DEF Last
    <3> QED BY <3>1, <3>2 DEF TakenSerials, Decodes, Content, NoFile, File
  <2>5. Matches(log, Revs)
    <3>1. dir["revoked.json"] = NoFile
      BY DEF Init, FreshDir, ProvisionedDir, Files
    <3>2. Revs = <<>>
      BY <3>1 DEF Revs, Revocations, NoFile
    <3>3. << >> \in [DOMAIN Revs -> RevokesIn(log)] /\ DOMAIN Revs = {}
      BY <3>2
    <3> QED BY <2>3, <3>3 DEF Matches
  <2> QED BY <2>1, <2>2, <2>3, <2>4, <2>5
          DEF BooksInv, Once, Books, IssueBooks, RevokeBooks
<1> QED BY <1>1, BooksNext, ControlAlways, OneAtATime, ChainAlways, TypeAlways,
           TruncatedAlways, AuditAlways, RecordAlways, SetupAlways, SerialAlways, LedgerAlways,
           PTL DEF Spec

\* The files tell one story (LedgersAgree of CertAuthority): issue and revoke
\* write two files each and runIssue a third, one after the other.  Between
\* commands, unless one was interrupted, every serial below the counter is on
\* one certificate and in one entry, which describes that certificate, and
\* revoked.json lists what the revoke entries say, in their order.
THEOREM BooksAgree ==
  ASSUME Exclusive, InvalidIds = {}, LongIds = {} PROVE Spec => []LedgersAgree
<1>1. AuditInv /\ BooksInv => LedgersAgree
  <2> SUFFICES ASSUME AuditInv, BooksInv, Running = {}, Uninterrupted, Decodes("serial")
               PROVE  /\ GivenSerials = SerialsBelow(Content("serial"))
                      /\ Once
                      /\ \A c \in released : \E i \in LoggedActions("issue") :
                           Record(i) = IssueRecord(Record(i).user, c)
                      /\ \A i \in LoggedActions("issue") : \E c \in released :
                           Record(i) = IssueRecord(Record(i).user, c)
                      /\ IsRevokeEntries(Revs)
    BY DEF LedgersAgree, GivenSerials, Once, Revs
  <2>1. \A p \in Proc : ~ Issuing(p) /\ ~ Revoking(p)
    BY DEF Running, Issuing, Revoking, Holding, Ended
  <2>2. /\ GivenSerials = SerialsBelow(Content("serial")) /\ LoggedSerials = GivenSerials
        /\ Matches(log, Revs)
    BY <2>1 DEF BooksInv, Books, IssueBooks, RevokeBooks, TakenSerials, Last, SerialsBelow
  <2>3. Once
    BY DEF BooksInv
  <2>4. ASSUME NEW c \in released
        PROVE  \E i \in LoggedActions("issue") : /\ Record(i) = IssueRecord(Record(i).user, c)
                                                 /\ Record(i).serial = c.serial
    <3>1. PICK i \in DOMAIN log : Record(i) = IssueRecord(Record(i).user, c)
      BY DEF AuditInv, LoggedIn, Record
    <3>2. \A u : IssueRecord(u, c).action = "issue" /\ IssueRecord(u, c).serial = c.serial
      BY Certificates
    <3>3. Record(i).action = "issue" /\ Record(i).serial = c.serial
      BY <3>1, <3>2
    <3> QED BY <3>1, <3>3 DEF LoggedActions
  <2>5. ASSUME NEW i \in LoggedActions("issue")
        PROVE  \E c \in released : Record(i) = IssueRecord(Record(i).user, c)
    <3>1. PICK c \in released : c.serial = Record(i).serial
      BY <2>2 DEF LoggedSerials, GivenSerials
    <3>2. PICK j \in LoggedActions("issue") : /\ Record(j) = IssueRecord(Record(j).user, c)
                                              /\ Record(j).serial = c.serial
      BY <2>4
    <3>3. i = j
      BY <2>3, <3>1, <3>2 DEF Once
    <3> QED BY <3>2, <3>3
  <2>6. IsRevokeEntries(Revs)
    BY <2>2 DEF IsRevokeEntries, Matches, RevokesIn, LoggedActions, Record
  <2> QED BY <2>2, <2>3, <2>4, <2>5, <2>6
<1> QED BY <1>1, BooksAlways, AuditAlways, PTL

=============================================================================
