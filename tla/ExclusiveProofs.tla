--------------------------- MODULE ExclusiveProofs ---------------------------
(***************************************************************************)
(* What holds when commands do not overlap, for every number of commands,  *)
(* every request, and commands killed anywhere.                            *)
(***************************************************************************)
EXTENDS CertAuthorityProofs

-----------------------------------------------------------------------------
\* At most one command is between its first file access and its last.

Resting == {"idle"} \cup Ended
Solo == \A p, q \in Proc : pc[p] \notin Resting /\ pc[q] \notin Resting => p = q

\* The steps of a command are taken while it runs.
LEMMA StepsRun ==
  ASSUME NEW p \in Proc, Step(p) \/ Stop(p)
  PROVE  pc[p] \notin Resting
<1> USE DEF Resting, Ended
<1>1. CASE Stop(p)
  BY <1>1 DEF Stop, Running
<1>2. CASE Step(p)
  BY <1>2 DEF Step, InitStat, OpenKey, OpenPub, OpenPolicy, NextSerial,
     IssuedSerial, ReadRevocations, Verify, AuditVerify, RenderKRL, Create,
     Write, SealEntry, AppendEntry, Release, RuntimeErr, Broken, Findings,
     Negative
<1> QED BY <1>1, <1>2

\* The local variables of p stay as they are.
Untouched(p) ==
  /\ pc'[p] = pc[p] /\ req'[p] = req[p] /\ pair'[p] = pair[p]
  /\ cert'[p] = cert[p] /\ writes'[p] = writes[p] /\ body'[p] = body[p]
  /\ entry'[p] = entry[p] /\ before'[p] = before[p]

\* A step of one process leaves the locals of the others alone.
LEMMA OthersUntouched ==
  ASSUME Control, NEW p \in Proc, NEW q \in Proc, q # p,
         Start(q) \/ Step(q) \/ Stop(q)
  PROVE  Untouched(p)
<1> USE DEF Control, Domains, files, locals, Goto, Untouched
<1>1. CASE Start(q) BY <1>1 DEF Start
<1>2. CASE Stop(q) BY <1>2 DEF Stop
<1>3. CASE Step(q)
  <2>1. pc'[p] = pc[p] /\ req'[p] = req[p]
    BY <1>3 DEF Step, Exit, InitStat, OpenKey, OpenPub, OpenPolicy,
       NextSerial, IssuedSerial, ReadRevocations, Verify, AuditVerify, RenderKRL,
       Create, Write, SealEntry, AppendEntry, Release, RuntimeErr, Findings
  <2>2. pair'[p] = pair[p]
    <3>1. CASE InitStat(q) BY <3>1 DEF InitStat
    <3>2. CASE OpenKey(q) BY <3>2 DEF OpenKey
    <3>3. CASE OpenPub(q) BY <3>3 DEF OpenPub
    <3>4. CASE ~ (InitStat(q) \/ OpenKey(q) \/ OpenPub(q))
      <4>1. pair' = pair
        BY <1>3, <3>4 DEF Step, Exit, OpenPolicy, NextSerial,
           IssuedSerial, ReadRevocations, Verify, AuditVerify, RenderKRL, Create,
           Write, SealEntry, AppendEntry, Release, RuntimeErr, Findings
      <4> QED BY <4>1
    <3> QED BY <3>1, <3>2, <3>3, <3>4
  <2>5. before' = before
    BY <1>3 DEF Step, Exit, InitStat, OpenKey, OpenPub, OpenPolicy,
       NextSerial, IssuedSerial, ReadRevocations, Verify, AuditVerify, RenderKRL,
       Create, Write, SealEntry, AppendEntry, Release, RuntimeErr, Findings
  <2>3. cert'[p] = cert[p] /\ writes'[p] = writes[p]
    BY <1>3 DEF Step, Exit, InitStat, OpenKey, OpenPub, OpenPolicy,
       NextSerial, IssuedSerial, ReadRevocations, Verify, AuditVerify, RenderKRL,
       Create, Write, SealEntry, AppendEntry, Release, RuntimeErr, Findings
  <2>4. body'[p] = body[p] /\ entry'[p] = entry[p]
    BY <1>3 DEF Step, Exit, InitStat, OpenKey, OpenPub, OpenPolicy,
       NextSerial, IssuedSerial, ReadRevocations, Verify, AuditVerify, RenderKRL,
       Create, Write, SealEntry, AppendEntry, Release, RuntimeErr, Findings
  <2> QED BY <2>1, <2>2, <2>3, <2>4, <2>5
<1> QED BY <1>1, <1>2, <1>3

\* What a process whose local variables do not change can see of a step: its own
\* stutter, the operator's editor, a command starting, or, when it rests, a step
\* of the command that runs.
LEMMA StepCases ==
  ASSUME Control, Solo, [Next]_vars, NEW p \in Proc
  PROVE  \/ Start(p) \/ Step(p) \/ Stop(p)
         \/ Untouched(p) /\ UNCHANGED <<log, released>> /\ EditPolicy
         \/ Untouched(p) /\ UNCHANGED <<dir, log, released>>
         \/ /\ Untouched(p) /\ pc[p] \in Resting
            /\ \E q \in Proc \ {p} : Step(q) \/ Stop(q)
<1>1. CASE EditPolicy
  BY <1>1 DEF EditPolicy, locals, Untouched
<1>2. CASE UNCHANGED vars
  BY <1>2 DEF vars, Untouched
<1>3. ASSUME NEW q \in Proc, q # p, Start(q)
      PROVE  Untouched(p) /\ UNCHANGED <<dir, log, released>>
  BY <1>3, OthersUntouched DEF Start, files
<1>4. ASSUME NEW q \in Proc, q # p, Step(q) \/ Stop(q)
      PROVE  Untouched(p) /\ pc[p] \in Resting
  BY <1>4, OthersUntouched, StepsRun DEF Solo
<1> QED BY <1>1, <1>2, <1>3, <1>4 DEF Next, AllEnded

\* Start waits until no other command runs.
LEMMA SoloNext == Exclusive /\ Control /\ Solo /\ [Next]_vars => Solo'
<1> SUFFICES ASSUME Exclusive, Control, Solo, [Next]_vars PROVE Solo'
  OBVIOUS
<1> USE DEF Control, Domains, Goto
<1>1. ASSUME NEW p \in Proc, Start(p) PROVE Solo'
  <2>1. Running = {}
    BY <1>1 DEF Start
  <2>2. \A q \in Proc : pc[q] \in Resting
    BY <2>1 DEF Running, Resting
  <2>3. \A q \in Proc : q # p => pc'[q] \in Resting
    BY <1>1, <2>2 DEF Start
  <2> QED BY <2>3 DEF Solo
<1>2. ASSUME NEW p \in Proc, Step(p) \/ Stop(p) PROVE Solo'
  <2>1. \A q \in Proc : q # p => pc'[q] = pc[q] /\ pc[q] \in Resting
    BY <1>2, OthersUntouched, StepsRun DEF Solo, Untouched
  <2> QED BY <2>1 DEF Solo
<1>3. CASE EditPolicy \/ UNCHANGED vars
  BY <1>3 DEF EditPolicy, vars, Solo
<1> QED BY <1>1, <1>2, <1>3 DEF Next, AllEnded

\* Commands run one at a time (Start's guard, over whole executions).
THEOREM OneAtATime == ASSUME Exclusive PROVE Spec => []Solo
<1>1. Init => Solo
  BY DEF Init, Solo, Resting
<1> QED BY <1>1, SoloNext, ControlAlways, PTL DEF Spec

\* Only os.WriteFile and the operator's editor change files.
LEMMA DirStep ==
  ASSUME [Next]_vars
  PROVE  dir' = dir \/ EditPolicy \/ \E p \in Proc : Create(p) \/ Write(p)
BY DEF Next, Start, Step, Stop, AllEnded, vars, files, Exit, InitStat, OpenKey,
   OpenPub, OpenPolicy, NextSerial, IssuedSerial, ReadRevocations, Verify,
   AuditVerify, RenderKRL, SealEntry, AppendEntry, Release, RuntimeErr, Findings

\* What a command writes, it has truncated, and nobody has written since.  (The
\* operator's editor may have saved policy.json in between.)
Target(p) == Head(writes[p]).file
TruncatedAt(p) ==
  pc[p] = "write" /\ Target(p) # "policy.json" => dir[Target(p)] = EmptyFile
Truncated == \A p \in Proc : TruncatedAt(p)

LEMMA TruncatedNext ==
  Control /\ Solo /\ TypeInv /\ Truncated /\ [Next]_vars => Truncated'
<1> SUFFICES ASSUME Control, Solo, TypeInv, Truncated, [Next]_vars, NEW p \in Proc
             PROVE  TruncatedAt(p)'
  BY DEF Truncated
<1> USE DEF Control, Domains, files, locals, Goto, Truncated, TruncatedAt, Target
<1>5. pc[p] \in {"create", "write"} => Target(p) \in Files
  BY TailList DEF TypeInv, TypeAt, Pending
<1>1. CASE Untouched(p) /\ (UNCHANGED dir \/ EditPolicy)
  <2>1. \A f \in Files : f # "policy.json" => dir'[f] = dir[f]
    BY <1>1 DEF EditPolicy
  <2>2. pc'[p] = pc[p] /\ Target(p)' = Target(p)
    BY <1>1 DEF Untouched
  <2> QED BY <1>5, <2>1, <2>2
<1>2. CASE Untouched(p) /\ pc[p] \in Resting
  BY <1>2 DEF Untouched, Resting, Ended
<1>3. CASE Start(p) \/ Stop(p)
  <2>1. pc'[p] \in FirstSteps \cup {"Killed"}
    BY <1>3, FirstStepIs DEF Start, Stop
  <2> QED BY <2>1 DEF FirstSteps
<1>4. CASE Step(p)
  <2>1. CASE Create(p)
    <3>1. Target(p)' = Target(p) /\ pc[p] = "create"
          /\ dir' = [dir EXCEPT ![Target(p)] = EmptyFile]
      BY <2>1 DEF Create
    <3> QED BY <1>5, <3>1
  <2>2. CASE ~ Create(p)
    <3>1. pc'[p] # "write"
      <4>1. CASE OpenPolicy(p)
        BY <4>1, RequestsAssumption DEF OpenPolicy, AfterOpen, CommandAt, Cmd
      <4>2. CASE InitStat(p) \/ OpenKey(p) \/ OpenPub(p) \/ NextSerial(p)
        BY <4>2 DEF InitStat, OpenKey, OpenPub, NextSerial
      <4>3. CASE IssuedSerial(p) \/ ReadRevocations(p) \/ Verify(p)
        BY <4>3 DEF IssuedSerial, ReadRevocations, Verify, Exit
      <4>4. CASE AuditVerify(p) \/ RenderKRL(p) \/ Release(p)
        BY <4>4 DEF AuditVerify, RenderKRL, Release, Exit
      <4>5. CASE Write(p)
        BY <4>5 DEF Write, AfterWrites
      <4>6. CASE SealEntry(p) \/ AppendEntry(p) \/ RuntimeErr(p) \/ Findings(p)
        BY <4>6 DEF SealEntry, AppendEntry, AfterAppend, RuntimeErr, Findings, Exit
      <4> QED BY <1>4, <2>2, <4>1, <4>2, <4>3, <4>4, <4>5, <4>6 DEF Step
    <3> QED BY <3>1
  <2> QED BY <2>1, <2>2
<1> QED BY <1>1, <1>2, <1>3, <1>4, StepCases

\* So the write leaves its own data and no tail of another's (Overwritten).
LEMMA WriteAlone ==
  ASSUME Truncated, NEW p \in Proc, Write(p), Head(writes[p]).file # "policy.json"
  PROVE  dir' = [dir EXCEPT ![Head(writes[p]).file] = File(Head(writes[p]).data)]
<1>1. pc[p] = "write"
  BY DEF Write
<1>2. dir[Head(writes[p]).file] = EmptyFile
  BY <1>1 DEF Truncated, TruncatedAt, Target
<1>3. Overwritten(EmptyFile, Head(writes[p]).data) = {File(Head(writes[p]).data)}
  BY DEF Overwritten, EmptyFile
<1> QED BY <1>2, <1>3 DEF Write

\* os.WriteFile truncates before it writes.
THEOREM TruncatedAlways == ASSUME Exclusive PROVE Spec => []Truncated
<1>1. Init => Truncated
  BY DEF Init, Truncated, TruncatedAt
<1> QED BY <1>1, TruncatedNext, OneAtATime, ControlAlways, TypeAlways, PTL
        DEF Spec

-----------------------------------------------------------------------------
\* The CA key.  Whoever is about to write ca.key is the init that found none.

KeyAt(p) ==
  pc[p] \in {"create", "write"} =>
    \/ writes[p] = InitWrites(p) /\ ~ Decodes("ca.key")
    \/ \A i \in DOMAIN writes[p] : writes[p][i].file # "ca.key"

KeyInv == \A p \in Proc : KeyAt(p)

\* What Init writes after ca.key.
LEMMA InitWritesTail ==
  ASSUME NEW p
  PROVE  /\ Head(InitWrites(p)).file = "ca.key"
         /\ \A i \in DOMAIN Tail(InitWrites(p)) :
              Tail(InitWrites(p))[i].file # "ca.key"
<1> DEFINE s == InitWrites(p)
<1>1. /\ DOMAIN s = 1 .. 4 /\ s[1].file = "ca.key"
      /\ s[2].file # "ca.key" /\ s[3].file # "ca.key" /\ s[4].file # "ca.key"
  BY DEF InitWrites
<1>2. IsList(s) /\ s # <<>>
  <2> DEFINE S == {s[i] : i \in 1 .. 4}
  <2>1. s \in Seq(S)
    BY DEF InitWrites
  <2> QED BY <1>1, <2>1, SeqIsList
<1> HIDE DEF s
<1>3. \A i \in 2 .. 4 : s[i].file # "ca.key"
  BY <1>1
<1> QED BY <1>1, <1>2, <1>3, TailList DEF s

\* Between Stat and the write of ca.key nobody else writes it.
LEMMA KeyNext ==
  Control /\ Solo /\ TypeInv /\ KeyInv /\ [Next]_vars => KeyInv'
<1> SUFFICES ASSUME Control, Solo, TypeInv, KeyInv, [Next]_vars, NEW p \in Proc
             PROVE  KeyAt(p)'
  BY DEF KeyInv
<1> USE DEF Control, Domains, files, locals, Goto, KeyInv
<1>1. CASE Untouched(p) /\ (UNCHANGED dir \/ EditPolicy)
  <2>1. dir'["ca.key"] = dir["ca.key"]
    BY <1>1 DEF EditPolicy, Files
  <2> QED BY <1>1, <2>1 DEF KeyAt, Decodes, Untouched
<1>2. CASE Untouched(p) /\ pc[p] \in Resting
  BY <1>2 DEF KeyAt, Untouched, Resting, Ended
<1>3. CASE Start(p) \/ Stop(p)
  <2>1. pc'[p] \in FirstSteps \cup {"Killed"}
    BY <1>3, FirstStepIs DEF Start, Stop
  <2> QED BY <2>1 DEF KeyAt, FirstSteps
<1>4. CASE Step(p)
  <2>1. CASE InitStat(p)
    BY <2>1 DEF InitStat, MayInit, KeyAt, Decodes, NoFile
  <2>2. CASE NextSerial(p) BY <2>2 DEF NextSerial, KeyAt
  <2>3. CASE ReadRevocations(p) BY <2>3 DEF ReadRevocations, KeyAt
  <2>4. CASE RenderKRL(p) BY <2>4 DEF RenderKRL, KeyAt
  <2>5. CASE Create(p)
    <3>1. dir'["ca.key"] = EmptyFile \/ dir'["ca.key"] = dir["ca.key"]
      BY <2>5 DEF Create, Files
    <3> QED BY <2>5, <3>1 DEF Create, KeyAt, Decodes, EmptyFile
  <2>6. CASE Write(p)
    <3>1. Pending(writes[p])
      BY <2>6 DEF Write, TypeInv, TypeAt
    <3>2. \A i \in DOMAIN Tail(writes[p]) :
            i + 1 \in DOMAIN writes[p] /\ Tail(writes[p])[i] = writes[p][i + 1]
      BY <3>1, TailList DEF Pending
    <3>3. \A i \in DOMAIN Tail(writes[p]) : Tail(writes[p])[i].file # "ca.key"
      BY <2>6, <3>2, InitWritesTail DEF Write, KeyAt
    <3> QED BY <2>6, <3>3 DEF Write, KeyAt
  <2>7. CASE OpenPolicy(p)
    BY <2>7, RequestsAssumption DEF OpenPolicy, AfterOpen, CommandAt, Cmd, KeyAt
  <2>8. CASE \/ OpenKey(p) \/ OpenPub(p) \/ IssuedSerial(p) \/ Verify(p)
             \/ AuditVerify(p) \/ SealEntry(p) \/ AppendEntry(p) \/ Release(p)
             \/ RuntimeErr(p) \/ Findings(p)
    BY <2>8 DEF OpenKey, OpenPub, IssuedSerial, Verify, AuditVerify, SealEntry,
       AppendEntry, AfterAppend, Release, RuntimeErr, Findings, Exit, KeyAt
  <2> QED BY <1>4, <2>1, <2>2, <2>3, <2>4, <2>5, <2>6, <2>7, <2>8 DEF Step
<1> QED BY <1>1, <1>2, <1>3, <1>4, StepCases

\* The key is kept (KeyStable of CertAuthority): Init's os.Stat is not part of
\* the write that follows, yet no command replaces a key once commands run one
\* at a time, however many of them are killed half way.
THEOREM KeyIsKept == ASSUME Exclusive PROVE Spec => KeyStable
<1>1. Init => KeyInv
  BY DEF Init, KeyInv, KeyAt
<1>2. Control /\ TypeInv /\ KeyInv /\ [Next]_vars
        => [Decodes("ca.key") => dir'["ca.key"] = dir["ca.key"]]_vars
  <2> SUFFICES ASSUME Control, TypeInv, KeyInv, [Next]_vars, Decodes("ca.key")
               PROVE  dir'["ca.key"] = dir["ca.key"]
    OBVIOUS
  <2> USE DEF Control, Domains
  <2>1. CASE EditPolicy
    BY <2>1 DEF EditPolicy, Files
  <2>2. ASSUME NEW p \in Proc, Create(p) \/ Write(p)
        PROVE  dir'["ca.key"] = dir["ca.key"]
    <3>1. pc[p] \in {"create", "write"}
      BY <2>2 DEF Create, Write
    <3>2. Head(writes[p]) = writes[p][1] /\ 1 \in DOMAIN writes[p]
      BY <3>1, TailList DEF TypeInv, TypeAt, Pending
    <3>3. Head(writes[p]).file # "ca.key"
      BY <3>1, <3>2 DEF KeyInv, KeyAt
    <3> QED BY <2>2, <3>3 DEF Create, Write, Files
  <2> QED BY <2>1, <2>2, DirStep
<1> QED BY <1>1, <1>2, KeyNext, OneAtATime, ControlAlways, TypeAlways, PTL
        DEF Spec, KeyStable

-----------------------------------------------------------------------------
\* Revocations.  The record a revoke appends says what it has revoked.

Tells(b, r) == b.action = "revoke" /\ RevocationOf(b) = Revocation(r)

RecordAt(p) ==
  /\ pc[p] = "idle" => body[p] = NoRecord
  /\ pc[p] # "idle" /\ Cmd(p) \notin Revokes => body[p].action # "revoke"
  /\ pc[p] \in {"create", "write", "seal", "append"} /\ Cmd(p) \in Revokes =>
       Tells(body[p], req[p])
  /\ pc[p] = "Revocations" /\ Cmd(p) = "revokeSerial" => Tells(body[p], req[p])
  /\ pc[p] = "append" => entry[p].body = body[p]

RecordInv == \A p \in Proc : RecordAt(p)

\* issuedSerial returns an entry with the serial it looked for.
LEMMA FirstIssueSerial ==
  ASSUME IsList(log), NEW n, WasIssued(Entries(log), n)
  PROVE  FirstIssue(Entries(log), n).serial = n
<1> DEFINE at == IssueEntries(Entries(log), n)
<1>1. DOMAIN Entries(log) = 1 .. Len(log) /\ Len(log) \in Nat
  BY EntriesOfLog, ListDomain
<1>2. at \subseteq Nat /\ at # {}
  BY <1>1 DEF WasIssued, IssueEntries
<1>3. \E i \in at : \A j \in at : i <= j
  BY <1>2, LeastNumber
<1>4. (CHOOSE i \in at : \A j \in at : i <= j) \in at
  BY <1>3
<1> QED BY <1>4 DEF FirstIssue, IssueEntries

\* Each record is made by its own command and kept until it is appended.
LEMMA RecordNext == Control /\ ChainInv /\ RecordInv /\ [Next]_vars => RecordInv'
<1> SUFFICES ASSUME Control, ChainInv, RecordInv, [Next]_vars, NEW p \in Proc
             PROVE  RecordAt(p)'
  BY DEF RecordInv
<1> USE DEF Control, Domains, files, locals, Goto, RecordInv
<1>1. CASE Untouched(p)
  BY <1>1 DEF Untouched, RecordAt, Cmd
<1>2. ASSUME NEW q \in Proc, q # p, Start(q) \/ Step(q) \/ Stop(q)
      PROVE  Untouched(p)
  BY <1>2, OthersUntouched
<1>3. CASE Start(p)
  <2>1. pc'[p] \in FirstSteps /\ body'[p] = NoRecord
    BY <1>3, FirstStepIs DEF Start, RecordAt
  <2>2. NoRecord.action # "revoke"
    BY DEF NoRecord
  <2> QED BY <2>1, <2>2 DEF FirstSteps, RecordAt
<1>4. CASE Stop(p)
  BY <1>4 DEF Stop, Running, RecordAt, Cmd
<1>5. CASE Step(p)
  <2> USE DEF RecordAt, CommandAt, Cmd, Revokes
  <2>1. CASE InitStat(p) BY <2>1 DEF InitStat, InitRecord, NoRecord
  <2>2. CASE OpenKey(p) BY <2>2 DEF OpenKey
  <2>3. CASE OpenPub(p) BY <2>3 DEF OpenPub
  <2>4. CASE OpenPolicy(p)
    BY <2>4, RequestsAssumption DEF OpenPolicy, AfterOpen
  <2>5. CASE NextSerial(p) BY <2>5 DEF NextSerial, IssueRecord
  <2>6. CASE IssuedSerial(p)
    <3> DEFINE issued == FirstIssue(Entries(log), req[p].serial)
    <3>1. issued.serial = req[p].serial
      BY <2>6, FirstIssueSerial DEF IssuedSerial, IssuedOK, ChainInv
    <3>2. req[p].serial # 0 /\ req[p].cmd = "revokeSerial"
      BY <2>6, RequestsAssumption, AuthorityAssumption DEF IssuedSerial
    <3> HIDE DEF issued
    <3>3. Tells(RevokeSerialRecord(issued), req[p])
      BY <3>1, <3>2
      DEF Tells, RevokeSerialRecord, NoRecord, RevocationOf, Revocation
    <3>4. body'[p] = RevokeSerialRecord(issued) /\ req' = req
          /\ pc'[p] = "Revocations"
      BY <2>6 DEF IssuedSerial, issued
    <3> QED BY <3>2, <3>3, <3>4
  <2>7. CASE ReadRevocations(p)
    <3>1. Cmd(p) \in Revokes /\ req' = req /\ pc'[p] = "create"
      BY <2>7 DEF ReadRevocations
    <3>2. CASE Cmd(p) = "revokeKeyID"
      <4>1. body'[p] = RevokeKeyIDRecord(req[p].keyID)
        BY <2>7, <3>2 DEF ReadRevocations
      <4>2. Tells(RevokeKeyIDRecord(req[p].keyID), req[p])
        BY <3>2 DEF Tells, RevokeKeyIDRecord, NoRecord, RevocationOf, Revocation
      <4> QED BY <3>1, <4>1, <4>2
    <3>3. CASE Cmd(p) = "revokeSerial"
      <4>1. body' = body /\ Tells(body[p], req[p])
        BY <2>7, <3>3 DEF ReadRevocations
      <4> QED BY <3>1, <4>1
    <3> QED BY <3>1, <3>2, <3>3
  <2>8. CASE Create(p) BY <2>8 DEF Create
  <2>9. CASE Write(p) BY <2>9 DEF Write, AfterWrites
  <2>10. CASE SealEntry(p) BY <2>10 DEF SealEntry, Seal
  <2>11. CASE AppendEntry(p) BY <2>11 DEF AppendEntry, AfterAppend
  <2>12. CASE \/ Release(p) \/ Verify(p) \/ AuditVerify(p)
    BY <2>12 DEF Release, Verify, AuditVerify, Exit
  <2>13. CASE RuntimeErr(p) \/ Findings(p)
    <3>1. pc[p] # "idle"
      BY <2>13, StepsRun DEF Step, Resting
    <3> QED BY <2>13, <3>1 DEF RuntimeErr, Findings, Exit
  <2>14. CASE RenderKRL(p) BY <2>14 DEF RenderKRL
  <2> QED BY <1>5, <2>1, <2>2, <2>3, <2>4, <2>5, <2>6, <2>7, <2>8, <2>9, <2>10,
             <2>11, <2>12, <2>13, <2>14 DEF Step
<1>6. CASE EditPolicy \/ UNCHANGED vars
  BY <1>1, <1>6 DEF EditPolicy, vars, Untouched
<1> QED BY <1>1, <1>2, <1>3, <1>4, <1>5, <1>6 DEF Next, AllEnded

-----------------------------------------------------------------------------
\* A revocation is promised once its command has succeeded or its entry is in
\* the log.

Listed(revs, rev) == \E i \in DOMAIN revs : revs[i] = rev

Promised(rev) ==
  \/ \E p \in Proc : Succeeded(p, Revokes) /\ rev = Revocation(req[p])
  \/ \E i \in DOMAIN log : /\ Record(i).action = "revoke"
                           /\ rev = RevocationOf(Record(i))

\* p is to write a list with its own revocation and all that are promised.
Carries(p) ==
  \E d : /\ writes[p] = <<[file |-> "revoked.json", data |-> d]>>
         /\ Listed(d, Revocation(req[p]))
         /\ \A rev : Promised(rev) => Listed(d, rev)

PromiseAt(p) ==
  /\ pc[p] \in {"create", "write"} /\ Cmd(p) \in Revokes => Carries(p)
  /\ pc[p] \in {"create", "write"} /\ Cmd(p) \notin Revokes =>
       \A i \in DOMAIN writes[p] : writes[p][i].file # "revoked.json"
  /\ pc[p] \in {"seal", "append"} /\ Cmd(p) \in Revokes =>
       InForce(Revocation(req[p]))

PromiseInv ==
  /\ \A rev : Promised(rev) => InForce(rev)
  /\ \A p \in Proc : PromiseAt(p)

\* The steps that end a command with success.
LEMMA NewSuccess ==
  ASSUME Control, [Next]_vars, NEW p \in Proc, pc'[p] = "ExitOK"
  PROVE  /\ pc[p] # "idle" /\ req'[p] = req[p]
         /\ \/ pc[p] = "ExitOK"
            \/ Verify(p) /\ Cmd(p) = "verify"
            \/ AuditVerify(p) /\ Cmd(p) = "audit"
            \/ Write(p) /\ Cmd(p) = "krl"
            \/ AppendEntry(p) /\ Cmd(p) \in {"init"} \cup Revokes
            \/ Release(p) /\ Cmd(p) = "issue"
<1> USE DEF Control, Domains, files, locals, Goto
<1>1. ASSUME NEW q \in Proc, q # p, Start(q) \/ Step(q) \/ Stop(q)
      PROVE  pc'[p] = pc[p] /\ req'[p] = req[p]
  BY <1>1, OthersUntouched DEF Untouched
<1>2. CASE EditPolicy \/ UNCHANGED vars
  BY <1>2 DEF EditPolicy, vars
<1>3. CASE Start(p) \/ Stop(p)
  <2>1. pc'[p] \in FirstSteps \cup {"Killed"}
    BY <1>3, FirstStepIs DEF Start, Stop
  <2> QED BY <2>1 DEF FirstSteps
<1>4. CASE Step(p)
  <2>1. req' = req /\ pc[p] # "idle"
    BY <1>4, StepsRun
    DEF Step, Exit, InitStat, OpenKey, OpenPub, OpenPolicy, NextSerial,
       IssuedSerial, ReadRevocations, Verify, AuditVerify, RenderKRL, Create,
       Write, SealEntry, AppendEntry, Release, RuntimeErr, Findings, Resting
  <2>2. CASE AppendEntry(p)
    BY <2>1, <2>2 DEF AppendEntry, AfterAppend, CommandAt
  <2>3. CASE Write(p)
    BY <2>1, <2>3 DEF Write, AfterWrites
  <2>4. CASE Verify(p) \/ AuditVerify(p) \/ Release(p)
    BY <2>1, <2>4 DEF Verify, AuditVerify, Release, CommandAt
  <2>5. CASE OpenPolicy(p)
    BY <2>5, RequestsAssumption DEF OpenPolicy, AfterOpen, CommandAt, Cmd
  <2>6. CASE \/ InitStat(p) \/ OpenKey(p) \/ OpenPub(p) \/ NextSerial(p)
             \/ IssuedSerial(p) \/ ReadRevocations(p) \/ RenderKRL(p)
             \/ Create(p) \/ SealEntry(p) \/ RuntimeErr(p) \/ Findings(p)
    BY <2>6 DEF InitStat, OpenKey, OpenPub, NextSerial, IssuedSerial,
       ReadRevocations, RenderKRL, Create, SealEntry, RuntimeErr, Findings, Exit
  <2> QED BY <1>4, <2>2, <2>3, <2>4, <2>5, <2>6 DEF Step
<1> QED BY <1>1, <1>2, <1>3, <1>4 DEF Next, AllEnded

\* A promise is made by the process that appends its entry, and not otherwise.
LEMMA NewPromise ==
  ASSUME Control, ChainInv, RecordInv, [Next]_vars, NEW rev, Promised(rev)'
  PROVE  \/ Promised(rev)
         \/ \E p \in Proc : /\ pc[p] = "append" /\ Cmd(p) \in Revokes
                            /\ rev = Revocation(req[p])
<1>1. ASSUME NEW p \in Proc, Succeeded(p, Revokes)', rev = Revocation(req[p])'
      PROVE  \/ Promised(rev)
             \/ pc[p] = "append" /\ Cmd(p) \in Revokes /\ rev = Revocation(req[p])
  <2>1. /\ req'[p] = req[p]
        /\ pc[p] = "ExitOK" \/ pc[p] = "append" \/ Cmd(p) \notin Revokes
    BY <1>1, NewSuccess DEF Succeeded, AppendEntry, Revokes
  <2>2. req'[p] = req[p] /\ Cmd(p)' = Cmd(p)
    BY <2>1 DEF Cmd
  <2>3. Cmd(p) \in Revokes /\ rev = Revocation(req[p])
    BY <1>1, <2>2 DEF Succeeded
  <2> QED BY <2>1, <2>3 DEF Promised, Succeeded
<1>2. ASSUME NEW i \in DOMAIN log', log'[i].entry.body.action = "revoke",
             rev = RevocationOf(log'[i].entry.body)
      PROVE  \/ Promised(rev)
             \/ \E p \in Proc : /\ pc[p] = "append" /\ Cmd(p) \in Revokes
                                /\ rev = Revocation(req[p])
  <2>1. CASE i \in DOMAIN log /\ log'[i] = log[i]
    BY <1>2, <2>1 DEF Promised, Record
  <2>2. ASSUME NEW p \in Proc, NEW whole, NEW newline, pc[p] = "append",
               log' = Append(log, Piece(entry[p], whole, newline))
        PROVE  \/ i \in DOMAIN log /\ log'[i] = log[i]
               \/ Cmd(p) \in Revokes /\ rev = Revocation(req[p])
    <3>1. /\ DOMAIN log' = DOMAIN log \cup {Len(log) + 1}
          /\ log'[Len(log) + 1].entry = entry[p]
          /\ \A j \in DOMAIN log : log'[j] = log[j]
      BY <2>2, AppendList DEF ChainInv, Piece
    <3>2. RecordAt(p)
      BY DEF RecordInv
    <3>3. CASE i = Len(log) + 1
      BY <1>2, <2>2, <3>1, <3>2, <3>3 DEF RecordAt, Tells
    <3> QED BY <3>1, <3>3
  <2> QED BY <2>1, <2>2, LogStep
<1> QED BY <1>1, <1>2 DEF Promised, Record

\* While a process is between its first and its last file access, nobody else
\* makes a promise.
LEMMA NoNewPromise ==
  ASSUME Control, ChainInv, RecordInv, Solo, [Next]_vars,
         NEW p \in Proc, pc[p] \notin Resting, pc[p] # "append",
         NEW rev, Promised(rev)'
  PROVE  Promised(rev)
BY NewPromise DEF Solo, Resting, Ended

\* A file that lists a revocation goes on listing it: whoever writes it carries
\* every promise.
LEMMA ForceStays ==
  ASSUME Control, TypeInv, PromiseInv, [Next]_vars, NEW rev, InForce(rev),
         Promised(rev) \/ \A p \in Proc : ~ Write(p)
  PROVE  InForce(rev)'
<1> USE DEF Control, Domains
<1>1. CASE dir'["revoked.json"] = dir["revoked.json"]
  BY <1>1 DEF InForce
<1>2. CASE EditPolicy
  BY <1>1, <1>2 DEF EditPolicy, Files
<1>3. ASSUME NEW p \in Proc, Create(p) PROVE InForce(rev)'
  <2>1. dir'["revoked.json"] = EmptyFile \/ dir'["revoked.json"] = dir["revoked.json"]
    BY <1>3 DEF Create, Files
  <2> QED BY <1>1, <2>1 DEF InForce
<1>4. ASSUME NEW p \in Proc, Write(p) PROVE InForce(rev)'
  <2>1. pc[p] = "write" /\ PromiseAt(p) /\ Promised(rev)
    BY <1>4 DEF Write, PromiseInv
  <2>2. Head(writes[p]) = writes[p][1] /\ 1 \in DOMAIN writes[p]
    BY <2>1, TailList DEF TypeInv, TypeAt, Pending
  <2>3. CASE Cmd(p) \in Revokes
    <3>1. PICK d : /\ writes[p] = <<[file |-> "revoked.json", data |-> d]>>
                   /\ Listed(d, rev)
      BY <2>1, <2>3 DEF PromiseAt, Carries
    <3>2. dir'["revoked.json"] \in {File(d), EmptyFile}
      BY <1>4, <3>1, WriteLeaves DEF Files
    <3> QED BY <3>1, <3>2 DEF InForce, Revocations, File, Listed
  <2>4. CASE Cmd(p) \notin Revokes
    <3>1. Head(writes[p]).file # "revoked.json"
      BY <2>1, <2>2, <2>4 DEF PromiseAt
    <3> QED BY <1>1, <1>4, <3>1 DEF Write, Files
  <2> QED BY <2>3, <2>4
<1> QED BY <1>1, <1>2, <1>3, <1>4, DirStep

\* What JSON can represent is read back as it was written.
LEMMA FaithfulJson ==
  ASSUME InvalidIds = {}
  PROVE  \A r : Marshalled(Revocation(r)) = Revocation(r)
BY DEF Marshalled, Revocation, JsonRoundTrip, JsonText, JsonBytes

\* The list a revoke is about to write.
LEMMA ReadCarries ==
  ASSUME InvalidIds = {}, Control, ChainInv, RecordInv, Solo, TypeInv, PromiseInv,
         [Next]_vars, NEW p \in Proc, ReadRevocations(p)
  PROVE  Carries(p)'
<1> USE DEF Control, Domains, files, locals, Goto
<1> DEFINE file == dir["revoked.json"]
           revs == Revocations(file)
           own  == Revocation(req[p])
           d    == Append(revs, own)
<1>1. /\ writes'[p] = <<[file |-> "revoked.json", data |-> d]>>
      /\ req'[p] = req[p] /\ pc[p] = "Revocations" /\ file.kind # "empty"
  BY FaithfulJson DEF ReadRevocations, Revoke, MayRevoke, RevocationsOK
<1>2. revs \in Seq(RequestedRevocations)
  BY DEF Revocations, TypeInv, FileOK, DataOK, Files, Content, NoFile, EmptyFile
<1>3. /\ DOMAIN d = DOMAIN revs \cup {Len(revs) + 1}
      /\ \A i \in DOMAIN revs : d[i] = revs[i]
      /\ d[Len(revs) + 1] = own
  <2>1. IsList(revs)
    BY <1>2, SeqIsList
  <2> QED BY <2>1, AppendList
<1>4. ASSUME NEW rev, Promised(rev)' PROVE Listed(d, rev)
  <2>1. InForce(rev)
    BY <1>1, <1>4, NoNewPromise DEF PromiseInv, Resting, Ended
  <2>2. \E i \in DOMAIN revs : revs[i] = rev
    BY <1>1, <2>1 DEF InForce, EmptyFile
  <2> QED BY <1>3, <2>2 DEF Listed
<1>5. Listed(d, own)
  BY <1>3 DEF Listed
<1> HIDE DEF d
<1> QED BY <1>1, <1>4, <1>5 DEF Carries

\* Promises are kept from step to step.
LEMMA PromiseNext ==
  ASSUME InvalidIds = {}
  PROVE  Control /\ ChainInv /\ RecordInv /\ Solo /\ TypeInv /\ PromiseInv
           /\ [Next]_vars => PromiseInv'
<1> SUFFICES ASSUME Control, ChainInv, RecordInv, Solo, TypeInv, PromiseInv,
                    [Next]_vars
             PROVE  PromiseInv'
  OBVIOUS
<1> USE DEF Control, Domains, files, locals, Goto
<1>1. ASSUME NEW rev, Promised(rev)' PROVE InForce(rev)'
  <2>1. CASE Promised(rev)
    BY <2>1, ForceStays DEF PromiseInv
  <2>2. ASSUME NEW p \in Proc, pc[p] = "append", Cmd(p) \in Revokes,
               rev = Revocation(req[p])
        PROVE  InForce(rev)'
    <3>1. InForce(rev)
      BY <2>2 DEF PromiseInv, PromiseAt
    <3>2. \A q \in Proc : ~ Write(q)
      BY <2>2 DEF Write, Solo, Resting, Ended
    <3> QED BY <3>1, <3>2, ForceStays
  <2> QED BY <1>1, <2>1, <2>2, NewPromise
<1>2. ASSUME NEW p \in Proc PROVE PromiseAt(p)'
  <2>1. PromiseAt(p)
    BY DEF PromiseInv
  <2>2. ASSUME pc[p] \in {"create", "write"}, Carries(p), req'[p] = req[p],
               writes'[p] = writes[p]
        PROVE  Carries(p)'
    <3>1. \A rev : Promised(rev)' => Promised(rev)
      BY <2>2, NoNewPromise DEF Resting, Ended
    <3>2. PICK d : /\ writes[p] = <<[file |-> "revoked.json", data |-> d]>>
                   /\ Listed(d, Revocation(req[p]))
                   /\ \A rev : Promised(rev) => Listed(d, rev)
      BY <2>2 DEF Carries
    <3> QED BY <2>2, <3>1, <3>2 DEF Carries
  <2>3. CASE Untouched(p) /\ (UNCHANGED dir \/ EditPolicy)
    <3>1. dir'["revoked.json"] = dir["revoked.json"]
      BY <2>3 DEF EditPolicy, Files
    <3>2. InForce(Revocation(req[p])) => InForce(Revocation(req[p]))'
      BY <2>3, <3>1 DEF InForce, Untouched
    <3>3. pc'[p] = pc[p] /\ writes'[p] = writes[p] /\ req'[p] = req[p]
          /\ Cmd(p)' = Cmd(p)
      BY <2>3 DEF Untouched, Cmd
    <3> QED BY <2>1, <2>2, <3>2, <3>3 DEF PromiseAt
  <2>4. CASE Untouched(p) /\ pc[p] \in Resting
    BY <2>4 DEF PromiseAt, Untouched, Resting, Ended
  <2>5. CASE Start(p) \/ Stop(p)
    <3>1. pc'[p] \in FirstSteps \cup {"Killed"}
      BY <2>5, FirstStepIs DEF Start, Stop
    <3> QED BY <3>1 DEF PromiseAt, FirstSteps
  <2>6. CASE Step(p)
    <3>1. CASE InitStat(p)
      BY <3>1 DEF InitStat, InitWrites, CommandAt, Cmd, Revokes, PromiseAt
    <3>2. CASE NextSerial(p)
      BY <3>2 DEF NextSerial, CommandAt, Cmd, Revokes, PromiseAt
    <3>3. CASE RenderKRL(p)
      BY <3>3 DEF RenderKRL, CommandAt, Cmd, Revokes, PromiseAt
    <3>4. CASE ReadRevocations(p)
      <4>1. pc'[p] = "create" /\ Cmd(p)' \in Revokes
        BY <3>4 DEF ReadRevocations, CommandAt, Cmd
      <4> QED BY <3>4, <4>1, ReadCarries DEF PromiseAt
    <3>5. CASE Create(p)
      <4>1. pc[p] = "create" /\ pc'[p] = "write" /\ writes'[p] = writes[p]
            /\ req'[p] = req[p] /\ Cmd(p)' = Cmd(p)
        BY <3>5 DEF Create, Cmd
      <4> QED BY <2>1, <2>2, <4>1 DEF PromiseAt
    <3>6. CASE Write(p) /\ Cmd(p) \in Revokes
      <4>1. PICK d : /\ writes[p] = <<[file |-> "revoked.json", data |-> d]>>
                     /\ Listed(d, Revocation(req[p]))
        BY <2>1, <3>6 DEF Write, PromiseAt, Carries
      <4>2. /\ dir'["revoked.json"] \in {File(d), EmptyFile}
            /\ req'[p] = req[p] /\ pc'[p] = "seal"
        <5>1. Head(writes[p]) = [file |-> "revoked.json", data |-> d]
              /\ Tail(writes[p]) = <<>>
          BY <4>1
        <5>2. \E x \in {File(d), EmptyFile} :
                dir' = [dir EXCEPT !["revoked.json"] = x]
          BY <3>6, <5>1, WriteLeaves
        <5>3. req'[p] = req[p] /\ pc'[p] = "seal"
          BY <3>6, <5>1 DEF Write, AfterWrites, Revokes
        <5> QED BY <5>2, <5>3 DEF Files
      <4>3. InForce(Revocation(req[p]))'
        BY <4>1, <4>2 DEF InForce, Revocations, File, Listed
      <4> QED BY <4>2, <4>3 DEF PromiseAt
    <3>7. CASE Write(p) /\ Cmd(p) \notin Revokes
      <4>1. Cmd(p)' = Cmd(p) /\ writes'[p] = Tail(writes[p]) /\ pc[p] = "write"
        BY <3>7 DEF Write, Cmd
      <4>2. \A i \in DOMAIN Tail(writes[p]) :
              i + 1 \in DOMAIN writes[p] /\ Tail(writes[p])[i] = writes[p][i + 1]
        BY <4>1, TailList DEF TypeInv, TypeAt, Pending
      <4> QED BY <2>1, <3>7, <4>1, <4>2 DEF PromiseAt
    <3>8. CASE SealEntry(p)
      <4>1. /\ pc[p] = "seal" /\ pc'[p] = "append" /\ dir' = dir
            /\ req'[p] = req[p] /\ Cmd(p)' = Cmd(p)
        BY <3>8 DEF SealEntry, Cmd
      <4> QED BY <2>1, <4>1 DEF PromiseAt, InForce
    <3>9. CASE OpenPolicy(p)
      BY <3>9, RequestsAssumption
      DEF OpenPolicy, AfterOpen, CommandAt, Cmd, Revokes, PromiseAt
    <3>10. CASE \/ OpenKey(p) \/ OpenPub(p) \/ IssuedSerial(p) \/ Verify(p)
                \/ AuditVerify(p) \/ AppendEntry(p) \/ Release(p)
                \/ RuntimeErr(p) \/ Findings(p)
      BY <3>10 DEF OpenKey, OpenPub, IssuedSerial, Verify, AuditVerify,
         AppendEntry, AfterAppend, Release, RuntimeErr, Findings, Exit, PromiseAt
    <3> QED BY <2>6, <3>1, <3>2, <3>3, <3>4, <3>5, <3>6, <3>7, <3>8, <3>9, <3>10
            DEF Step
  <2> QED BY <2>3, <2>4, <2>5, <2>6, StepCases
<1> QED BY <1>1, <1>2 DEF PromiseInv

\* Nothing has been promised in a fresh or a provisioned directory.
LEMMA PromiseInit == Init => PromiseInv /\ RecordInv
<1> SUFFICES ASSUME Init PROVE PromiseInv /\ RecordInv
  OBVIOUS
<1>1. \A i \in DOMAIN log : Record(i).action # "revoke"
  <2>1. CASE FreshDir
    BY <2>1 DEF FreshDir
  <2>2. CASE ProvisionedDir
    <3> DEFINE x == Piece(Seal(<<>>, InitRecord(Provisioner)), TRUE, TRUE)
    <3>1. log = <<x>> /\ x.entry.body = InitRecord(Provisioner)
      BY <2>2 DEF ProvisionedDir, Piece, Seal
    <3>2. DOMAIN log = {1} /\ log[1] = x
      BY <3>1
    <3> QED BY <3>1, <3>2 DEF Record, InitRecord, NoRecord
  <2> QED BY <2>1, <2>2 DEF Init
<1>2. \A p \in Proc : pc[p] = "idle" /\ body[p] = NoRecord
  BY DEF Init
<1> QED BY <1>1, <1>2
        DEF PromiseInv, PromiseAt, Promised, Succeeded, RecordInv, RecordAt

\* Records say what their commands do.
LEMMA RecordAlways == Spec => []RecordInv
BY PromiseInit, RecordNext, ControlAlways, ChainAlways, PTL DEF Spec

\* The invariant behind the two theorems that follow.
LEMMA PromisesKept ==
  ASSUME Exclusive, InvalidIds = {}
  PROVE  Spec => []PromiseInv
BY RecordAlways, PromiseInit, PromiseNext, OneAtATime, ControlAlways,
   ChainAlways, TypeAlways, PTL DEF Spec

\* Acknowledged revocations stay in force (AckedRevocationsInForce of
\* CertAuthority): read, extended and rewritten by any number of revokes in turn,
\* some of them killed, revoked.json keeps what a revoke reported as done, or
\* becomes unreadable.
THEOREM AckedStay ==
  ASSUME Exclusive, InvalidIds = {} PROVE Spec => []AckedRevocationsInForce
<1>1. PromiseInv => AckedRevocationsInForce
  BY DEF PromiseInv, Promised, AckedRevocationsInForce
<1> QED BY <1>1, PromisesKept, PTL

\* Every revoke entry of audit.log is in force (LoggedRevocationsInForce of
\* CertAuthority), since Revoke appends to the log last.
THEOREM LoggedStay ==
  ASSUME Exclusive, InvalidIds = {} PROVE Spec => []LoggedRevocationsInForce
<1>1. PromiseInv => LoggedRevocationsInForce
  BY DEF PromiseInv, Promised, LoggedRevocationsInForce
<1> QED BY <1>1, PromisesKept, PTL

-----------------------------------------------------------------------------
\* The log: the entry a process holds is numbered for the log as it is.

NumberedInv ==
  /\ \A i \in DOMAIN log : log[i].entry.seq = i
  /\ \A p \in Proc : pc[p] = "append" => entry[p].seq = Len(log) + 1

\* An empty log, or the single entry of Init.
LEMMA NumberedInit == Init => NumberedInv
<1> SUFFICES ASSUME Init PROVE NumberedInv
  OBVIOUS
<1>1. CASE FreshDir
  BY <1>1 DEF FreshDir, Init, NumberedInv
<1>2. CASE ProvisionedDir
  <2> DEFINE x == Piece(Seal(<<>>, InitRecord(Provisioner)), TRUE, TRUE)
  <2>1. log = <<x>> /\ x.entry.seq = 1
    BY <1>2 DEF ProvisionedDir, Piece, Seal
  <2> HIDE DEF x
  <2>2. DOMAIN log = {1} /\ log[1] = x
    BY <2>1
  <2> QED BY <2>1, <2>2 DEF Init, NumberedInv
<1> QED BY <1>1, <1>2 DEF Init

\* Between the seal and the append of an entry nobody else appends.
LEMMA NumberedNext ==
  Control /\ ChainInv /\ Solo /\ NumberedInv /\ [Next]_vars => NumberedInv'
<1> SUFFICES ASSUME Control, ChainInv, Solo, NumberedInv, [Next]_vars
             PROVE  NumberedInv'
  OBVIOUS
<1> USE DEF Control, Domains
<1>1. Len(log) \in Nat /\ DOMAIN log = 1 .. Len(log)
  BY ListDomain DEF ChainInv
<1>2. ASSUME NEW q \in Proc, NEW whole, NEW newline, pc[q] = "append",
             log' = Append(log, Piece(entry[q], whole, newline))
      PROVE  \A i \in DOMAIN log' : log'[i].entry.seq = i
  <2>1. /\ DOMAIN log' = DOMAIN log \cup {Len(log) + 1}
        /\ log'[Len(log) + 1].entry = entry[q]
        /\ \A i \in DOMAIN log : log'[i] = log[i]
    BY <1>2, AppendList DEF ChainInv, Piece
  <2> QED BY <1>2, <2>1 DEF NumberedInv
<1>3. \A i \in DOMAIN log' : log'[i].entry.seq = i
  BY <1>2, LogStep DEF NumberedInv
<1>4. ASSUME NEW p \in Proc, pc'[p] = "append"
      PROVE  entry'[p].seq = Len(log') + 1
  <2>1. CASE SealEntry(p)
    <3>1. entry'[p] = Seal(Entries(log), body[p]) /\ log' = log
      BY <2>1 DEF SealEntry, files
    <3>2. Len(Entries(log)) = Len(log)
      BY EntriesOfLog DEF ChainInv
    <3> QED BY <3>1, <3>2 DEF Seal
  <2>2. CASE pc[p] = "append" /\ entry'[p] = entry[p]
    <3>1. log' = log
      <4>1. ASSUME NEW q \in Proc, pc[q] = "append" PROVE q = p
        BY <2>2, <4>1 DEF Solo, Resting, Ended
      <4>2. ~ AppendEntry(p)
        BY <1>4 DEF AppendEntry, AfterAppend, Goto
      <4>3. ~ Stop(p)
        BY <1>4 DEF Stop, Goto
      <4>4. ASSUME NEW q \in Proc, AppendEntry(q) \/ Stop(q), log' # log
            PROVE  pc[q] = "append"
        BY <4>4 DEF AppendEntry, Stop
      <4>5. ASSUME NEW q \in Proc, Step(q), ~ AppendEntry(q) PROVE log' = log
        BY <4>5 DEF Step, files, Exit, InitStat, OpenKey, OpenPub, OpenPolicy,
           NextSerial, IssuedSerial, ReadRevocations, Verify, AuditVerify,
           RenderKRL, Create, Write, SealEntry, Release, RuntimeErr, Findings
      <4>6. CASE EditPolicy \/ UNCHANGED vars
        BY <4>6 DEF EditPolicy, vars
      <4>7. ASSUME NEW q \in Proc, Start(q) PROVE log' = log
        BY <4>7 DEF Start, files
      <4> QED BY <4>1, <4>2, <4>3, <4>4, <4>5, <4>6, <4>7 DEF Next, AllEnded
    <3> QED BY <2>2, <3>1 DEF NumberedInv
  <2> QED BY <1>4, <2>1, <2>2, EntryStep
<1> QED BY <1>3, <1>4 DEF NumberedInv

\* What JSON can represent is hashed as it was before it was written.
LEMMA HashReadBack ==
  ASSUME InvalidIds = {}, NEW e, HasFields(e.body)
  PROVE  /\ ComputeHash(e.seq, ReadBack(e).body, e.prev) =
              ComputeHash(e.seq, e.body, e.prev)
         /\ ReadBack(e).seq = e.seq /\ ReadBack(e).prev = e.prev
         /\ ReadBack(e).hash = e.hash
<1>1. \A s : JsonRoundTrip(s) = s
  BY DEF JsonRoundTrip, JsonText, JsonBytes
<1>2. ReadBack(e).body = [e.body EXCEPT !.keyID = @]
  BY <1>1 DEF ReadBack
<1>3. Canonical([e.body EXCEPT !.keyID = @]) = Canonical(e.body)
  BY DEF Canonical, HasFields
<1> QED BY <1>2, <1>3 DEF ComputeHash, ReadBack

\* The chain verifies (ChainIntact of CertAuthority): audit --verify accepts
\* whatever log the commands have left, if it can be read at all, wherever an
\* Append was cut short.
THEOREM ChainVerifies ==
  ASSUME Exclusive, InvalidIds = {} PROVE Spec => []ChainIntact
<1>1. Spec => []NumberedInv
  BY NumberedInit, NumberedNext, OneAtATime, ControlAlways, ChainAlways, PTL
  DEF Spec
<1>2. ChainInv /\ FieldsInv /\ NumberedInv => ChainIntact
  <2> SUFFICES ASSUME ChainInv, FieldsInv, NumberedInv,
                      NEW i \in DOMAIN Entries(log)
               PROVE  ~ BadEntry(Entries(log), i)
    BY DEF ChainIntact, ChainOK, BadEntries
  <2> DEFINE e == log[i].entry
  <2>1. Len(log) \in Nat /\ DOMAIN log = 1 .. Len(log) /\ i \in DOMAIN log
    BY ListDomain, EntriesOfLog DEF ChainInv
  <2>2. e.seq = i /\ HasFields(e.body)
    BY <2>1 DEF NumberedInv, FieldsInv, Record
  <2>3. /\ e.prev = IF i = 1 THEN Genesis ELSE log[i - 1].entry.hash
        /\ e.hash = ComputeHash(e.seq, e.body, e.prev)
    BY <2>1, <2>2 DEF ChainInv, EntriesLinkBack
  <2>4. Entries(log)[i] = ReadBack(e)
    BY <2>1 DEF Entries
  <2>5. i # 1 => Entries(log)[i - 1].hash = log[i - 1].entry.hash
    BY <2>1, EntriesOfLog DEF ChainInv
  <2>6. e.prev = PrevHash(Entries(log), i)
    BY <2>3, <2>5 DEF PrevHash
  <2> HIDE DEF e
  <2>7. /\ ReadBack(e).seq = e.seq /\ ReadBack(e).prev = e.prev
        /\ ReadBack(e).hash = ComputeHash(e.seq, ReadBack(e).body, e.prev)
    BY <2>2, <2>3, HashReadBack
  <2> QED BY <2>2, <2>4, <2>6, <2>7 DEF BadEntry
<1> QED BY <1>1, <1>2, FieldsAlways, ChainAlways, PTL

-----------------------------------------------------------------------------
\* History: a command that has succeeded stays so, and an issue that got past
\* ca.key leaves that file in place.

Issued(p) == Succeeded(p, {"issue"})

HasKey(p) == /\ Cmd(p) = "issue"
             /\ pc[p] \in {"open.pub", "open.policy", "nextSerial", "ExitOK"}
                            \cup Holding

HistoryAt(p) ==
  /\ \A q \in before[p] : pc[q] = "ExitOK"
  /\ HasKey(p) => dir["ca.key"] # NoFile

HistoryInv == \A p \in Proc : HistoryAt(p)

\* No process leaves "ExitOK".
LEMMA SuccessStays ==
  ASSUME Control, [Next]_vars, NEW p \in Proc, pc[p] = "ExitOK"
  PROVE  /\ pc'[p] = "ExitOK" /\ req'[p] = req[p] /\ cert'[p] = cert[p]
         /\ before'[p] = before[p]
<1>1. ~ (Start(p) \/ Step(p) \/ Stop(p))
  BY StepsRun DEF Start, Resting, Ended
<1>2. ASSUME NEW q \in Proc, q # p, Start(q) \/ Step(q) \/ Stop(q)
      PROVE  Untouched(p)
  BY <1>2, OthersUntouched
<1>3. CASE EditPolicy \/ UNCHANGED vars
  BY <1>3 DEF EditPolicy, vars, locals, Untouched
<1> QED BY <1>1, <1>2, <1>3 DEF Next, AllEnded, Untouched

\* No command removes a file.
LEMMA FilesStay ==
  ASSUME Control, [Next]_vars, NEW f \in Files, dir[f] # NoFile
  PROVE  dir'[f] # NoFile
<1> USE DEF Control, Domains
<1>1. EmptyFile # NoFile /\ \A d : File(d) # NoFile
  BY DEF EmptyFile, NoFile, File
<1>2. \E g, x : /\ dir' = dir \/ dir' = [dir EXCEPT ![g] = x]
                /\ x # NoFile
  <2>1. CASE EditPolicy
    BY <1>1, <2>1 DEF EditPolicy
  <2>2. ASSUME NEW p \in Proc, Create(p)
        PROVE  dir' = [dir EXCEPT ![Head(writes[p]).file] = EmptyFile]
    BY <2>2 DEF Create
  <2>3. ASSUME NEW p \in Proc, Write(p)
        PROVE  \E x \in {File(Head(writes[p]).data), EmptyFile} :
                 dir' = [dir EXCEPT ![Head(writes[p]).file] = x]
    BY <2>3, WriteLeaves
  <2> QED BY <1>1, <2>1, <2>2, <2>3, DirStep
<1> QED BY <1>2

\* Processes are only added to the successful ones, files only created.
LEMMA HistoryNext == Control /\ HistoryInv /\ [Next]_vars => HistoryInv'
<1> SUFFICES ASSUME Control, HistoryInv, [Next]_vars, NEW p \in Proc
             PROVE  HistoryAt(p)'
  BY DEF HistoryInv
<1> USE DEF Control, Domains, files, locals, Goto
<1>1. HistoryAt(p) /\ before[p] \subseteq Proc
  BY DEF HistoryInv
<1>2. ASSUME before'[p] = before[p] PROVE \A q \in before'[p] : pc'[q] = "ExitOK"
  BY <1>1, <1>2, SuccessStays DEF HistoryAt
<1>3. dir["ca.key"] # NoFile => dir'["ca.key"] # NoFile
  BY FilesStay DEF Files
<1>4. CASE Untouched(p)
  BY <1>1, <1>2, <1>3, <1>4 DEF Untouched, HistoryAt, HasKey, Cmd
<1>5. CASE Start(p)
  <2>1. pc'[p] \in FirstSteps
    BY <1>5, FirstStepIs DEF Start
  <2>2. ~ HasKey(p)'
    BY <2>1 DEF FirstSteps, HasKey, Holding
  <2>3. \A q \in before'[p] : pc[q] = "ExitOK" /\ q \in Proc
    BY <1>5 DEF Start
  <2> QED BY <2>2, <2>3, SuccessStays DEF HistoryAt
<1>6. CASE Step(p) \/ Stop(p)
  <2>1. before' = before
    BY <1>6 DEF Step, Stop, Exit, InitStat, OpenKey, OpenPub, OpenPolicy,
       NextSerial, IssuedSerial, ReadRevocations, Verify, AuditVerify, RenderKRL,
       Create, Write, SealEntry, AppendEntry, Release, RuntimeErr, Findings
  <2>2. HasKey(p)' => HasKey(p) \/ dir["ca.key"] # NoFile
    <3> USE DEF HasKey, Holding, CommandAt, Cmd
    <3>1. CASE OpenKey(p)
      BY <3>1 DEF OpenKey, Decodes, NoFile
    <3>2. CASE InitStat(p) BY <3>2 DEF InitStat
    <3>3. CASE OpenPub(p) \/ OpenPolicy(p)
      BY <3>3 DEF OpenPub, OpenPolicy
    <3>4. CASE IssuedSerial(p) \/ ReadRevocations(p) \/ Verify(p)
               \/ AuditVerify(p) \/ RenderKRL(p)
      BY <3>4 DEF IssuedSerial, ReadRevocations, Verify, AuditVerify, RenderKRL,
         Exit, Revokes
    <3>5. CASE NextSerial(p) \/ Create(p) \/ SealEntry(p) \/ AppendEntry(p)
               \/ Release(p)
      BY <3>5 DEF NextSerial, Create, SealEntry, AppendEntry, Release
    <3>6. CASE Write(p)
      BY <3>6 DEF Write
    <3>7. CASE RuntimeErr(p) \/ Findings(p) \/ Stop(p)
      BY <3>7 DEF RuntimeErr, Findings, Exit, Stop
    <3> QED BY <1>6, <3>1, <3>2, <3>3, <3>4, <3>5, <3>6, <3>7 DEF Step
  <2> QED BY <1>1, <1>2, <1>3, <2>1, <2>2 DEF HistoryAt
<1>7. ASSUME NEW q \in Proc, q # p, Start(q) \/ Step(q) \/ Stop(q)
      PROVE  Untouched(p)
  BY <1>7, OthersUntouched
<1>8. CASE EditPolicy \/ UNCHANGED vars
  BY <1>4, <1>8 DEF EditPolicy, vars, Untouched
<1> QED BY <1>4, <1>5, <1>6, <1>7, <1>8 DEF Next, AllEnded

\* No history at the start.
LEMMA HistoryAlways == Spec => []HistoryInv
<1>1. Init => HistoryInv
  BY DEF Init, HistoryInv, HistoryAt, HasKey, Holding
<1> QED BY <1>1, HistoryNext, ControlAlways, PTL DEF Spec

-----------------------------------------------------------------------------
\* Serials.  The counter is above the serial of every issue that has succeeded,
\* and so is the serial an issue has taken.

Above(n) == \A q \in Proc : Issued(q) => cert[q].serial < n

CounterOK(n) == n = 0 \/ Above(n)

SerialAt(p) ==
  /\ Issued(p) =>
       /\ cert[p].serial \in Nat
       /\ \A q \in before[p] : Issued(q) => cert[q].serial < cert[p].serial
  /\ Cmd(p) = "issue" /\ pc[p] \in Holding => Above(cert[p].serial)
  /\ Cmd(p) = "issue" /\ pc[p] \in {"seal", "append", "release"} =>
       (Decodes("serial") =>
          Content("serial") = 0 \/ cert[p].serial < Content("serial"))

\* What a command may write to the counter.
CounterAt(p) ==
  pc[p] \in {"create", "write"} =>
    IF Cmd(p) = "issue"
    THEN writes[p] = <<[file |-> "serial", data |-> NextCounter(cert[p].serial)]>>
    ELSE \A i \in DOMAIN writes[p] :
           writes[p][i].file = "serial" =>
             writes[p][i].data = 1 /\ \A q \in Proc : ~ Issued(q)

SerialInv ==
  /\ Decodes("serial") => CounterOK(Content("serial"))
  /\ \A p \in Proc : SerialAt(p) /\ CounterAt(p)

\* An issue succeeds by handing its certificate out.
LEMMA NewIssue ==
  ASSUME Control, [Next]_vars, NEW p \in Proc, Issued(p)'
  PROVE  \/ Issued(p) /\ cert'[p] = cert[p]
         \/ Release(p)
BY NewSuccess, SuccessStays DEF Issued, Succeeded, Cmd, Revokes

\* What is above all issues stays above them until the next is handed out.
LEMMA AboveStays ==
  ASSUME Control, [Next]_vars, NEW n, Above(n), \A q \in Proc : ~ Release(q)
  PROVE  Above(n)'
<1> SUFFICES ASSUME NEW q \in Proc, Issued(q)' PROVE cert'[q].serial < n
  BY DEF Above
<1> QED BY NewIssue DEF Above

\* n + 1, or 0 after the last serial.
LEMMA NextIsGreater ==
  ASSUME NEW n \in 1 .. MaxUint64
  PROVE  NextCounter(n) = 0 \/ NextCounter(n) = n + 1
<1>1. MaxUint64 \in Nat /\ n \in Nat
  BY AuthorityAssumption
<1>2. CASE n = MaxUint64
  <2>1. (MaxUint64 + 1) % (MaxUint64 + 1) = 0
    BY <1>1
  <2> QED BY <1>2, <2>1 DEF NextCounter
<1>3. CASE n < MaxUint64
  <2>1. \A m \in Nat, k \in Nat : m < k => m % k = m
    OBVIOUS
  <2> QED BY <1>1, <1>3, <2>1 DEF NextCounter
<1> QED BY <1>1, <1>2, <1>3

\* The counter moves ahead of every serial handed out, also when it wraps to 0,
\* which nextSerial refuses.
LEMMA CounterNext ==
  Control /\ Solo /\ TypeInv /\ Truncated /\ SerialInv /\ [Next]_vars =>
    (Decodes("serial") => CounterOK(Content("serial")))'
<1> SUFFICES ASSUME Control, Solo, TypeInv, Truncated, SerialInv, [Next]_vars,
                    dir'["serial"].kind = "data", NEW k, k = dir'["serial"].data
             PROVE  CounterOK(k)'
  BY DEF Decodes, Content
<1> USE DEF Control, Domains
<1> DEFINE n == dir["serial"].data
<1>1. CASE dir'["serial"] = dir["serial"] /\ \A q \in Proc : ~ Release(q)
  BY <1>1, AboveStays DEF SerialInv, CounterOK, Decodes, Content
<1>2. ASSUME NEW p \in Proc, Release(p) PROVE CounterOK(k)'
  <2>1. dir' = dir /\ pc[p] = "release" /\ Cmd(p) = "issue" /\ cert' = cert
    BY <1>2 DEF Release, CommandAt, locals
  <2>2. n = 0 \/ cert[p].serial < n
    BY <2>1 DEF SerialInv, SerialAt, Decodes, Content
  <2>3. n = 0 \/ Above(n)
    BY <2>1 DEF SerialInv, CounterOK, Decodes, Content
  <2>4. ASSUME NEW q \in Proc, Issued(q)' PROVE q = p \/ Issued(q)
    <3>1. Release(q) => q = p
      BY <2>1 DEF Release, Solo, Resting, Ended
    <3> QED BY <2>4, <3>1, NewIssue
  <2>5. k = n /\ (k = 0 \/ (cert[p].serial < k /\ Above(k)))
    BY <2>1, <2>2, <2>3
  <2> HIDE DEF n
  <2> QED BY <2>1, <2>4, <2>5 DEF CounterOK, Above
<1>3. CASE EditPolicy
  <2>1. dir'["serial"] = dir["serial"]
    BY <1>3 DEF EditPolicy, Files
  <2> QED BY <1>1, <1>2, <2>1
<1>4. ASSUME NEW p \in Proc, Create(p) PROVE CounterOK(k)'
  <2>1. dir'["serial"] = EmptyFile \/ dir'["serial"] = dir["serial"]
    BY <1>4 DEF Create, Files
  <2>2. dir'["serial"] = dir["serial"]
    BY <2>1 DEF EmptyFile
  <2> QED BY <1>1, <1>2, <2>2
<1>5. ASSUME NEW p \in Proc, Write(p) PROVE CounterOK(k)'
  <2> DEFINE w == Head(writes[p])
  <2>1. pc[p] = "write" /\ CounterAt(p) /\ SerialAt(p)
    BY <1>5 DEF Write, SerialInv
  <2>2. w = writes[p][1] /\ 1 \in DOMAIN writes[p]
    BY <2>1, TailList DEF TypeInv, TypeAt, Pending
  <2>3. \A q \in Proc : ~ Release(q)
    BY <2>1 DEF Release, Solo, Resting, Ended
  <2>4. w.file = "serial" => dir' = [dir EXCEPT ![w.file] = File(w.data)]
    BY <1>5, WriteAlone
  <2>7. w.file # "serial" => dir'["serial"] = dir["serial"]
    BY <1>5, WriteLeaves DEF Files
  <2> HIDE DEF w
  <2>5. CASE w.file # "serial"
    BY <1>1, <2>3, <2>5, <2>7
  <2>6. CASE w.file = "serial"
    <3>1. k = w.data
      BY <2>4, <2>6 DEF File, Files
    <3>2. CASE Cmd(p) = "issue"
      <4>1. PICK m : m = cert[p].serial
        OBVIOUS
      <4>2. k = NextCounter(m)
        BY <2>1, <2>2, <3>1, <3>2, <4>1 DEF CounterAt
      <4>3. m \in 1 .. MaxUint64 /\ Above(m)
        BY <2>1, <3>2, <4>1 DEF TypeInv, TypeAt, SerialAt, Holding
      <4>4. k = 0 \/ k = m + 1
        BY <4>2, <4>3, NextIsGreater
      <4>5. Above(m + 1)
        BY <4>3, AuthorityAssumption DEF Above, SerialInv, SerialAt
      <4>6. Above(m + 1)'
        BY <2>3, <4>5, AboveStays
      <4> QED BY <4>4, <4>6 DEF CounterOK
    <3>3. CASE Cmd(p) # "issue"
      <4>1. \A q \in Proc : ~ Issued(q)
        BY <2>1, <2>2, <2>6, <3>3 DEF CounterAt
      <4>2. \A q \in Proc : ~ Issued(q)'
        BY <2>3, <4>1, NewIssue
      <4> QED BY <4>2 DEF CounterOK, Above
    <3> QED BY <3>2, <3>3
  <2> QED BY <2>5, <2>6
<1>6. CASE dir' = dir
  BY <1>1, <1>2, <1>6
<1> QED BY <1>3, <1>4, <1>5, <1>6, DirStep

\* The order of two issues, one of which had succeeded when the other started.
LEMMA OrderNext ==
  ASSUME Control, TypeInv, HistoryInv, SerialInv, [Next]_vars,
         NEW p \in Proc, Issued(p)'
  PROVE  /\ cert'[p].serial \in Nat
         /\ \A q \in before'[p] : Issued(q)' => cert'[q].serial < cert'[p].serial
<1> USE DEF Control, Domains
<1>1. SerialAt(p) /\ TypeAt(p) /\ HistoryAt(p) /\ before[p] \subseteq Proc
  BY DEF SerialInv, TypeInv, HistoryInv
<1>2. ASSUME NEW q \in before[p], Issued(q)'
      PROVE  Issued(q) /\ cert'[q] = cert[q] /\ q \in Proc
  <2>1. pc[q] = "ExitOK" /\ q \in Proc
    BY <1>1 DEF HistoryAt
  <2>2. req'[q] = req[q] /\ cert'[q] = cert[q]
    BY <2>1, SuccessStays
  <2> QED BY <1>2, <2>1, <2>2 DEF Issued, Succeeded, Cmd
<1>3. CASE Issued(p) /\ cert'[p] = cert[p]
  <2>1. before'[p] = before[p]
    BY <1>3, SuccessStays DEF Issued, Succeeded
  <2> QED BY <1>1, <1>2, <1>3, <2>1 DEF SerialAt
<1>4. CASE Release(p)
  <2>1. /\ pc[p] = "release" /\ Cmd(p) = "issue"
        /\ cert' = cert /\ before' = before
    BY <1>4 DEF Release, CommandAt, locals
  <2>2. cert[p].serial \in Nat /\ Above(cert[p].serial)
    BY <1>1, <2>1, AuthorityAssumption DEF TypeAt, SerialAt, Holding
  <2> QED BY <1>2, <2>1, <2>2 DEF Above
<1> QED BY <1>3, <1>4, NewIssue

\* Each command's part of the counter's story.
LEMMA SerialNext ==
  Control /\ Solo /\ TypeInv /\ Truncated /\ HistoryInv /\ SerialInv /\ [Next]_vars
    => SerialInv'
<1> SUFFICES ASSUME Control, Solo, TypeInv, Truncated, HistoryInv, SerialInv,
                    [Next]_vars, NEW p \in Proc
             PROVE  SerialAt(p)' /\ CounterAt(p)'
  BY CounterNext DEF SerialInv
<1> USE DEF Control, Domains, files, locals, Goto
<1> DEFINE Order == Issued(p)' =>
             /\ cert'[p].serial \in Nat
             /\ \A q \in before'[p] : Issued(q)' => cert'[q].serial < cert'[p].serial
<1>1. Order
  BY OrderNext
<1>2. SerialAt(p) /\ CounterAt(p) /\ TypeAt(p)
  BY DEF SerialInv, TypeInv
<1>3. ASSUME \A q \in Proc : ~ Release(q), Above(cert[p].serial),
             cert'[p] = cert[p]
      PROVE  Above(cert[p].serial)'
  BY <1>3, NewIssue DEF Above
<1>4. ASSUME \A q \in Proc : ~ Release(q), \A q \in Proc : ~ Issued(q)
      PROVE  \A q \in Proc : ~ Issued(q)'
  BY <1>4, NewIssue
<1>5. ASSUME pc[p] \notin Resting, pc[p] # "release"
      PROVE  \A q \in Proc : ~ Release(q)
  BY <1>5 DEF Release, Solo, Resting, Ended
<1> HIDE DEF Order
<1>6. ASSUME Untouched(p), dir'["serial"] = dir["serial"],
             \A q \in Proc : ~ Release(q)
      PROVE  SerialAt(p)' /\ CounterAt(p)'
  <2>1. /\ pc'[p] = pc[p] /\ Cmd(p)' = Cmd(p) /\ cert'[p] = cert[p]
        /\ writes'[p] = writes[p]
    BY <1>6 DEF Untouched, Cmd
  <2>2. SerialAt(p)'
    BY <1>1, <1>2, <1>3, <1>6, <2>1 DEF SerialAt, Order, Decodes, Content
  <2>3. CounterAt(p)'
    BY <1>2, <1>4, <1>6, <2>1 DEF CounterAt
  <2> QED BY <2>2, <2>3
<1>7. CASE EditPolicy \/ UNCHANGED vars \/ \E q \in Proc : q # p /\ Start(q)
  <2>1. Untouched(p)
    BY <1>7, OthersUntouched DEF EditPolicy, vars, Untouched
  <2>2. dir'["serial"] = dir["serial"] /\ released' = released
    BY <1>7 DEF EditPolicy, vars, Start, Files
  <2>3. \A q \in Proc : pc'[q] # "ExitOK" \/ pc[q] = "ExitOK"
    <3>1. CASE EditPolicy \/ UNCHANGED vars
      BY <3>1 DEF EditPolicy, vars
    <3>2. ASSUME NEW q \in Proc, Start(q)
          PROVE  \A r \in Proc : pc'[r] # "ExitOK" \/ pc[r] = "ExitOK"
      <4>1. pc'[q] \in FirstSteps
        BY <3>2, FirstStepIs DEF Start
      <4>2. \A r \in Proc : r # q => pc'[r] = pc[r]
        BY <3>2 DEF Start
      <4> QED BY <4>1, <4>2 DEF FirstSteps
    <3> QED BY <1>7, <3>1, <3>2
  <2>4. \A q \in Proc : ~ Release(q)
    BY <2>3 DEF Release
  <2> QED BY <1>6, <2>1, <2>2, <2>4
<1>8. ASSUME NEW q \in Proc, q # p, Step(q) \/ Stop(q)
      PROVE  SerialAt(p)' /\ CounterAt(p)'
  <2>1. Untouched(p) /\ pc[p] \in Resting
    BY <1>8, OthersUntouched, StepsRun DEF Solo
  <2>2. pc'[p] \in Resting
    BY <2>1 DEF Untouched
  <2> QED BY <1>1, <2>2
          DEF SerialAt, CounterAt, Order, Resting, Ended, Holding
<1>9. CASE Start(p) \/ Stop(p)
  <2>1. pc'[p] \in FirstSteps \cup {"Killed"}
    BY <1>9, FirstStepIs DEF Start, Stop
  <2> QED BY <1>1, <2>1 DEF SerialAt, CounterAt, Order, FirstSteps, Holding
<1>10. CASE Step(p)
  <2>1. CASE InitStat(p)
    <3>1. \A q \in Proc : ~ Issued(q)
      BY <2>1 DEF InitStat, MayInit, HistoryInv, HistoryAt, HasKey, Issued,
         Succeeded
    <3>2. \A q \in Proc : ~ Issued(q)'
      BY <1>4, <1>5, <2>1, <3>1 DEF InitStat, Resting, Ended
    <3>3. /\ pc'[p] = "create" /\ Cmd(p)' = "init"
          /\ writes'[p] = InitWrites(p)
      BY <2>1 DEF InitStat, CommandAt, Cmd
    <3>4. \A i \in DOMAIN InitWrites(p) :
            InitWrites(p)[i].file = "serial" => InitWrites(p)[i].data = 1
      BY DEF InitWrites
    <3> QED BY <1>1, <3>2, <3>3, <3>4 DEF SerialAt, CounterAt, Order
  <2>2. CASE NextSerial(p)
    <3>1. PICK n : n = Content("serial")
      OBVIOUS
    <3>2. /\ cert'[p].serial = n /\ pc'[p] = "create" /\ Cmd(p)' = "issue"
          /\ writes'[p] = <<[file |-> "serial", data |-> NextCounter(n)]>>
      BY <2>2, <3>1 DEF NextSerial, Signed, Sign, CommandAt, Cmd
    <3>3. Above(n)
      BY <2>2, <3>1 DEF NextSerial, SerialFileOK, SerialInv, CounterOK, Decodes,
         Content
    <3>4. Above(n)'
      BY <1>5, <2>2, <3>3, AboveStays DEF NextSerial, Resting, Ended
    <3> QED BY <1>1, <3>2, <3>4 DEF SerialAt, CounterAt, Order, Above
  <2>3. CASE ReadRevocations(p)
    BY <1>1, <2>3 DEF ReadRevocations, CommandAt, Cmd, Revokes, SerialAt,
       CounterAt, Order
  <2>4. CASE RenderKRL(p)
    BY <1>1, <2>4 DEF RenderKRL, CommandAt, Cmd, SerialAt, CounterAt, Order
  <2>5. CASE Create(p)
    <3>1. /\ pc[p] = "create" /\ pc'[p] = "write" /\ cert'[p] = cert[p]
          /\ writes'[p] = writes[p] /\ Cmd(p)' = Cmd(p)
      BY <2>5 DEF Create, Cmd
    <3>2. \A q \in Proc : ~ Release(q)
      BY <1>5, <3>1 DEF Resting, Ended
    <3>3. SerialAt(p)'
      BY <1>1, <1>2, <1>3, <3>1, <3>2 DEF SerialAt, Order, Holding
    <3>4. CounterAt(p)'
      BY <1>2, <1>4, <3>1, <3>2 DEF CounterAt
    <3> QED BY <3>3, <3>4
  <2>6. CASE Write(p)
    <3>1. /\ pc[p] = "write" /\ pc'[p] \in {"create", "seal", "ExitOK"}
          /\ cert'[p] = cert[p] /\ writes'[p] = Tail(writes[p])
          /\ Cmd(p)' = Cmd(p)
      BY <2>6 DEF Write, AfterWrites, Cmd
    <3>2. \A q \in Proc : ~ Release(q)
      BY <1>5, <3>1 DEF Resting, Ended
    <3>3. CASE Cmd(p) = "issue"
      <4>1. writes[p] = <<[file |-> "serial",
                           data |-> NextCounter(cert[p].serial)]>>
        BY <1>2, <3>1, <3>3 DEF CounterAt
      <4>2. /\ dir'["serial"] = File(NextCounter(cert[p].serial))
            /\ pc'[p] = "seal"
        <5>1. /\ Head(writes[p]).file = "serial" /\ Tail(writes[p]) = <<>>
              /\ Head(writes[p]).data = NextCounter(cert[p].serial)
          BY <4>1
        <5>2. dir' = [dir EXCEPT ![Head(writes[p]).file] =
                                   File(Head(writes[p]).data)]
          BY <2>6, <5>1, WriteAlone
        <5>3. pc'[p] = "seal"
          BY <2>6, <3>3, <5>1 DEF Write, AfterWrites
        <5> QED BY <5>1, <5>2, <5>3 DEF Files
      <4>3. cert[p].serial \in 1 .. MaxUint64
        BY <1>2, <3>1, <3>3 DEF TypeAt, Holding
      <4>4. \/ NextCounter(cert[p].serial) = 0
            \/ cert[p].serial < NextCounter(cert[p].serial)
        BY <4>3, NextIsGreater, AuthorityAssumption
      <4>5. Above(cert[p].serial)'
        BY <1>2, <1>3, <3>1, <3>2, <3>3 DEF SerialAt, Holding
      <4> QED BY <1>1, <3>1, <4>2, <4>4, <4>5
              DEF SerialAt, CounterAt, Order, Decodes, Content, File
    <3>4. CASE Cmd(p) # "issue"
      <4>1. \A i \in DOMAIN Tail(writes[p]) :
              i + 1 \in DOMAIN writes[p] /\ Tail(writes[p])[i] = writes[p][i + 1]
        BY <1>2, <3>1, TailList DEF TypeAt, Pending
      <4>2. \A q \in Proc : ~ Issued(q) => ~ Issued(q)'
        BY <3>2, NewIssue
      <4>3. CounterAt(p)'
        BY <1>2, <3>1, <3>4, <4>1, <4>2 DEF CounterAt
      <4> QED BY <1>1, <3>1, <3>4, <4>3 DEF SerialAt, Order
    <3> QED BY <3>3, <3>4
  <2>7. CASE SealEntry(p) \/ AppendEntry(p)
    <3>1. /\ pc[p] \in {"seal", "append"} /\ dir' = dir /\ cert'[p] = cert[p]
          /\ pc'[p] \in {"append", "release", "ExitOK"} /\ Cmd(p)' = Cmd(p)
      BY <2>7 DEF SealEntry, AppendEntry, AfterAppend, Cmd
    <3>2. \A q \in Proc : ~ Release(q)
      BY <1>5, <3>1 DEF Resting, Ended
    <3> QED BY <1>1, <1>2, <1>3, <3>1, <3>2
            DEF SerialAt, CounterAt, Order, Holding, Decodes, Content
  <2>8. CASE OpenPolicy(p)
    <3>1. pc'[p] \notin Holding
      BY <2>8, RequestsAssumption
      DEF OpenPolicy, AfterOpen, CommandAt, Cmd, Holding
    <3> QED BY <1>1, <3>1 DEF SerialAt, CounterAt, Order, Holding
  <2>9. CASE \/ OpenKey(p) \/ OpenPub(p) \/ IssuedSerial(p) \/ Verify(p)
             \/ AuditVerify(p) \/ Release(p) \/ RuntimeErr(p) \/ Findings(p)
    <3>1. pc'[p] \notin Holding
      BY <2>9 DEF OpenKey, OpenPub, IssuedSerial, Verify, AuditVerify, Release,
         RuntimeErr, Findings, Exit, Holding
    <3> QED BY <1>1, <3>1 DEF SerialAt, CounterAt, Order, Holding
  <2> QED BY <1>10, <2>1, <2>2, <2>3, <2>4, <2>5, <2>6, <2>7, <2>8, <2>9 DEF Step
<1> QED BY <1>7, <1>8, <1>9, <1>10 DEF Next, AllEnded

\* The invariant behind SerialsGrow.
LEMMA SerialAlways == ASSUME Exclusive PROVE Spec => []SerialInv
<1>1. Init => SerialInv
  <2> SUFFICES ASSUME Init PROVE SerialInv
    OBVIOUS
  <2>1. \A p \in Proc : pc[p] = "idle"
    BY DEF Init
  <2>2. \A p \in Proc : ~ Issued(p) /\ SerialAt(p) /\ CounterAt(p)
    BY <2>1 DEF Issued, Succeeded, SerialAt, CounterAt, Holding
  <2> QED BY <2>2 DEF SerialInv, CounterOK, Above
<1> QED BY <1>1, SerialNext, OneAtATime, ControlAlways, TypeAlways, TruncatedAlways,
           HistoryAlways, PTL DEF Spec

\* Serials increase (SerialsIncrease of CertAuthority): nextSerial reads, and
\* writes back in a step of its own, yet of two successful issues the later one
\* has the greater serial, across commands killed half way and up to the wrap.
THEOREM SerialsGrow == ASSUME Exclusive PROVE Spec => []SerialsIncrease
<1>1. SerialInv => SerialsIncrease
  BY DEF SerialInv, SerialAt, SerialsIncrease, Issued
<1> QED BY <1>1, SerialAlways, PTL

-----------------------------------------------------------------------------
\* The files of Init, in the order of its writes: while an init has some left,
\* the ones before are in place and the ones after do not exist.

KeyW(p)    == [file |-> "ca.key",      data |-> p]
PubW(p)    == [file |-> "ca.pub",      data |-> p]
PolicyW    == [file |-> "policy.json", data |-> Default]
SerialW    == [file |-> "serial",      data |-> 1]

\* f is untouched at "create" and truncated at "write".
Coming(p, f) == dir[f] = IF pc[p] = "create" THEN NoFile ELSE EmptyFile
InPlace(p, f) == dir[f] = File(p)

AtKey(p) ==
  /\ writes[p] = <<KeyW(p), PubW(p), PolicyW, SerialW>>
  /\ Coming(p, "ca.key") /\ dir["ca.pub"] = NoFile /\ dir["serial"] = NoFile
AtPub(p) ==
  /\ writes[p] = <<PubW(p), PolicyW, SerialW>>
  /\ InPlace(p, "ca.key") /\ Coming(p, "ca.pub") /\ dir["serial"] = NoFile
AtPolicy(p) ==
  /\ writes[p] = <<PolicyW, SerialW>>
  /\ InPlace(p, "ca.key") /\ InPlace(p, "ca.pub") /\ dir["serial"] = NoFile
AtSerial(p) ==
  /\ writes[p] = <<SerialW>>
  /\ InPlace(p, "ca.key") /\ InPlace(p, "ca.pub") /\ Coming(p, "serial")

InitAt(p) ==
  pc[p] \in {"create", "write"} /\ Cmd(p) = "init" =>
    AtKey(p) \/ AtPub(p) \/ AtPolicy(p) \/ AtSerial(p)

\* The file the other commands write.
OutputFile(cmd) == CASE cmd = "issue" -> "serial"
                     [] cmd = "krl"   -> "revoked.krl"
                     [] OTHER         -> "revoked.json"

OutputAt(p) ==
  pc[p] \in {"create", "write"} /\ Cmd(p) # "init" =>
    writes[p] = <<[file |-> OutputFile(Cmd(p)), data |-> writes[p][1].data]>>

\* Both halves of the key a command has read are the pair of the directory.
Opened == {"open.policy", "nextSerial", "issuedSerial", "Revocations",
           "IsRevoked", "KRL"} \cup Holding

PairAt(p) ==
  /\ pc[p] = "open.pub" => dir["ca.key"] = File(pair[p].priv)
  /\ pc[p] \in Opened /\ Cmd(p) # "init" =>
       dir["ca.pub"] = File(pair[p].pub) /\ pair[p].priv = pair[p].pub
  /\ pc[p] \in Holding /\ Cmd(p) = "issue" =>
       /\ cert[p].signatureKey = pair[p].pub /\ cert[p].signedBy = pair[p].pub
       /\ cert[p].certType = "user"

\* ca.pub comes after ca.key, everything else after ca.pub.
SetupInv ==
  /\ dir["ca.key"] = NoFile => dir["ca.pub"] = NoFile
  /\ Decodes("ca.pub") => dir["ca.key"] = dir["ca.pub"]
  /\ ~ Decodes("ca.pub") =>
       dir["serial"] = NoFile /\ dir["revoked.krl"] = NoFile
  /\ \A c \in released : /\ c.certType = "user"
                         /\ dir["ca.pub"] = File(c.signedBy)
                         /\ c.signatureKey = c.signedBy
  /\ \A p \in Proc : InitAt(p) /\ OutputAt(p) /\ PairAt(p)

\* What is left of Init's writes after each of them.
LEMMA InitTails ==
  ASSUME NEW p
  PROVE  /\ InitWrites(p) = <<KeyW(p), PubW(p), PolicyW, SerialW>>
         /\ Tail(<<KeyW(p), PubW(p), PolicyW, SerialW>>)
              = <<PubW(p), PolicyW, SerialW>>
         /\ Tail(<<PubW(p), PolicyW, SerialW>>) = <<PolicyW, SerialW>>
         /\ Tail(<<PolicyW, SerialW>>) = <<SerialW>>
         /\ Tail(<<SerialW>>) = <<>>
<1>1. \A a, b, c, d : /\ Tail(<<a, b, c, d>>) = <<b, c, d>>
                      /\ Tail(<<b, c, d>>) = <<c, d>>
                      /\ Tail(<<c, d>>) = <<d>>
                      /\ Tail(<<d>>) = <<>>
  OBVIOUS
<1> QED BY <1>1 DEF InitWrites, KeyW, PubW, PolicyW, SerialW

\* Where a running command is the only one, a step of its own may change the
\* files its invariant is about; nobody else's does.
LEMMA SetupInit == Init => SetupInv
<1> SUFFICES ASSUME Init PROVE SetupInv
  OBVIOUS
<1>1. \A p \in Proc : pc[p] = "idle"
  BY DEF Init
<1>2. \A p \in Proc : InitAt(p) /\ OutputAt(p) /\ PairAt(p)
  BY <1>1 DEF InitAt, OutputAt, PairAt, Opened, Holding
<1>3. CASE FreshDir
  BY <1>2, <1>3 DEF Init, FreshDir, SetupInv, Decodes, NoFile, Files
<1>4. CASE ProvisionedDir
  <2>1. dir["ca.key"] = File(Provisioner) /\ dir["ca.pub"] = File(Provisioner)
    BY <1>4 DEF ProvisionedDir, Files
  <2> QED BY <1>2, <2>1 DEF Init, SetupInv, Decodes, NoFile, File
<1> QED BY <1>3, <1>4 DEF Init

\* What a process at "create" or "write" is about to write, and what is left.
LEMMA NextWrite ==
  ASSUME SetupInv, NEW p \in Proc, pc[p] \in {"create", "write"}
  PROVE  LET w == Head(writes[p])
             rest == Tail(writes[p])
         IN  /\ Cmd(p) = "init" =>
                  \/ AtKey(p) /\ w = KeyW(p) /\ rest = <<PubW(p), PolicyW, SerialW>>
                  \/ AtPub(p) /\ w = PubW(p) /\ rest = <<PolicyW, SerialW>>
                  \/ AtPolicy(p) /\ w = PolicyW /\ rest = <<SerialW>>
                  \/ AtSerial(p) /\ w = SerialW /\ rest = <<>>
             /\ Cmd(p) # "init" =>
                  /\ w.file = OutputFile(Cmd(p)) /\ rest = <<>>
                  /\ dir["ca.pub"] = File(pair[p].pub)
<1>1. \A a, b, c, d : /\ Head(<<a, b, c, d>>) = a /\ Head(<<b, c, d>>) = b
                      /\ Head(<<c, d>>) = c /\ Head(<<d>>) = d
                      /\ Tail(<<d>>) = <<>>
  OBVIOUS
<1>2. InitAt(p) /\ OutputAt(p) /\ PairAt(p)
  BY DEF SetupInv
<1>3. CASE Cmd(p) = "init"
  <2>1. CASE AtKey(p)
    BY <1>1, <1>3, <2>1, InitTails DEF AtKey
  <2>2. CASE AtPub(p)
    BY <1>1, <1>3, <2>2, InitTails DEF AtPub
  <2>3. CASE AtPolicy(p)
    BY <1>1, <1>3, <2>3, InitTails DEF AtPolicy
  <2>4. CASE AtSerial(p)
    BY <1>1, <1>3, <2>4, InitTails DEF AtSerial
  <2> QED BY <1>2, <1>3, <2>1, <2>2, <2>3, <2>4 DEF InitAt
<1>4. CASE Cmd(p) # "init"
  <2>1. PICK d : writes[p] = <<[file |-> OutputFile(Cmd(p)), data |-> d]>>
    BY <1>2, <1>4 DEF OutputAt
  <2>2. Head(writes[p]).file = OutputFile(Cmd(p)) /\ Tail(writes[p]) = <<>>
    BY <2>1
  <2>3. dir["ca.pub"] = File(pair[p].pub)
    BY <1>2, <1>4 DEF PairAt, Opened, Holding
  <2> QED BY <1>4, <2>2, <2>3
<1> QED BY <1>3, <1>4

\* The keys of a directory that has a public key stay.
LEMMA KeysStay ==
  ASSUME Control, SetupInv, [Next]_vars, Decodes("ca.pub")
  PROVE  dir'["ca.pub"] = dir["ca.pub"] /\ dir'["ca.key"] = dir["ca.key"]
<1> USE DEF Control, Domains
<1>1. CASE EditPolicy
  BY <1>1 DEF EditPolicy, Files
<1>2. ASSUME NEW p \in Proc, Create(p) \/ Write(p)
      PROVE  dir'["ca.pub"] = dir["ca.pub"] /\ dir'["ca.key"] = dir["ca.key"]
  <2>1. pc[p] \in {"create", "write"}
    BY <1>2 DEF Create, Write
  <2>2. ~ AtKey(p) /\ ~ AtPub(p)
    BY <2>1 DEF AtKey, AtPub, Coming, Decodes, NoFile, EmptyFile
  <2>3. Head(writes[p]).file \notin {"ca.key", "ca.pub"}
    BY <2>1, <2>2, NextWrite DEF PolicyW, SerialW, OutputFile
  <2> QED BY <1>2, <2>3 DEF Create, Write, Files
<1> QED BY <1>1, <1>2, DirStep

\* Init writes ca.key first and ca.pub second; every other command has read both.
LEMMA SetupDirNext ==
  ASSUME Control, SetupInv, [Next]_vars
  PROVE  /\ dir'["ca.key"] = NoFile => dir'["ca.pub"] = NoFile
         /\ Decodes("ca.pub")' => dir'["ca.key"] = dir'["ca.pub"]
         /\ ~ Decodes("ca.pub")' =>
              dir'["serial"] = NoFile /\ dir'["revoked.krl"] = NoFile
<1> USE DEF Control, Domains
<1>1. CASE Decodes("ca.pub")
  BY <1>1, KeysStay DEF SetupInv, Decodes, NoFile
<1>2. CASE ~ Decodes("ca.pub")
  <2>1. CASE dir' = dir
    BY <2>1 DEF SetupInv, Decodes
  <2>2. CASE EditPolicy
    BY <2>2 DEF EditPolicy, SetupInv, Decodes, Files
  <2>3. ASSUME NEW p \in Proc, Create(p) \/ Write(p), NEW x,
               dir' = [dir EXCEPT ![Head(writes[p]).file] = x], x # NoFile,
               x = EmptyFile \/ x = File(Head(writes[p]).data)
        PROVE  /\ dir'["ca.key"] = NoFile => dir'["ca.pub"] = NoFile
               /\ Decodes("ca.pub")' => dir'["ca.key"] = dir'["ca.pub"]
               /\ ~ Decodes("ca.pub")' =>
                    dir'["serial"] = NoFile /\ dir'["revoked.krl"] = NoFile
    <3>1. pc[p] \in {"create", "write"}
      BY <2>3 DEF Create, Write
    <3>2. \A d : dir["ca.pub"] # File(d)
      BY <1>2 DEF Decodes, File
    <3>3. CASE AtKey(p) /\ Head(writes[p]) = KeyW(p)
      BY <1>2, <2>3, <3>3
      DEF AtKey, KeyW, SetupInv, Decodes, Files, NoFile
    <3>4. CASE AtPub(p) /\ Head(writes[p]) = PubW(p)
      BY <1>2, <2>3, <3>4
      DEF AtPub, PubW, InPlace, SetupInv, Decodes, Files, NoFile, File, EmptyFile
    <3> QED BY <3>1, <3>2, <3>3, <3>4, NextWrite DEF AtPolicy, AtSerial, InPlace
  <2>4. EmptyFile # NoFile /\ \A d : File(d) # NoFile
    BY DEF EmptyFile, NoFile, File
  <2>5. ASSUME NEW p \in Proc, Create(p) \/ Write(p)
        PROVE  \E x : /\ dir' = [dir EXCEPT ![Head(writes[p]).file] = x]
                      /\ x = EmptyFile \/ x = File(Head(writes[p]).data)
    BY <2>5, WriteLeaves DEF Create
  <2> QED BY <2>1, <2>2, <2>3, <2>4, <2>5, DirStep
<1> QED BY <1>1, <1>2


\* The locals of a command match the directory as long as it runs.
LEMMA SetupAtNext ==
  ASSUME Control, Solo, TypeInv, Truncated, SetupInv, [Next]_vars, NEW p \in Proc
  PROVE  InitAt(p)' /\ OutputAt(p)' /\ PairAt(p)'
<1> USE DEF Control, Domains, files, locals, Goto
<1>1. InitAt(p) /\ OutputAt(p) /\ PairAt(p) /\ CommandAt(p)
  BY DEF SetupInv
<1>2. CASE Untouched(p) /\ (UNCHANGED dir \/ EditPolicy)
  <2>1. /\ dir'["ca.key"] = dir["ca.key"] /\ dir'["ca.pub"] = dir["ca.pub"]
        /\ dir'["serial"] = dir["serial"]
    BY <1>2 DEF EditPolicy, Files
  <2>2. /\ pc'[p] = pc[p] /\ Cmd(p)' = Cmd(p) /\ writes'[p] = writes[p]
        /\ pair'[p] = pair[p] /\ cert'[p] = cert[p]
    BY <1>2 DEF Untouched, Cmd
  <2>3. InitAt(p)'
    BY <1>1, <2>1, <2>2
    DEF InitAt, AtKey, AtPub, AtPolicy, AtSerial, Coming, InPlace
  <2> QED BY <1>1, <2>1, <2>2, <2>3 DEF OutputAt, PairAt
<1>3. CASE Untouched(p) /\ pc[p] \in Resting
  BY <1>3 DEF Untouched, InitAt, OutputAt, PairAt, Resting, Ended, Opened, Holding
<1>4. CASE Start(p) \/ Stop(p)
  <2>1. pc'[p] \in FirstSteps \cup {"Killed"}
    BY <1>4, FirstStepIs DEF Start, Stop
  <2> QED BY <2>1 DEF InitAt, OutputAt, PairAt, FirstSteps, Opened, Holding
<1>5. ASSUME Step(p), pc[p] \in Opened, Cmd(p) # "init", pair'[p] = pair[p],
             pc'[p] # "open.pub",
             pc'[p] \in Holding /\ Cmd(p) = "issue" =>
               pc[p] \in Holding /\ cert'[p] = cert[p]
      PROVE  PairAt(p)'
  <2>1. dir["ca.pub"] = File(pair[p].pub) /\ pair[p].priv = pair[p].pub
    BY <1>1, <1>5 DEF PairAt
  <2>2. dir'["ca.pub"] = dir["ca.pub"]
    BY <2>1, KeysStay DEF Decodes, File
  <2>3. req'[p] = req[p]
    BY <1>5 DEF Step, Exit, InitStat, OpenKey, OpenPub, OpenPolicy, NextSerial,
       IssuedSerial, ReadRevocations, Verify, AuditVerify, RenderKRL, Create,
       Write, SealEntry, AppendEntry, Release, RuntimeErr, Findings
  <2> QED BY <1>1, <1>5, <2>1, <2>2, <2>3 DEF PairAt, Cmd
<1>6. CASE Step(p)
  <2>1. CASE InitStat(p)
    <3>1. /\ pc'[p] = "create" /\ Cmd(p)' = "init" /\ dir' = dir
          /\ writes'[p] = InitWrites(p) /\ dir["ca.key"] = NoFile
      BY <2>1 DEF InitStat, MayInit, CommandAt, Cmd
    <3>2. dir["ca.pub"] = NoFile /\ dir["serial"] = NoFile
      BY <3>1 DEF SetupInv, Decodes, NoFile
    <3>3. AtKey(p)'
      BY <3>1, <3>2, InitTails DEF AtKey, Coming
    <3> QED BY <3>1, <3>3 DEF InitAt, OutputAt, PairAt
  <2>2. CASE OpenKey(p)
    <3>1. /\ pc'[p] = "open.pub" /\ dir' = dir
          /\ pair'[p].priv = dir["ca.key"].data /\ dir["ca.key"].kind = "data"
      BY <2>2 DEF OpenKey, Decodes, Content, TypeInv, TypeAt
    <3>2. dir["ca.key"] = File(dir["ca.key"].data)
      BY <3>1 DEF TypeInv, FileOK, Content, Files, NoFile, EmptyFile
    <3> QED BY <3>1, <3>2 DEF InitAt, OutputAt, PairAt, Opened, Holding
  <2>3. CASE OpenPub(p)
    <3>1. /\ pc'[p] = "open.policy" /\ dir' = dir /\ pc[p] = "open.pub"
          /\ pair'[p].priv = pair[p].priv
          /\ pair'[p].pub = dir["ca.pub"].data /\ dir["ca.pub"].kind = "data"
      BY <2>3 DEF OpenPub, Decodes, Content, TypeInv, TypeAt
    <3>2. dir["ca.pub"] = File(dir["ca.pub"].data)
      BY <3>1 DEF TypeInv, FileOK, Content, Files, NoFile, EmptyFile
    <3>3. dir["ca.pub"] = File(pair[p].priv)
      BY <1>1, <3>1 DEF PairAt, SetupInv, Decodes
    <3>4. dir["ca.pub"].data = pair[p].priv
      BY <3>3 DEF File
    <3> QED BY <3>1, <3>2, <3>4 DEF InitAt, OutputAt, PairAt, Holding
  <2>4. CASE OpenPolicy(p)
    <3>1. pc'[p] \in {"nextSerial", "issuedSerial", "Revocations", "IsRevoked",
                      "KRL"}
      BY <2>4, RequestsAssumption DEF OpenPolicy, AfterOpen, CommandAt, Cmd
    <3>2. PairAt(p)'
      BY <1>5, <1>6, <2>4, <3>1
      DEF OpenPolicy, CommandAt, Opened, Holding
    <3> QED BY <3>1, <3>2 DEF InitAt, OutputAt
  <2>5. CASE NextSerial(p)
    <3>1. PICK n : n = Content("serial")
      OBVIOUS
    <3>2. /\ pc'[p] = "create" /\ pc[p] = "nextSerial" /\ dir' = dir
          /\ pair' = pair /\ Cmd(p) = "issue" /\ Cmd(p)' = "issue"
          /\ writes'[p] = <<[file |-> "serial", data |-> NextCounter(n)]>>
          /\ cert'[p].signatureKey = pair[p].pub
          /\ cert'[p].signedBy = pair[p].priv /\ cert'[p].certType = "user"
      BY <2>5, <3>1 DEF NextSerial, Signed, Sign, CommandAt, Cmd
    <3>3. dir["ca.pub"] = File(pair[p].pub) /\ pair[p].priv = pair[p].pub
      BY <1>1, <3>2 DEF PairAt, Opened
    <3>4. PairAt(p)'
      BY <3>2, <3>3 DEF PairAt
    <3>5. OutputAt(p)'
      BY <3>2 DEF OutputAt, OutputFile
    <3> QED BY <3>2, <3>4, <3>5 DEF InitAt
  <2>6. CASE ReadRevocations(p) \/ RenderKRL(p)
    <3>1. /\ pc'[p] = "create" /\ pc[p] \in Opened /\ pair' = pair
          /\ Cmd(p) \in Revokes \cup {"krl"} /\ Cmd(p)' = Cmd(p)
          /\ \E d : writes'[p] = <<[file |-> OutputFile(Cmd(p)), data |-> d]>>
      <4>1. CASE ReadRevocations(p)
        BY <4>1 DEF ReadRevocations, OutputFile, CommandAt, Cmd, Opened, Revokes
      <4>2. CASE RenderKRL(p)
        BY <4>2 DEF RenderKRL, OutputFile, CommandAt, Cmd, Opened, Revokes
      <4> QED BY <2>6, <4>1, <4>2
    <3>2. PairAt(p)'
      BY <1>5, <1>6, <3>1 DEF Revokes
    <3>3. OutputAt(p)'
      BY <3>1 DEF OutputAt
    <3> QED BY <3>1, <3>2, <3>3 DEF InitAt, Revokes
  <2>7. CASE Create(p)
    <3>1. /\ pc[p] = "create" /\ pc'[p] = "write" /\ writes' = writes
          /\ pair' = pair /\ cert' = cert /\ Cmd(p)' = Cmd(p)
          /\ dir' = [dir EXCEPT ![Head(writes[p]).file] = EmptyFile]
      BY <2>7 DEF Create, Cmd
    <3>2. CASE Cmd(p) = "init"
      <4>1. AtKey(p)' \/ AtPub(p)' \/ AtPolicy(p)' \/ AtSerial(p)'
        <5> USE DEF Coming, InPlace, Files
        <5>1. CASE AtKey(p) /\ Head(writes[p]) = KeyW(p)
          BY <3>1, <5>1 DEF AtKey, KeyW
        <5>2. CASE AtPub(p) /\ Head(writes[p]) = PubW(p)
          BY <3>1, <5>2 DEF AtPub, PubW
        <5>3. CASE AtPolicy(p) /\ Head(writes[p]) = PolicyW
          BY <3>1, <5>3 DEF AtPolicy, PolicyW
        <5>4. CASE AtSerial(p) /\ Head(writes[p]) = SerialW
          BY <3>1, <5>4 DEF AtSerial, SerialW
        <5> QED BY <3>1, <3>2, <5>1, <5>2, <5>3, <5>4, NextWrite
      <4> QED BY <3>1, <3>2, <4>1 DEF InitAt, OutputAt, PairAt
    <3>3. CASE Cmd(p) # "init"
      <4>1. PairAt(p)'
        BY <1>5, <1>6, <3>1, <3>3 DEF Opened, Holding
      <4> QED BY <1>1, <3>1, <3>3, <4>1 DEF InitAt, OutputAt
    <3> QED BY <3>2, <3>3
  <2>8. CASE Write(p)
    <3>1. /\ pc[p] = "write" /\ writes'[p] = Tail(writes[p])
          /\ pair' = pair /\ cert' = cert /\ Cmd(p)' = Cmd(p)
          /\ pc'[p] = IF Tail(writes[p]) = <<>> THEN AfterWrites(Cmd(p)) ELSE "create"
          /\ pc'[p] \in {"create", "seal", "ExitOK"}
      BY <2>8 DEF Write, AfterWrites, Cmd
    <3>4. PICK x : /\ dir' = [dir EXCEPT ![Head(writes[p]).file] = x]
                   /\ Head(writes[p]).file # "policy.json" =>
                        x = File(Head(writes[p]).data)
      BY <2>8, WriteAlone, WriteLeaves
    <3>2. CASE Cmd(p) = "init"
      <4>1. pc'[p] = "create" => AtPub(p)' \/ AtPolicy(p)' \/ AtSerial(p)'
        <5> USE DEF Coming, InPlace, Files
        <5>1. CASE AtKey(p) /\ Head(writes[p]) = KeyW(p)
                   /\ Tail(writes[p]) = <<PubW(p), PolicyW, SerialW>>
          BY <3>1, <3>4, <5>1 DEF AtKey, AtPub, KeyW
        <5>2. CASE AtPub(p) /\ Head(writes[p]) = PubW(p)
                   /\ Tail(writes[p]) = <<PolicyW, SerialW>>
          BY <3>1, <3>4, <5>2 DEF AtPub, AtPolicy, PubW
        <5>3. CASE AtPolicy(p) /\ Head(writes[p]) = PolicyW
                   /\ Tail(writes[p]) = <<SerialW>>
          BY <3>1, <3>4, <5>3 DEF AtPolicy, AtSerial, PolicyW
        <5>4. CASE Tail(writes[p]) = <<>>
          BY <3>1, <3>2, <5>4 DEF AfterWrites
        <5> QED BY <3>1, <3>2, <5>1, <5>2, <5>3, <5>4, NextWrite
      <4> QED BY <3>1, <3>2, <4>1 DEF InitAt, OutputAt, PairAt
    <3>3. CASE Cmd(p) # "init"
      <4>1. PairAt(p)'
        BY <1>5, <1>6, <3>1, <3>3 DEF Opened, Holding
      <4>2. pc'[p] # "create"
        BY <3>1, <3>3, NextWrite DEF AfterWrites
      <4> QED BY <3>1, <4>1, <4>2 DEF InitAt, OutputAt
    <3> QED BY <3>2, <3>3
  <2>9. CASE SealEntry(p) \/ AppendEntry(p)
    <3>1. /\ pc[p] \in {"seal", "append"} /\ pair' = pair /\ cert' = cert
          /\ pc'[p] \in {"append", "release", "ExitOK"} /\ Cmd(p)' = Cmd(p)
      BY <2>9 DEF SealEntry, AppendEntry, AfterAppend, Cmd
    <3>2. PairAt(p)'
      BY <1>5, <1>6, <3>1 DEF PairAt, Opened, Holding
    <3> QED BY <3>1, <3>2 DEF InitAt, OutputAt
  <2>10. CASE IssuedSerial(p)
    <3>1. pc'[p] = "Revocations" /\ pc[p] = "issuedSerial" /\ pair' = pair
          /\ Cmd(p) # "init"
      BY <2>10 DEF IssuedSerial, CommandAt
    <3>2. PairAt(p)'
      BY <1>5, <1>6, <3>1 DEF Opened, Holding
    <3> QED BY <3>1, <3>2 DEF InitAt, OutputAt
  <2>11. CASE Verify(p) \/ AuditVerify(p) \/ Release(p) \/ RuntimeErr(p)
              \/ Findings(p)
    <3>1. pc'[p] \in Ended
      BY <2>11 DEF Verify, AuditVerify, Release, RuntimeErr, Findings, Exit, Ended
    <3> QED BY <3>1 DEF InitAt, OutputAt, PairAt, Ended, Opened, Holding
  <2> QED BY <1>6, <2>1, <2>2, <2>3, <2>4, <2>5, <2>6, <2>7, <2>8, <2>9, <2>10,
             <2>11 DEF Step
<1> QED BY <1>2, <1>3, <1>4, <1>6, StepCases

\* Certificates are handed out by Release alone.
LEMMA ReleasedStep ==
  ASSUME [Next]_vars
  PROVE  released' = released
           \/ \E p \in Proc : Release(p) /\ released' = released \cup {cert[p]}
BY DEF Next, Start, Step, Stop, EditPolicy, AllEnded, vars, files, Exit, InitStat,
   OpenKey, OpenPub, OpenPolicy, NextSerial, IssuedSerial, ReadRevocations,
   Verify, AuditVerify, RenderKRL, Create, Write, SealEntry, AppendEntry, Release,
   RuntimeErr, Findings

\* Every step keeps the directory in the order of Init's writes.
LEMMA SetupNext ==
  Control /\ Solo /\ TypeInv /\ Truncated /\ SetupInv /\ [Next]_vars => SetupInv'
<1> SUFFICES ASSUME Control, Solo, TypeInv, Truncated, SetupInv, [Next]_vars
             PROVE  SetupInv'
  OBVIOUS
<1>1. ASSUME NEW c \in released'
      PROVE  /\ c.certType = "user" /\ dir'["ca.pub"] = File(c.signedBy)
             /\ c.signatureKey = c.signedBy
  <2>1. CASE c \in released
    <3>1. dir["ca.pub"] = File(c.signedBy)
      BY <2>1 DEF SetupInv
    <3>2. Decodes("ca.pub")
      BY <3>1 DEF Decodes, File
    <3> QED BY <2>1, <3>1, <3>2, KeysStay DEF SetupInv
  <2>2. ASSUME NEW p \in Proc, Release(p), c = cert[p]
        PROVE  /\ c.certType = "user" /\ dir'["ca.pub"] = File(c.signedBy)
               /\ c.signatureKey = c.signedBy
    <3>1. pc[p] = "release" /\ Cmd(p) = "issue" /\ dir' = dir
      BY <2>2 DEF Release, Control, CommandAt
    <3>2. PairAt(p)
      BY DEF SetupInv
    <3> QED BY <2>2, <3>1, <3>2 DEF PairAt, Opened, Holding
  <2> QED BY <1>1, <2>1, <2>2, ReleasedStep
<1> QED BY <1>1, SetupDirNext, SetupAtNext DEF SetupInv

\* The directory is set up in order, whichever commands are killed.
LEMMA SetupAlways == ASSUME Exclusive PROVE Spec => []SetupInv
BY SetupInit, SetupNext, OneAtATime, ControlAlways, TypeAlways, TruncatedAlways, PTL
   DEF Spec

-----------------------------------------------------------------------------
\* Verify.  The certificate given to verify is one that was handed out or a
\* stranger's; what verify has accepted stays acceptable.

Sound(p) ==
  LET c == req[p].cert
  IN  /\ c.certType = "user" /\ LoggedIn(log, c)
      /\ c.validAfter <= req[p].at /\ req[p].at < c.validBefore
      /\ ~ RevokedBefore(p, c)

VerifyAt(p) ==
  /\ pc[p] # "idle" /\ Cmd(p) = "verify" =>
       /\ req[p].cert \in released \cup ForeignCerts
       /\ req[p].at \in VerifyTimes
  /\ Succeeded(p, {"verify"}) => Sound(p)

VerifyInv == \A p \in Proc : VerifyAt(p)

\* A certificate that has been handed out stays so.
LEMMA ReleasedStays == ASSUME [Next]_vars PROVE released \subseteq released'
BY ReleasedStep

\* The command line of a process is set when it starts.
LEMMA RequestStays ==
  ASSUME Control, [Next]_vars, NEW p \in Proc
  PROVE  \/ Start(p)
         \/ pc'[p] = "idle"
         \/ pc[p] # "idle" /\ req'[p] = req[p] /\ before'[p] = before[p]
<1> USE DEF Control, Domains, files, locals, Goto
<1>1. ASSUME Untouched(p)
      PROVE  pc'[p] = "idle" \/ (pc[p] # "idle" /\ req'[p] = req[p] /\ before'[p] = before[p])
  BY <1>1 DEF Untouched
<1>2. ASSUME NEW q \in Proc, q # p, Start(q) \/ Step(q) \/ Stop(q)
      PROVE  Untouched(p)
  BY <1>2, OthersUntouched
<1>3. CASE EditPolicy \/ UNCHANGED vars
  BY <1>1, <1>3 DEF EditPolicy, vars, Untouched
<1>4. CASE Step(p) \/ Stop(p)
  <2>1. pc[p] # "idle"
    BY <1>4, StepsRun DEF Resting
  <2>2. req' = req /\ before' = before
    BY <1>4 DEF Step, Stop, Exit, InitStat, OpenKey, OpenPub, OpenPolicy,
       NextSerial, IssuedSerial, ReadRevocations, Verify, AuditVerify, RenderKRL,
       Create, Write, SealEntry, AppendEntry, Release, RuntimeErr, Findings
  <2> QED BY <2>1, <2>2
<1> QED BY <1>1, <1>2, <1>3, <1>4 DEF Next, AllEnded

\* Between the first second of 1970 and the last one but one of a uint64.
DatesInRange == VerifyTimes \subseteq 0 .. TimeModulus - 2

\* Nobody else has this authority's key.
KeysAreSecret ==
  \A c \in ForeignCerts : c.certType = "user" => c.signedBy \notin Proc \cup {Provisioner}

\* What the checks of verify establish when it takes its last step.
LEMMA AcceptSound ==
  ASSUME DatesInRange, KeysAreSecret,
         Control, TypeInv, AuditInv, SetupInv, HistoryInv, PromiseInv, VerifyInv,
         NEW p \in Proc, Verify(p)
  PROVE  Sound(p)
<1> DEFINE c == req[p].cert
           t == req[p].at
           file == dir["revoked.json"]
           revs == Revocations(file)
<1>1. pc[p] = "IsRevoked" /\ Cmd(p) = "verify"
  BY DEF Verify, Control, CommandAt
<1>2. /\ c.certType = "user" /\ c.signedBy = pair[p].pub
      /\ ValidAt(c, t) /\ file.kind # "empty" /\ ~ IsRevoked(revs, c)
  BY DEF Verify, Accepts, VerifySignature, RevocationsOK
<1>3. c \in released \cup ForeignCerts /\ t \in VerifyTimes
  BY <1>1 DEF VerifyInv, VerifyAt
<1>4. pair[p].pub \in Proc \cup {Provisioner}
  <2>1. dir["ca.pub"] = File(pair[p].pub)
    BY <1>1 DEF SetupInv, PairAt, Opened
  <2>2. FileOK("ca.pub")
    BY DEF TypeInv, Files
  <2> QED BY <2>1, <2>2 DEF FileOK, DataOK, Content, File, NoFile, EmptyFile
<1>5. LoggedIn(log, c)
  BY <1>2, <1>3, <1>4 DEF KeysAreSecret, AuditInv
<1>6. c.validAfter <= t /\ t < c.validBefore
  <2>1. t \in 0 .. TimeModulus - 2 /\ TimeModulus \in Nat \ {0}
    BY <1>3, TimeAssumption DEF DatesInRange
  <2>2. \A m, n \in Nat : m < n => m % n = m
    OBVIOUS
  <2>3. t % TimeModulus = t
    BY <2>1, <2>2
  <2>4. t < TimeModulus - 1
    BY <2>1
  <2> HIDE DEF c, t
  <2> QED BY <1>2, <2>3, <2>4 DEF ValidAt, Uint64, InfiniteValidity
<1>7. ASSUME NEW q \in before[p], Cmd(q) \in Revokes
      PROVE  ~ Covers(Revocation(req[q]), c)
  <2>1. pc[q] = "ExitOK" /\ q \in Proc
    BY DEF HistoryInv, HistoryAt, Control, Domains
  <2>2. InForce(Revocation(req[q]))
    BY <1>7, <2>1 DEF PromiseInv, Promised, Succeeded
  <2>3. \E i \in DOMAIN revs : revs[i] = Revocation(req[q])
    BY <1>2, <2>2 DEF InForce, EmptyFile
  <2> QED BY <1>2, <2>3 DEF IsRevoked
<1> QED BY <1>2, <1>5, <1>6, <1>7 DEF Sound, RevokedBefore

\* What was accepted stays sound: the log grows, the past does not change.
LEMMA SoundStays ==
  ASSUME Control, ChainInv, HistoryInv, [Next]_vars, NEW p \in Proc,
         Sound(p), req'[p] = req[p], before'[p] = before[p]
  PROVE  Sound(p)'
<1>1. LoggedIn(log', req[p].cert)
  BY LoggedStays DEF Sound, ChainInv
<1>2. \A q \in before[p] : req'[q] = req[q]
  BY SuccessStays DEF HistoryInv, HistoryAt, Control, Domains
<1>3. ~ RevokedBefore(p, req[p].cert)'
  BY <1>2 DEF Sound, RevokedBefore, Cmd
<1> QED BY <1>1, <1>3 DEF Sound

\* A verify is given its certificate when it starts and judges it last.
LEMMA VerifyNext ==
  ASSUME DatesInRange, KeysAreSecret
  PROVE  Control /\ ChainInv /\ TypeInv /\ AuditInv /\ SetupInv /\ HistoryInv
           /\ PromiseInv /\ VerifyInv /\ [Next]_vars => VerifyInv'
<1> SUFFICES ASSUME Control, ChainInv, TypeInv, AuditInv, SetupInv, HistoryInv,
                    PromiseInv, VerifyInv, [Next]_vars, NEW p \in Proc
             PROVE  VerifyAt(p)'
  BY DEF VerifyInv
<1> USE DEF Control, Domains
<1>1. ASSUME pc'[p] # "idle", Cmd(p)' = "verify"
      PROVE  req'[p].cert \in released' \cup ForeignCerts /\ req'[p].at \in VerifyTimes
  <2>1. CASE Start(p)
    <3>1. PICK r \in Commands : req'[p] = r
      BY <2>1 DEF Start
    <3>2. r.cmd = "verify"
      BY <1>1, <3>1 DEF Cmd
    <3>3. r \in [cmd : {"verify"}, cert : released \cup ForeignCerts,
                 at : VerifyTimes]
      BY <3>2, RequestsAssumption DEF Commands
    <3> QED BY <3>1, <3>3, ReleasedStays
  <2>2. CASE pc[p] # "idle" /\ req'[p] = req[p]
    BY <1>1, <2>2, ReleasedStays DEF VerifyInv, VerifyAt, Cmd
  <2> QED BY <1>1, <2>1, <2>2, RequestStays
<1>2. ASSUME Succeeded(p, {"verify"})' PROVE Sound(p)'
  <2>1. CASE Succeeded(p, {"verify"})
    <3>1. Sound(p) /\ req'[p] = req[p] /\ before'[p] = before[p]
      BY <2>1, SuccessStays DEF VerifyInv, VerifyAt, Succeeded
    <3> QED BY <3>1, SoundStays
  <2>2. CASE Verify(p)
    <3>1. Sound(p) /\ req'[p] = req[p] /\ before'[p] = before[p]
      BY <2>2, AcceptSound DEF Verify, Exit
    <3> QED BY <3>1, SoundStays
  <2> QED BY <1>2, <2>1, <2>2, NewSuccess DEF Succeeded, Cmd, Revokes
<1> QED BY <1>1, <1>2 DEF VerifyAt

\* Every state has it.
LEMMA VerifyAlways ==
  ASSUME Exclusive, InvalidIds = {}, DatesInRange, KeysAreSecret
  PROVE  Spec => []VerifyInv
<1>1. Init => VerifyInv
  BY DEF Init, VerifyInv, VerifyAt, Succeeded
<1> QED BY <1>1, VerifyNext, ControlAlways, ChainAlways, TypeAlways,
           AuditAlways, SetupAlways, HistoryAlways, PromisesKept, PTL DEF Spec

\* Verify is sound (VerifySound of CertAuthority): revoked.json is read long
\* after the certificate and the key, by a process that other commands have
\* preceded and some of them left half done, and yet verify accepts only user
\* certificates whose issue entry it has written, inside their window, and not
\* revoked by a command that had reported success.  Assumed: commands do not
\* overlap, key IDs are valid UTF-8, --at lies in the range of the format, and
\* the private key has not signed elsewhere.
THEOREM VerifyIsSound ==
  ASSUME Exclusive, InvalidIds = {}, DatesInRange, KeysAreSecret
  PROVE  Spec => []VerifySound
<1>1. VerifyInv /\ TornInv /\ ChainInv => VerifySound
  BY LoggedIsAudited DEF VerifyInv, VerifyAt, VerifySound, Sound, ChainInv
<1> QED BY <1>1, VerifyAlways, TornAlways, ChainAlways, PTL

-----------------------------------------------------------------------------
\* The exported KRL is the list of some earlier moment: a prefix of revoked.json.

Revs == Revocations(dir["revoked.json"])

PrefixOf(krl, revs) ==
  /\ krl.version \in 0 .. Len(revs)
  /\ krl = KRL(SubSeq(revs, 1, krl.version), krl.caKey)

\* What a command is about to write over either file.
OutputOf(p) == writes[p][1].data

KrlAt(p) ==
  pc[p] \in {"create", "write"} =>
    /\ Cmd(p) \in Revokes =>
         /\ OutputOf(p) \in Seq(RequestedRevocations)
         /\ Decodes("revoked.krl") => PrefixOf(Content("revoked.krl"), OutputOf(p))
    /\ Cmd(p) = "krl" =>
         /\ dir["revoked.json"] # EmptyFile
         /\ PrefixOf(OutputOf(p), Revs)
         /\ dir["ca.pub"] = File(OutputOf(p).caKey)

KrlInv ==
  /\ Decodes("revoked.krl") =>
       /\ dir["ca.pub"] = File(Content("revoked.krl").caKey)
       /\ dir["revoked.json"] # EmptyFile => PrefixOf(Content("revoked.krl"), Revs)
  /\ \A p \in Proc : KrlAt(p)

\* A prefix of a list is one of the longer list.
LEMMA PrefixGrows ==
  ASSUME NEW S, NEW revs \in Seq(S), NEW rev \in S, NEW krl, PrefixOf(krl, revs)
  PROVE  PrefixOf(krl, Append(revs, rev))
<1> DEFINE n == krl.version
           longer == Append(revs, rev)
<1>1. n \in 0 .. Len(revs) /\ krl = KRL(SubSeq(revs, 1, n), krl.caKey)
  BY DEF PrefixOf
<1>2. /\ longer \in Seq(S) /\ Len(longer) = Len(revs) + 1
      /\ \A i \in 1 .. Len(revs) : longer[i] = revs[i]
  OBVIOUS
<1> HIDE DEF longer
<1>3. SubSeq(longer, 1, n) = SubSeq(revs, 1, n)
  BY <1>1, <1>2
<1>4. n \in 0 .. Len(longer)
  BY <1>1, <1>2
<1> QED BY <1>1, <1>3, <1>4 DEF PrefixOf, longer

\* The KRL of a list is a prefix of it.
LEMMA WholeIsPrefix ==
  ASSUME NEW S, NEW revs \in Seq(S), NEW pub
  PROVE  PrefixOf(KRL(revs, pub), revs) /\ KRL(revs, pub).caKey = pub
<1>1. KRL(revs, pub).version = Len(revs) /\ KRL(revs, pub).caKey = pub
  BY DEF KRL
<1>2. SubSeq(revs, 1, Len(revs)) = revs /\ Len(revs) \in 0 .. Len(revs)
  OBVIOUS
<1> QED BY <1>1, <1>2 DEF PrefixOf

\* revoked.json, when it can be read, is a list of requested revocations.
LEMMA RevsAreList ==
  ASSUME TypeInv
  PROVE  Revs \in Seq(RequestedRevocations)
BY DEF Revs, Revocations, TypeInv, FileOK, DataOK, Files, Content, NoFile, EmptyFile

\* Each command's own part.
LEMMA KrlAtNext ==
  ASSUME Control, Solo, TypeInv, SetupInv, KrlInv, [Next]_vars, NEW p \in Proc
  PROVE  KrlAt(p)'
<1> USE DEF Control, Domains, files, locals, Goto
<1>1. KrlAt(p) /\ CommandAt(p)
  BY DEF KrlInv
<1>2. ASSUME dir'["revoked.krl"] = dir["revoked.krl"],
             dir'["revoked.json"] = dir["revoked.json"],
             dir'["ca.pub"] = dir["ca.pub"], pc[p] \in {"create", "write"},
             Cmd(p)' = Cmd(p), writes'[p] = writes[p]
      PROVE  KrlAt(p)'
  BY <1>1, <1>2 DEF KrlAt, OutputOf, Revs, Decodes, Content
<1>3. CASE Untouched(p) /\ (UNCHANGED dir \/ EditPolicy)
  <2>1. /\ dir'["revoked.krl"] = dir["revoked.krl"]
        /\ dir'["revoked.json"] = dir["revoked.json"]
        /\ dir'["ca.pub"] = dir["ca.pub"]
    BY <1>3 DEF EditPolicy, Files
  <2>2. pc'[p] = pc[p] /\ Cmd(p)' = Cmd(p) /\ writes'[p] = writes[p]
    BY <1>3 DEF Untouched, Cmd
  <2> QED BY <1>2, <2>1, <2>2 DEF KrlAt
<1>4. CASE Untouched(p) /\ pc[p] \in Resting
  BY <1>4 DEF Untouched, KrlAt, Resting, Ended
<1>5. CASE Start(p) \/ Stop(p)
  <2>1. pc'[p] \in FirstSteps \cup {"Killed"}
    BY <1>5, FirstStepIs DEF Start, Stop
  <2> QED BY <2>1 DEF KrlAt, FirstSteps
<1>6. CASE Step(p)
  <2>1. CASE InitStat(p)
    BY <2>1 DEF InitStat, CommandAt, Cmd, KrlAt, Revokes
  <2>2. CASE NextSerial(p)
    BY <2>2 DEF NextSerial, CommandAt, Cmd, KrlAt, Revokes
  <2>3. CASE ReadRevocations(p)
    <3> DEFINE own == Marshalled(Revocation(req[p]))
    <3>1. /\ Cmd(p) \in Revokes /\ Cmd(p)' = Cmd(p) /\ dir' = dir
          /\ dir["revoked.json"].kind # "empty"
          /\ OutputOf(p)' = Append(Revs, own)
      BY <2>3 DEF ReadRevocations, MayRevoke, RevocationsOK, Revoke, Revs,
         OutputOf, CommandAt, Cmd
    <3>2. req[p] \in Requests /\ req[p].cmd \in Revokes
      BY <2>3, <3>1 DEF ReadRevocations, CommandAt, Cmd, Revokes
    <3>3. own \in RequestedRevocations
      BY <3>2 DEF RequestedRevocations, Revokes
    <3>4. Append(Revs, own) \in Seq(RequestedRevocations)
      BY <3>3, RevsAreList
    <3>5. Decodes("revoked.krl") => PrefixOf(Content("revoked.krl"), Append(Revs, own))
      BY <3>1, <3>3, RevsAreList, PrefixGrows DEF KrlInv, EmptyFile
    <3> QED BY <3>1, <3>4, <3>5 DEF KrlAt, Decodes, Content, Revokes
  <2>4. CASE RenderKRL(p)
    <3>1. /\ pc[p] = "KRL" /\ Cmd(p) = "krl" /\ Cmd(p)' = "krl" /\ dir' = dir
          /\ dir["revoked.json"].kind # "empty"
          /\ OutputOf(p)' = KRL(Revs, pair[p].pub)
      BY <2>4 DEF RenderKRL, RevocationsOK, Revs, OutputOf, CommandAt, Cmd
    <3>2. PrefixOf(OutputOf(p)', Revs) /\ OutputOf(p)'.caKey = pair[p].pub
      BY <3>1, RevsAreList, WholeIsPrefix
    <3>3. dir["ca.pub"] = File(pair[p].pub)
      BY <3>1 DEF SetupInv, PairAt, Opened
    <3> QED BY <3>1, <3>2, <3>3 DEF KrlAt, Revs, EmptyFile, Revokes
  <2>5. CASE Create(p)
    <3>1. /\ pc[p] = "create" /\ pc'[p] = "write" /\ writes' = writes
          /\ Cmd(p)' = Cmd(p) /\ Cmd(p) \in {"init", "issue", "krl"} \cup Revokes
          /\ dir' = [dir EXCEPT ![Head(writes[p]).file] = EmptyFile]
      BY <2>5 DEF Create, Cmd, CommandAt
    <3>2. CASE Cmd(p) = "krl"
      <4>1. Head(writes[p]).file = "revoked.krl"
        BY <3>1, <3>2, NextWrite DEF OutputFile
      <4>2. dir'["revoked.json"] = dir["revoked.json"]
            /\ dir'["ca.pub"] = dir["ca.pub"]
        BY <3>1, <4>1 DEF Files
      <4> QED BY <1>1, <3>1, <3>2, <4>2 DEF KrlAt, OutputOf, Revs, Revokes
    <3>3. CASE Cmd(p) \in Revokes
      <4>1. Head(writes[p]).file = "revoked.json"
        BY <3>1, <3>3, NextWrite DEF OutputFile, Revokes
      <4>2. dir'["revoked.krl"] = dir["revoked.krl"]
        BY <3>1, <4>1 DEF Files
      <4> QED BY <1>1, <3>1, <3>3, <4>2 DEF KrlAt, OutputOf, Decodes, Content, Revokes
    <3> QED BY <3>1, <3>2, <3>3 DEF KrlAt, Revokes
  <2>6. CASE Write(p)
    <3>1. /\ pc[p] = "write" /\ Cmd(p)' = Cmd(p)
          /\ pc'[p] = IF Tail(writes[p]) = <<>> THEN AfterWrites(Cmd(p)) ELSE "create"
      BY <2>6 DEF Write, Cmd
    <3>2. Cmd(p) \in Revokes \cup {"krl"} => pc'[p] \notin {"create", "write"}
      BY <3>1, NextWrite DEF AfterWrites, Revokes
    <3> QED BY <3>1, <3>2 DEF KrlAt
  <2>7. CASE OpenPolicy(p)
    BY <2>7, RequestsAssumption DEF OpenPolicy, AfterOpen, CommandAt, Cmd, KrlAt
  <2>8. CASE \/ OpenKey(p) \/ OpenPub(p) \/ IssuedSerial(p) \/ Verify(p)
             \/ AuditVerify(p) \/ SealEntry(p) \/ AppendEntry(p) \/ Release(p)
             \/ RuntimeErr(p) \/ Findings(p)
    BY <2>8 DEF OpenKey, OpenPub, IssuedSerial, Verify, AuditVerify, SealEntry,
       AppendEntry, AfterAppend, Release, RuntimeErr, Findings, Exit, KrlAt
  <2> QED BY <1>6, <2>1, <2>2, <2>3, <2>4, <2>5, <2>6, <2>7, <2>8 DEF Step
<1> QED BY <1>3, <1>4, <1>5, <1>6, StepCases

\* Both files are written by commands that carry the prefix over.
LEMMA KrlNext ==
  Control /\ Solo /\ TypeInv /\ Truncated /\ SetupInv /\ KrlInv /\ [Next]_vars
    => KrlInv'
<1> SUFFICES ASSUME Control, Solo, TypeInv, Truncated, SetupInv, KrlInv, [Next]_vars,
                    Decodes("revoked.krl")'
             PROVE  /\ dir'["ca.pub"] = File(dir'["revoked.krl"].data.caKey)
                    /\ dir'["revoked.json"] # EmptyFile =>
                         PrefixOf(dir'["revoked.krl"].data, Revs')
  BY KrlAtNext DEF KrlInv, Content
<1> USE DEF Control, Domains
<1> DEFINE Good == /\ dir'["ca.pub"] = File(dir'["revoked.krl"].data.caKey)
                   /\ dir'["revoked.json"] # EmptyFile =>
                        PrefixOf(dir'["revoked.krl"].data, Revs')
<1>1. ASSUME dir'["revoked.krl"] = dir["revoked.krl"]
      PROVE  dir'["ca.pub"] = File(dir'["revoked.krl"].data.caKey)
  <2>1. dir["ca.pub"] = File(dir["revoked.krl"].data.caKey)
    BY <1>1 DEF KrlInv, Decodes, Content
  <2>2. Decodes("ca.pub")
    BY <2>1 DEF Decodes, File
  <2> QED BY <1>1, <2>1, <2>2, KeysStay
<1>2. CASE /\ dir'["revoked.krl"] = dir["revoked.krl"]
           /\ dir'["revoked.json"] = dir["revoked.json"]
  BY <1>1, <1>2 DEF KrlInv, Revs, Decodes, Content
<1>3. CASE EditPolicy
  BY <1>2, <1>3 DEF EditPolicy, Files
<1>4. ASSUME NEW p \in Proc, Create(p) PROVE Good
  <2>1. dir' = [dir EXCEPT ![Head(writes[p]).file] = EmptyFile]
    BY <1>4 DEF Create
  <2>2. dir'["revoked.krl"] = dir["revoked.krl"]
    BY <2>1 DEF Decodes, EmptyFile, Files
  <2>3. dir'["revoked.json"] = dir["revoked.json"] \/ dir'["revoked.json"] = EmptyFile
    BY <2>1 DEF Files
  <2> QED BY <1>1, <1>2, <2>2, <2>3
<1>5. ASSUME NEW p \in Proc, Write(p) PROVE Good
  <2>1. /\ pc[p] = "write" /\ CommandAt(p) /\ KrlAt(p)
        /\ \E x : dir' = [dir EXCEPT ![Head(writes[p]).file] = x]
        /\ Head(writes[p]).file # "policy.json" =>
             dir' = [dir EXCEPT ![Head(writes[p]).file] = File(Head(writes[p]).data)]
    BY <1>5, WriteAlone, WriteLeaves DEF Write, KrlInv
  <2>2. Head(writes[p]) = writes[p][1]
    BY <2>1, TailList DEF TypeInv, TypeAt, Pending
  <2>3. CASE Cmd(p) = "krl"
    <3>1. Head(writes[p]).file = "revoked.krl"
      BY <2>1, <2>3, NextWrite DEF OutputFile
    <3>2. /\ dir'["revoked.krl"].data = OutputOf(p)
          /\ dir'["revoked.json"] = dir["revoked.json"]
          /\ dir'["ca.pub"] = dir["ca.pub"]
      BY <2>1, <2>2, <3>1 DEF Files, File, OutputOf
    <3> QED BY <2>1, <2>3, <3>2 DEF KrlAt, Revs
  <2>4. CASE Cmd(p) \in Revokes
    <3>1. Head(writes[p]).file = "revoked.json"
      BY <2>1, <2>4, NextWrite DEF OutputFile, Revokes
    <3>2. dir'["revoked.krl"] = dir["revoked.krl"]
          /\ dir'["revoked.json"] = File(OutputOf(p))
      BY <2>1, <2>2, <3>1 DEF Files, OutputOf
    <3>3. Revs' = OutputOf(p)
      BY <3>2 DEF Revs, Revocations, File
    <3> QED BY <1>1, <2>1, <2>4, <3>2, <3>3 DEF KrlAt, Decodes, Content
  <2>5. CASE Cmd(p) \in {"init", "issue"}
    <3>1. Head(writes[p]).file \notin {"revoked.krl", "revoked.json"}
      <4>1. CASE Cmd(p) = "init"
        <5>1. Head(writes[p]) \in {KeyW(p), PubW(p), PolicyW, SerialW}
          BY <2>1, <4>1, NextWrite
        <5> QED BY <5>1 DEF KeyW, PubW, PolicyW, SerialW
      <4>2. CASE Cmd(p) = "issue"
        BY <2>1, <4>2, NextWrite DEF OutputFile
      <4> QED BY <2>5, <4>1, <4>2
    <3> QED BY <1>2, <2>1, <3>1 DEF Files
  <2> QED BY <2>1, <2>3, <2>4, <2>5 DEF CommandAt
<1>6. CASE dir' = dir
  BY <1>2, <1>6
<1> QED BY <1>3, <1>4, <1>5, <1>6, DirStep

\* krl refuses what the revocations known revoke, and names nothing else.
Refuses(krl, known) ==
  /\ \A c : IsRevoked(known, c) <=> \/ c.serial \in krl.serials
                                   \/ c.keyID \in krl.keyIDs
  /\ krl.serials \subseteq {known[i].serial : i \in DOMAIN known}
  /\ krl.keyIDs \subseteq {known[i].keyID : i \in DOMAIN known}

\* What a prefix refuses is what its revocations cover.
LEMMA PrefixMeans ==
  ASSUME NEW krl, NEW revs, PrefixOf(krl, revs)
  PROVE  Refuses(krl, SubSeq(revs, 1, krl.version))
<1> DEFINE known == SubSeq(revs, 1, krl.version)
<1>1. krl = KRL(known, krl.caKey)
  BY DEF PrefixOf
<1> HIDE DEF known
<1>2. /\ krl.serials = {known[i].serial : i \in DOMAIN known} \ {0}
      /\ krl.keyIDs = {known[i].keyID :
                         i \in {j \in DOMAIN known : known[j].serial = 0}} \ {NoKeyID}
  BY <1>1 DEF KRL
<1>3. ASSUME NEW c
      PROVE  IsRevoked(known, c) <=> \/ c.serial \in krl.serials
                                    \/ c.keyID \in krl.keyIDs
  <2>1. c.serial \in krl.serials <=>
          \E i \in DOMAIN known : known[i].serial # 0 /\ known[i].serial = c.serial
    BY <1>2
  <2>2. c.keyID \in krl.keyIDs <=>
          \E i \in DOMAIN known : /\ known[i].serial = 0
                                 /\ known[i].keyID # NoKeyID
                                 /\ known[i].keyID = c.keyID
    BY <1>2
  <2> QED BY <2>1, <2>2 DEF IsRevoked, Covers
<1>4. /\ krl.serials \subseteq {known[i].serial : i \in DOMAIN known}
      /\ krl.keyIDs \subseteq {known[i].keyID : i \in DOMAIN known}
  BY <1>2
<1> QED BY <1>3, <1>4 DEF known, Refuses

\* The invariant behind the two theorems about KRLs.
LEMMA KrlAlways == ASSUME Exclusive PROVE Spec => []KrlInv
<1>1. Init => KrlInv
  <2> SUFFICES ASSUME Init PROVE KrlInv
    OBVIOUS
  <2>1. dir["revoked.krl"] = NoFile
    BY DEF Init, FreshDir, ProvisionedDir, Files
  <2> QED BY <2>1 DEF Init, KrlInv, KrlAt, Decodes, NoFile
<1> QED BY <1>1, KrlNext, OneAtATime, ControlAlways, TypeAlways, TruncatedAlways,
           SetupAlways, PTL DEF Spec

\* A KRL is the list at its version (KRLIsPrefix of CertAuthority): however many
\* revokes and exports follow one another, and wherever they are killed, a KRL
\* that can be read names the authority's key and refuses exactly what the first
\* so many revocations of revoked.json revoke.
THEOREM KRLsArePrefixes == ASSUME Exclusive PROVE Spec => []KRLIsPrefix
<1>1. TypeInv /\ KrlInv => KRLIsPrefix
  <2> SUFFICES ASSUME TypeInv, KrlInv, Decodes("revoked.krl"), Decodes("revoked.json")
               PROVE  LET krl   == Content("revoked.krl")
                          known == SubSeq(Content("revoked.json"), 1, krl.version)
                      IN  /\ krl.version <= Len(Content("revoked.json"))
                          /\ krl.caKey = Content("ca.pub")
                          /\ \A c \in released :
                               IsRevoked(known, c) <=> \/ c.serial \in krl.serials
                                                      \/ c.keyID \in krl.keyIDs
                          /\ krl.serials \subseteq {known[i].serial : i \in DOMAIN known}
                          /\ krl.keyIDs \subseteq {known[i].keyID : i \in DOMAIN known}
    BY DEF KRLIsPrefix
  <2>1. Revs = Content("revoked.json") /\ dir["revoked.json"] # EmptyFile
    BY DEF Revs, Revocations, Decodes, Content, EmptyFile
  <2>2. PrefixOf(Content("revoked.krl"), Content("revoked.json"))
    BY <2>1 DEF KrlInv
  <2>3. Content("revoked.krl").caKey = Content("ca.pub")
    BY DEF KrlInv, Content, File
  <2>4. Content("revoked.krl").version <= Len(Content("revoked.json"))
    BY <2>1, <2>2, RevsAreList DEF PrefixOf
  <2> DEFINE krl   == Content("revoked.krl")
             known == SubSeq(Content("revoked.json"), 1, krl.version)
  <2>5. Refuses(krl, known)
    BY <2>2, PrefixMeans
  <2> HIDE DEF krl, known
  <2>6. /\ \A c \in released : IsRevoked(known, c) <=> \/ c.serial \in krl.serials
                                                     \/ c.keyID \in krl.keyIDs
        /\ krl.serials \subseteq {known[i].serial : i \in DOMAIN known}
        /\ krl.keyIDs \subseteq {known[i].keyID : i \in DOMAIN known}
    BY <2>5 DEF Refuses
  <2> QED BY <2>3, <2>4, <2>6 DEF krl, known
<1> QED BY <1>1, KrlAlways, TypeAlways, PTL

-----------------------------------------------------------------------------
\* The acknowledged revocations are in every export that follows.

Exported(p) == Succeeded(p, {"krl"})

Lists(krl) == \A q \in Proc : Succeeded(q, Revokes) => ListedIn(krl, Revocation(req[q]))

ExportAt(p) ==
  /\ pc[p] \notin Resting => \A q \in Proc : pc[q] = "ExitOK" => q \in before[p]
  /\ pc[p] \in {"create", "write"} /\ Cmd(p) = "krl" => Lists(OutputOf(p))

ExportInv ==
  /\ dir["revoked.krl"] = NoFile => \A p \in Proc : ~ Exported(p)
  /\ dir["revoked.krl"] = EmptyFile => \A p \in Proc : Exported(p) => Overwriting(p)
  /\ Decodes("revoked.krl") =>
       \A p \in Proc : Exported(p) =>
         \A q \in before[p] : Cmd(q) \in Revokes =>
           ListedIn(Content("revoked.krl"), Revocation(req[q]))
  /\ \A p \in Proc : ExportAt(p)

\* A revocation in revoked.json is in the KRL rendered from it.
LEMMA ListedInKRL ==
  ASSUME NEW r \in Requests, r.cmd \in Revokes, NEW revs, NEW pub,
         NEW i \in DOMAIN revs, revs[i] = Revocation(r)
  PROVE  ListedIn(KRL(revs, pub), Revocation(r))
<1>1. CASE r.cmd = "revokeSerial"
  <2>1. Revocation(r).serial = r.serial /\ r.serial # 0
    BY <1>1, RequestsAssumption, AuthorityAssumption DEF Revocation
  <2>2. r.serial \in {revs[j].serial : j \in DOMAIN revs} \ {0}
    BY <2>1
  <2> QED BY <2>1, <2>2 DEF ListedIn, KRL
<1>2. CASE r.cmd = "revokeKeyID"
  <2>1. Revocation(r).serial = 0 /\ Revocation(r).keyID = r.keyID /\ r.keyID # NoKeyID
    BY <1>2, RequestsAssumption DEF Revocation
  <2>2. i \in {j \in DOMAIN revs : revs[j].serial = 0}
    BY <2>1
  <2>3. r.keyID \in {revs[k].keyID : k \in {j \in DOMAIN revs : revs[j].serial = 0}}
                      \ {NoKeyID}
    BY <2>1, <2>2
  <2> QED BY <2>1, <2>3 DEF ListedIn, KRL
<1> QED BY <1>1, <1>2 DEF Revokes

\* What krl renders lists everything acknowledged so far.
LEMMA RenderLists ==
  ASSUME Control, PromiseInv, NEW pub, dir["revoked.json"].kind # "empty"
  PROVE  Lists(KRL(Revs, pub))
<1> SUFFICES ASSUME NEW q \in Proc, Succeeded(q, Revokes)
             PROVE  ListedIn(KRL(Revs, pub), Revocation(req[q]))
  BY DEF Lists
<1>1. req[q] \in Requests /\ req[q].cmd \in Revokes
  BY DEF Control, CommandAt, Succeeded, Cmd, Revokes
<1>2. InForce(Revocation(req[q]))
  BY DEF PromiseInv, Promised
<1>3. PICK i \in DOMAIN Revs : Revs[i] = Revocation(req[q])
  BY <1>2 DEF InForce, EmptyFile, Revs
<1> QED BY <1>1, <1>3, ListedInKRL

\* While a krl runs, no revoke succeeds.
LEMMA ListsStay ==
  ASSUME Control, Solo, [Next]_vars, NEW p \in Proc, pc[p] \notin Resting,
         Cmd(p) = "krl", NEW krl, Lists(krl)
  PROVE  Lists(krl)'
<1> SUFFICES ASSUME NEW q \in Proc, Succeeded(q, Revokes)'
             PROVE  ListedIn(krl, Revocation(req'[q]))
  BY DEF Lists
<1>1. /\ req'[q] = req[q]
      /\ pc[q] = "ExitOK" \/ pc[q] = "append" \/ Cmd(q) \notin Revokes
  BY NewSuccess DEF Succeeded, AppendEntry, Revokes
<1>2. Cmd(q) \in Revokes
  BY <1>1 DEF Succeeded, Cmd
<1>3. pc[q] # "append"
  BY <1>2 DEF Solo, Resting, Ended, Revokes
<1> QED BY <1>1, <1>2, <1>3 DEF Lists, Succeeded

\* A running command has all the successful ones before it.
LEMMA BeforeStays ==
  ASSUME Control, Solo, Exclusive, ExportInv, [Next]_vars,
         NEW p \in Proc, pc'[p] \notin Resting, NEW q \in Proc, pc'[q] = "ExitOK"
  PROVE  q \in before'[p]
<1> USE DEF Control, Domains, Goto
<1>1. CASE Start(p)
  <2>1. q # p
    BY DEF Resting, Ended
  <2>2. pc[q] = "ExitOK"
    BY <1>1, <2>1, OthersUntouched DEF Start
  <2> QED BY <1>1, <2>2 DEF Start
<1>2. CASE pc[p] # "idle" /\ before'[p] = before[p] /\ pc[p] \notin Resting
  <2>1. p # q
    BY DEF Resting, Ended
  <2>2. pc[q] = "ExitOK"
    <3>1. pc[q] # "idle" /\ (pc[q] = "ExitOK" \/ Step(q))
      BY NewSuccess DEF Step
    <3> QED BY <1>2, <2>1, <3>1, StepsRun DEF Solo
  <2> QED BY <1>2, <2>2 DEF ExportInv, ExportAt
<1>3. CASE pc[p] \in Resting /\ ~ Start(p)
  <2>1. ~ Step(p) /\ ~ Stop(p)
    BY <1>3, StepsRun
  <2>2. Untouched(p)
    BY <1>3, <2>1, StepCases
  <2> QED BY <1>3, <2>2 DEF Untouched
<1> QED BY <1>1, <1>2, <1>3, RequestStays DEF Resting

\* What a krl is about to write.
LEMMA ExportAtNext ==
  ASSUME Exclusive, Control, Solo, TypeInv, SetupInv, PromiseInv, ExportInv,
         [Next]_vars, NEW p \in Proc
  PROVE  ExportAt(p)'
<1> USE DEF Control, Domains, files, locals, Goto
<1>1. ASSUME pc'[p] \in {"create", "write"}, Cmd(p)' = "krl"
      PROVE  Lists(OutputOf(p))'
  <2>1. PICK krl : krl = OutputOf(p)'
    OBVIOUS
  <2>2. SUFFICES Lists(krl)'
    BY <2>1 DEF Lists
  <2>3. pc'[p] \notin FirstSteps
    BY <1>1 DEF FirstSteps
  <2>4. ~ Start(p)
    BY <2>3, FirstStepIs DEF Start
  <2>5. pc[p] # "idle" /\ req'[p] = req[p] /\ Cmd(p) = "krl"
    BY <1>1, <2>4, RequestStays DEF Cmd
  <2>6. ASSUME pc[p] \in {"create", "write"}, writes'[p] = writes[p] PROVE Lists(krl)'
    <3>1. Lists(krl)
      BY <2>1, <2>5, <2>6 DEF ExportInv, ExportAt, OutputOf
    <3> QED BY <2>5, <2>6, <3>1, ListsStay DEF Resting, Ended
  <2>7. CASE Untouched(p)
    BY <1>1, <2>6, <2>7 DEF Untouched
  <2>8. CASE Step(p)
    <3>1. CASE RenderKRL(p)
      <4>1. pc[p] = "KRL" /\ krl = KRL(Revs, pair[p].pub)
            /\ dir["revoked.json"].kind # "empty"
        BY <2>1, <3>1 DEF RenderKRL, RevocationsOK, Revs, OutputOf
      <4>2. Lists(krl)
        BY <4>1, RenderLists
      <4> QED BY <2>5, <4>1, <4>2, ListsStay DEF Resting, Ended
    <3>2. CASE Create(p)
      BY <2>6, <3>2 DEF Create
    <3>3. CASE Write(p)
      <4>1. Tail(writes[p]) = <<>>
        BY <2>5, <3>3, NextWrite DEF Write
      <4> QED BY <1>1, <3>3, <4>1 DEF Write, AfterWrites
    <3>4. CASE InitStat(p) \/ NextSerial(p) \/ ReadRevocations(p)
      BY <2>5, <3>4 DEF InitStat, NextSerial, ReadRevocations, CommandAt, Revokes
    <3>5. CASE OpenPolicy(p)
      BY <1>1, <2>5, <3>5 DEF OpenPolicy, AfterOpen
    <3>6. CASE \/ OpenKey(p) \/ OpenPub(p) \/ IssuedSerial(p) \/ Verify(p)
               \/ AuditVerify(p) \/ SealEntry(p) \/ AppendEntry(p) \/ Release(p)
               \/ RuntimeErr(p) \/ Findings(p)
      BY <1>1, <3>6 DEF OpenKey, OpenPub, IssuedSerial, Verify, AuditVerify,
         SealEntry, AppendEntry, AfterAppend, Release, RuntimeErr, Findings, Exit
    <3> QED BY <2>8, <3>1, <3>2, <3>3, <3>4, <3>5, <3>6 DEF Step
  <2>9. CASE Stop(p)
    BY <1>1, <2>9 DEF Stop
  <2> QED BY <2>4, <2>7, <2>8, <2>9, StepCases
<1> QED BY <1>1, BeforeStays DEF ExportAt

\* A krl that has truncated the file is still writing it or was killed.
LEMMA OverwritingStays ==
  ASSUME Control, Truncated, SetupInv, [Next]_vars, NEW p \in Proc, Overwriting(p),
         dir'["revoked.krl"] = EmptyFile
  PROVE  Overwriting(p)'
<1> USE DEF Control, Domains, Goto
<1>1. PICK q \in Proc : /\ pc[q] \in {"write", "Killed"} /\ Cmd(q) = "krl"
                        /\ p \in before[q]
  BY DEF Overwriting
<1>2. ~ Start(q)
  BY <1>1 DEF Start
<1>3. ~ Write(q)
  <2>1. ASSUME Write(q) PROVE FALSE
    <3>1. pc[q] = "write"
      BY <2>1 DEF Write
    <3>2. Head(writes[q]).file = "revoked.krl"
      BY <1>1, <3>1, NextWrite DEF OutputFile
    <3>3. dir' = [dir EXCEPT ![Head(writes[q]).file] = File(Head(writes[q]).data)]
      BY <2>1, <3>2, WriteAlone
    <3> QED BY <3>2, <3>3 DEF Files, File, EmptyFile
  <2> QED BY <2>1
<1>4. pc'[q] \in {"write", "Killed"}
  <2>1. CASE Untouched(q)
    BY <1>1, <2>1 DEF Untouched
  <2>2. CASE Stop(q)
    BY <2>2 DEF Stop
  <2>3. Step(q) => Write(q)
    <3>1. Step(q) => pc[q] = "write"
      BY <1>1, StepsRun DEF Resting, Ended
    <3> QED BY <3>1 DEF Step, InitStat, OpenKey, OpenPub, OpenPolicy, NextSerial,
       IssuedSerial, ReadRevocations, Verify, AuditVerify, RenderKRL, Create,
       SealEntry, AppendEntry, Release, RuntimeErr, Broken, Findings, Negative
  <2>4. ASSUME NEW r \in Proc, r # q, Start(r) \/ Step(r) \/ Stop(r)
        PROVE  Untouched(q)
    BY <2>4, OthersUntouched
  <2>5. CASE EditPolicy \/ UNCHANGED vars
    BY <1>1, <2>5 DEF EditPolicy, vars
  <2> QED BY <1>2, <1>3, <2>1, <2>2, <2>3, <2>4, <2>5 DEF Next, AllEnded
<1>5. Cmd(q)' = "krl" /\ p \in before'[q]
  BY <1>1, <1>2, <1>4, RequestStays DEF Cmd
<1> QED BY <1>4, <1>5 DEF Overwriting

\* An export succeeds by writing its file.
LEMMA NewExport ==
  ASSUME Control, [Next]_vars, NEW p \in Proc, Exported(p)'
  PROVE  \/ Exported(p) /\ before'[p] = before[p]
         \/ Write(p) /\ Cmd(p) = "krl" /\ before'[p] = before[p]
<1>1. Write(p) => before' = before
  BY DEF Write
<1> QED BY <1>1, NewSuccess, SuccessStays DEF Exported, Succeeded, Cmd, Revokes

\* The file is extended by every export and never set back.
LEMMA ExportNext ==
  ASSUME Exclusive
  PROVE  Control /\ Solo /\ TypeInv /\ Truncated /\ SetupInv /\ HistoryInv
           /\ PromiseInv /\ ExportInv /\ [Next]_vars => ExportInv'
<1> SUFFICES ASSUME Control, Solo, TypeInv, Truncated, SetupInv, HistoryInv,
                    PromiseInv, ExportInv, [Next]_vars
             PROVE  ExportInv'
  OBVIOUS
<1> USE DEF Control, Domains
<1> DEFINE old == dir["revoked.krl"]
           new == dir'["revoked.krl"]
<1>1. ASSUME NEW p \in Proc, Write(p), Cmd(p) = "krl"
      PROVE  new = File(OutputOf(p)) /\ Lists(OutputOf(p))
  <2>1. pc[p] = "write"
    BY <1>1 DEF Write
  <2>2. Head(writes[p]).file = "revoked.krl" /\ Head(writes[p]) = writes[p][1]
    BY <1>1, <2>1, NextWrite, TailList DEF OutputFile, TypeInv, TypeAt, Pending
  <2> QED BY <1>1, <2>1, <2>2, WriteAlone DEF Files, OutputOf, ExportInv, ExportAt
<1>2. ASSUME NEW p \in Proc, Exported(p)', NEW q \in before'[p], Cmd(q)' \in Revokes
      PROVE  Succeeded(q, Revokes) /\ req'[q] = req[q] /\ q \in Proc /\ q \in before[p]
  <2>1. q \in before[p] /\ q \in Proc
    BY <1>2, NewExport
  <2>2. pc[q] = "ExitOK"
    BY <2>1 DEF HistoryInv, HistoryAt
  <2>3. req'[q] = req[q]
    BY <2>1, <2>2, SuccessStays
  <2> QED BY <1>2, <2>1, <2>2, <2>3 DEF Succeeded, Cmd
<1>3. ASSUME new = NoFile, NEW p \in Proc PROVE ~ Exported(p)'
  <2>1. old = NoFile
    BY <1>3, FilesStay DEF Files
  <2>2. \A d : File(d) # NoFile
    BY DEF File, NoFile
  <2> QED BY <1>1, <1>3, <2>1, <2>2, NewExport DEF ExportInv
<1>4. ASSUME new = EmptyFile, NEW p \in Proc, Exported(p)' PROVE Overwriting(p)'
  <2>1. \A d : File(d) # EmptyFile
    BY DEF File, EmptyFile
  <2>2. Exported(p)
    BY <1>1, <1>4, <2>1, NewExport
  <2>3. CASE old = EmptyFile
    BY <1>4, <2>2, <2>3, OverwritingStays DEF ExportInv
  <2>4. CASE old # EmptyFile
    <3>1. PICK q \in Proc : Create(q) /\ Head(writes[q]).file = "revoked.krl"
      <4>1. CASE EditPolicy
        BY <1>4, <2>4, <4>1 DEF EditPolicy, Files
      <4>2. ASSUME NEW q \in Proc, Write(q) PROVE FALSE
        <5>1. Head(writes[q]).file = "revoked.krl"
          BY <1>4, <2>4, <4>2, WriteLeaves DEF Files
        <5> QED BY <1>4, <2>1, <4>2, <5>1, WriteAlone DEF Files
      <4>3. ASSUME NEW q \in Proc, Create(q) PROVE Head(writes[q]).file = "revoked.krl"
        BY <1>4, <2>4, <4>3 DEF Create, Files
      <4> QED BY <1>4, <2>4, <4>1, <4>2, <4>3, DirStep
    <3>2. /\ pc[q] = "create" /\ pc'[q] = "write" /\ before' = before
          /\ Cmd(q)' = Cmd(q) /\ CommandAt(q)
      BY <3>1 DEF Create, Goto, Cmd
    <3>3. Cmd(q) = "krl"
      <4>1. Cmd(q) # "init"
        <5>1. Head(writes[q]) \notin {KeyW(q), PubW(q), PolicyW, SerialW}
          BY <3>1 DEF KeyW, PubW, PolicyW, SerialW
        <5> QED BY <3>2, <5>1, NextWrite
      <4>2. OutputFile(Cmd(q)) = "revoked.krl"
        BY <3>1, <3>2, <4>1, NextWrite
      <4> QED BY <4>2 DEF OutputFile
    <3>4. p \in before[q]
      BY <2>2, <3>2 DEF ExportInv, ExportAt, Resting, Ended, Exported, Succeeded
    <3> QED BY <1>4, <3>2, <3>3, <3>4 DEF Overwriting
  <2> QED BY <2>3, <2>4
<1>5. ASSUME new.kind = "data", NEW p \in Proc, Exported(p)', NEW q \in before'[p],
             Cmd(q)' \in Revokes
      PROVE  ListedIn(new.data, Revocation(req'[q]))
  <2>1. Succeeded(q, Revokes) /\ req'[q] = req[q] /\ q \in Proc /\ q \in before[p]
    BY <1>2, <1>5
  <2>2. CASE \E r \in Proc : Write(r) /\ Cmd(r) = "krl"
    <3>1. PICK r \in Proc : new = File(OutputOf(r)) /\ Lists(OutputOf(r))
      BY <1>1, <2>2
    <3>2. new.data = OutputOf(r)
      BY <3>1 DEF File
    <3> QED BY <2>1, <3>1, <3>2 DEF Lists
  <2>3. CASE ~ \E r \in Proc : Write(r) /\ Cmd(r) = "krl"
    <3>1. Exported(p)
      BY <1>5, <2>3, NewExport
    <3>2. new = old
      <4>1. CASE EditPolicy
        BY <4>1 DEF EditPolicy, Files
      <4>2. ASSUME NEW r \in Proc, Create(r) PROVE new = old
        BY <1>5, <4>2 DEF Create, Files, EmptyFile
      <4>3. ASSUME NEW r \in Proc, Write(r) PROVE new = old
        <5>1. pc[r] = "write" /\ Cmd(r) # "krl"
          BY <2>3, <4>3 DEF Write
        <5>2. Head(writes[r]).file # "revoked.krl"
          <6>1. CASE Cmd(r) = "init"
            <7>1. Head(writes[r]) \in {KeyW(r), PubW(r), PolicyW, SerialW}
              BY <5>1, <6>1, NextWrite
            <7> QED BY <7>1 DEF KeyW, PubW, PolicyW, SerialW
          <6>2. CASE Cmd(r) # "init"
            BY <5>1, <6>2, NextWrite DEF OutputFile
          <6> QED BY <6>1, <6>2
        <5> QED BY <4>3, <5>2 DEF Write, Files
      <4> QED BY <4>1, <4>2, <4>3, DirStep
    <3> QED BY <1>5, <2>1, <3>1, <3>2 DEF ExportInv, Decodes, Content, Succeeded
  <2> QED BY <2>2, <2>3
<1>6. \A p \in Proc : ExportAt(p)'
  BY ExportAtNext
<1> QED BY <1>3, <1>4, <1>5, <1>6 DEF ExportInv, Decodes, Content

\* Every state has it.
LEMMA ExportAlways ==
  ASSUME Exclusive, InvalidIds = {} PROVE Spec => []ExportInv
<1>1. Init => ExportInv
  <2> SUFFICES ASSUME Init PROVE ExportInv
    OBVIOUS
  <2>1. dir["revoked.krl"] = NoFile
    BY DEF Init, FreshDir, ProvisionedDir, Files
  <2> QED BY <2>1 DEF Init, ExportInv, ExportAt, Exported, Succeeded, Decodes,
             NoFile, EmptyFile, Resting
<1> QED BY <1>1, ExportNext, OneAtATime, ControlAlways, TypeAlways,
           TruncatedAlways, SetupAlways, HistoryAlways, PromisesKept, PTL DEF Spec

\* Exported revocations are refused (ExportedRevocationsRefused of
\* CertAuthority): a revocation that had been acknowledged when a krl command
\* started is in the file it writes and in every later version, unless a later
\* krl was killed between truncating the file and writing it.
THEOREM ExportsRefuse ==
  ASSUME Exclusive, InvalidIds = {} PROVE Spec => []ExportedRevocationsRefused
<1>1. TypeInv /\ ExportInv => ExportedRevocationsRefused
  <2> SUFFICES ASSUME TypeInv, ExportInv, NEW p \in Proc, Exported(p), ~ Overwriting(p)
               PROVE  /\ Decodes("revoked.krl")
                      /\ \A q \in before[p] : Cmd(q) \in Revokes =>
                           ListedIn(Content("revoked.krl"), Revocation(req[q]))
    BY DEF ExportedRevocationsRefused, Exported
  <2>1. dir["revoked.krl"] \notin {NoFile, EmptyFile}
    BY DEF ExportInv
  <2>2. Decodes("revoked.krl")
    BY <2>1 DEF TypeInv, FileOK, File, Decodes, Files
  <2> QED BY <2>2 DEF ExportInv
<1> QED BY <1>1, ExportAlways, TypeAlways, PTL

-----------------------------------------------------------------------------
\* As long as no command is interrupted, every line of the log is whole and
\* every revocation in revoked.json is one whose command has succeeded, or will.

WholeLog == \A i \in DOMAIN log : log[i].whole /\ log[i].newline

\* Somebody has revoked rev and is past writing it.
RevokedBy(rev, steps) ==
  \E q \in Proc : pc[q] \in steps /\ Cmd(q) \in Revokes /\ rev = Revocation(req[q])

Past == {"seal", "append", "ExitOK"}

\* Reasons to reject a certificate.
Turned(p) ==
  LET c == req[p].cert
  IN  \/ c \in ForeignCerts
      \/ req[p].at < c.validAfter \/ req[p].at >= c.validBefore
      \/ RevokedBefore(p, c)

QuietAt(p) ==
  /\ pc[p] \in {"create", "write"} /\ Cmd(p) \in Revokes =>
       \A i \in DOMAIN OutputOf(p) :
         \/ OutputOf(p)[i] = Revocation(req[p])
         \/ RevokedBy(OutputOf(p)[i], {"ExitOK"})
  /\ pc[p] = "ExitFindings" /\ Cmd(p) = "verify" => Turned(p)

Quiet ==
  /\ WholeLog
  /\ dir["revoked.json"] = EmptyFile =>
       \E q \in Proc : pc[q] = "write" /\ Cmd(q) \in Revokes
  /\ \A i \in DOMAIN Revs : RevokedBy(Revs[i], Past)
  /\ \A p \in Proc : QuietAt(p)

QuietInv == Uninterrupted => Quiet

\* A log of whole lines is readable if none is too long.
LEMMA WholeIsReadable ==
  ASSUME LongIds = {}, ChainInv, WholeLog
  PROVE  Readable(log)
<1>1. DOMAIN log = 1 .. Len(log) /\ Len(log) \in Nat
  BY ListDomain DEF ChainInv
<1> QED BY <1>1 DEF WholeLog, Readable, LineOK

\* Nobody is killed, and none comes back.
LEMMA StillUninterrupted ==
  ASSUME Control, [Next]_vars, Uninterrupted'
  PROVE  Uninterrupted /\ \A p \in Proc : ~ Stop(p)
<1>1. ASSUME NEW p \in Proc, pc[p] = "Killed" PROVE pc'[p] = "Killed"
  <2>1. ~ (Start(p) \/ Step(p) \/ Stop(p))
    BY <1>1, StepsRun DEF Start, Resting, Ended
  <2>2. ASSUME NEW q \in Proc, q # p, Start(q) \/ Step(q) \/ Stop(q)
        PROVE  Untouched(p)
    BY <2>2, OthersUntouched
  <2>3. CASE EditPolicy \/ UNCHANGED vars
    BY <1>1, <2>3 DEF EditPolicy, vars
  <2> QED BY <1>1, <2>1, <2>2, <2>3 DEF Next, AllEnded, Untouched
<1>2. ASSUME NEW p \in Proc, Stop(p) PROVE pc'[p] = "Killed"
  BY <1>2 DEF Stop, Goto, Control, Domains
<1> QED BY <1>1, <1>2 DEF Uninterrupted

\* Without interruptions a process adds whole lines only.
LEMMA WholeNext ==
  ASSUME Control, ChainInv, WholeLog, [Next]_vars, \A p \in Proc : ~ Stop(p)
  PROVE  WholeLog'
<1>1. CASE log' = log
  BY <1>1 DEF WholeLog
<1>2. ASSUME NEW p \in Proc, AppendEntry(p) PROVE WholeLog'
  <2>1. PICK x : log' = Append(log, x) /\ x.whole /\ x.newline
    BY <1>2 DEF AppendEntry, Piece
  <2>2. /\ DOMAIN log' = DOMAIN log \cup {Len(log) + 1}
        /\ log'[Len(log) + 1] = x
        /\ \A i \in DOMAIN log : log'[i] = log[i]
    BY <2>1, AppendList DEF ChainInv
  <2> QED BY <2>1, <2>2 DEF WholeLog
<1>3. ASSUME NEW p \in Proc, Start(p) \/ Step(p), ~ AppendEntry(p) PROVE log' = log
  BY <1>3 DEF Start, Step, files, Exit, InitStat, OpenKey, OpenPub, OpenPolicy,
     NextSerial, IssuedSerial, ReadRevocations, Verify, AuditVerify,
     RenderKRL, Create, Write, SealEntry, Release, RuntimeErr, Findings
<1>4. CASE EditPolicy \/ UNCHANGED vars
  BY <1>1, <1>4 DEF EditPolicy, vars
<1> QED BY <1>1, <1>2, <1>3, <1>4 DEF Next, AllEnded

\* A revoke that has written its list goes on to succeed.
LEMMA RevokedStays ==
  ASSUME LongIds = {}, Control, ChainInv, WholeLog, [Next]_vars,
         \A p \in Proc : ~ Stop(p), NEW rev
  PROVE  /\ RevokedBy(rev, Past) => RevokedBy(rev, Past)'
         /\ RevokedBy(rev, {"ExitOK"}) => RevokedBy(rev, {"ExitOK"})'
<1> USE DEF Control, Domains, Goto
<1>1. RevokedBy(rev, {"ExitOK"}) => RevokedBy(rev, {"ExitOK"})'
  BY SuccessStays DEF RevokedBy, Cmd
<1>2. ASSUME NEW q \in Proc, pc[q] \in {"seal", "append"}, Cmd(q) \in Revokes,
             rev = Revocation(req[q])
      PROVE  RevokedBy(rev, Past)'
  <2>1. ~ Start(q) /\ ~ Stop(q)
    BY <1>2 DEF Start
  <2>2. pc'[q] \in Past /\ req'[q] = req[q]
    <3>1. CASE Untouched(q)
      BY <1>2, <3>1 DEF Untouched, Past
    <3>2. CASE Step(q)
      <4>1. SealEntry(q) \/ AppendEntry(q)
        <5>1. ~ RuntimeErr(q) /\ ~ Findings(q)
          BY <1>2, WholeIsReadable DEF RuntimeErr, Broken, Findings, Negative
        <5> QED BY <1>2, <3>2, <5>1 DEF Step, InitStat, OpenKey, OpenPub, OpenPolicy,
           NextSerial, IssuedSerial, ReadRevocations, Verify, AuditVerify,
           RenderKRL, Create, Write, Release
      <4> QED BY <1>2, <4>1 DEF SealEntry, AppendEntry, AfterAppend, Past, Revokes
    <3>3. ASSUME NEW r \in Proc, r # q, Start(r) \/ Step(r) \/ Stop(r)
          PROVE  Untouched(q)
      BY <3>3, OthersUntouched
    <3>4. CASE EditPolicy \/ UNCHANGED vars
      BY <3>1, <3>4 DEF EditPolicy, vars, locals, Untouched
    <3> QED BY <2>1, <3>1, <3>2, <3>3, <3>4 DEF Next, AllEnded
  <2> QED BY <1>2, <2>2 DEF RevokedBy, Cmd
<1>3. RevokedBy(rev, {"ExitOK"})' => RevokedBy(rev, Past)'
  BY DEF RevokedBy, Past
<1> QED BY <1>1, <1>2, <1>3 DEF RevokedBy, Past

-----------------------------------------------------------------------------
\* The window of a certificate is a pair of numbers.

Bounded(c) == c.validAfter \in Int /\ c.validBefore \in Int

WindowAt(p) ==
  /\ pc[p] = "nextSerial" => grant[p].ttl \in Int
  /\ pc[p] \in Holding /\ Cmd(p) = "issue" => Bounded(cert[p])

WindowInv == (\A c \in released : Bounded(c)) /\ \A p \in Proc : WindowAt(p)

\* The lifetime Authorize grants is the one asked for or the rule's cap.
LEMMA GrantedTTL ==
  ASSUME NEW doc \in PolicyDocs \cup {Default}, NEW user, NEW asked, NEW ttl \in Int,
         Authorize(doc, user, asked, ttl).granted
  PROVE  Authorize(doc, user, asked, ttl).ttl \in Int
<1>1. \A n \in Int : Int64(n) \in Int
  BY DurationAssumption DEF Int64
<1>2. ASSUME NEW text, TTLOK(text), text # Absent PROVE ParseTTL(text).d \in Int
  <2>1. text.n \in Int /\ Day \in Int /\ text.n * Day \in Int
    BY <1>2, DurationAssumption DEF TTLOK
  <2>2. Int64(text.n * Day) \in Int
    BY <1>1, <2>1
  <2> QED BY <2>1, <2>2 DEF ParseTTL, ParseDays, ParseGo, BadTTL
<1>3. /\ user \in DOMAIN doc.users
      /\ Authorize(doc, user, asked, ttl).ttl =
           EffectiveRequest(ttl, Describe(doc, user).maxTTL)
  BY DEF Authorize, Denied
<1>4. doc # Default
  BY <1>3 DEF Default
<1>5. TTLOK(doc.users[user].maxTTL) /\ TTLOK(doc.defaults.maxTTL)
  BY <1>3, <1>4, TimesAssumption
<1>6. Describe(doc, user).maxTTL =
        EffectiveTTL(doc.users[user].maxTTL, doc.defaults.maxTTL)
  BY DEF Describe
<1>7. EffectiveTTL(doc.users[user].maxTTL, doc.defaults.maxTTL) \in Int
  BY <1>2, <1>5, DurationAssumption DEF EffectiveTTL, InheritUnset
<1> QED BY <1>3, <1>6, <1>7 DEF EffectiveRequest

\* Both bounds are remainders of whole numbers.
LEMMA WindowTyped ==
  ASSUME NEW now \in Int, NEW d \in Int
  PROVE  UnixAfter(now, d) \in Int
<1>1. /\ Second \in Nat \ {0} /\ TimeModulus \in Nat \ {0}
      /\ now * Second + d \in Int
  BY TimeAssumption
<1>2. (now * Second + d) \div Second \in Int
  BY <1>1
<1> QED BY <1>1, <1>2 DEF UnixAfter, Uint64

\* Only NextSerial signs.
LEMMA WindowNext == Control /\ TypeInv /\ WindowInv /\ [Next]_vars => WindowInv'
<1> SUFFICES ASSUME Control, TypeInv, WindowInv, [Next]_vars PROVE WindowInv'
  OBVIOUS
<1> USE DEF Control, Domains, files, locals, Goto
<1>1. ASSUME NEW c \in released' PROVE Bounded(c)
  <2>1. ASSUME NEW p \in Proc, Release(p) PROVE Bounded(cert[p])
    BY <2>1 DEF Release, WindowInv, WindowAt, Holding, CommandAt
  <2> QED BY <1>1, <2>1, ReleasedStep DEF WindowInv
<1>2. ASSUME NEW p \in Proc PROVE WindowAt(p)'
  <2>1. WindowAt(p) /\ CommandAt(p)
    BY DEF WindowInv
  <2>2. CASE Untouched(p) /\ grant'[p] = grant[p]
    BY <2>1, <2>2 DEF Untouched, WindowAt, Cmd
  <2>3. ASSUME NEW q \in Proc, q # p, Start(q) \/ Step(q) \/ Stop(q)
        PROVE  Untouched(p) /\ grant'[p] = grant[p]
    <3>1. grant'[p] = grant[p]
      BY <2>3 DEF Start, Step, Stop, Exit, InitStat, OpenKey, OpenPub, OpenPolicy,
         NextSerial, IssuedSerial, ReadRevocations, Verify, AuditVerify, RenderKRL,
         Create, Write, SealEntry, AppendEntry, Release, RuntimeErr, Findings
    <3> QED BY <2>3, <3>1, OthersUntouched
  <2>4. CASE EditPolicy \/ UNCHANGED vars
    BY <2>2, <2>4 DEF EditPolicy, vars, Untouched
  <2>5. CASE Start(p) \/ Stop(p)
    <3>1. pc'[p] \in FirstSteps \cup {"Killed"}
      BY <2>5, FirstStepIs DEF Start, Stop
    <3> QED BY <3>1 DEF WindowAt, FirstSteps, Holding
  <2>6. CASE Step(p)
    <3>1. CASE OpenPolicy(p)
      <4>1. pc'[p] \notin Holding
        BY <3>1, RequestsAssumption
        DEF OpenPolicy, AfterOpen, CommandAt, Cmd, Holding
      <4>2. ASSUME pc'[p] = "nextSerial" PROVE grant'[p].ttl \in Int
        <5>1. Cmd(p) = "issue" /\ req[p] \in Requests /\ req[p].cmd = "issue"
          BY <3>1, <4>2, RequestsAssumption
          DEF OpenPolicy, AfterOpen, CommandAt, Cmd
        <5>2. grant'[p] = Decision(p) /\ Decision(p).granted
          BY <3>1, <5>1 DEF OpenPolicy, Refused
        <5>3. Content("policy.json") \in PolicyDocs \cup {Default}
          BY <3>1 DEF OpenPolicy, PolicyOK, TypeInv, FileOK, DataOK, Decodes,
             Files, NoFile, EmptyFile
        <5>4. req[p].ttl \in Int
          BY <5>1, TimesAssumption
        <5> QED BY <5>2, <5>3, <5>4, GrantedTTL DEF Decision
      <4> QED BY <4>1, <4>2 DEF WindowAt
    <3>2. CASE NextSerial(p)
      <4>1. pc[p] = "nextSerial" /\ pc'[p] = "create" /\ Cmd(p) = "issue"
            /\ req[p] \in Requests /\ req[p].cmd = "issue"
        BY <3>2, <2>1 DEF NextSerial, CommandAt, Cmd
      <4>2. /\ cert'[p].validAfter = UnixAfter(req[p].now, -req[p].backdate)
            /\ cert'[p].validBefore = UnixAfter(req[p].now, grant[p].ttl)
        BY <3>2 DEF NextSerial, Signed, Sign, ValidAfter, ValidBefore
      <4>3. /\ req[p].now \in Int /\ -req[p].backdate \in Int
            /\ grant[p].ttl \in Int
        BY <2>1, <4>1, TimesAssumption DEF WindowAt
      <4> QED BY <4>1, <4>2, <4>3, WindowTyped DEF WindowAt, Bounded
    <3>3. CASE InitStat(p) \/ ReadRevocations(p) \/ RenderKRL(p)
      BY <2>1, <3>3 DEF InitStat, ReadRevocations, RenderKRL, CommandAt, Cmd,
         Revokes, WindowAt
    <3>4. CASE Create(p) \/ SealEntry(p)
      BY <2>1, <3>4 DEF Create, SealEntry, Cmd, WindowAt, Holding
    <3>5. CASE Write(p) \/ AppendEntry(p)
      <4>1. /\ pc[p] \in Holding /\ pc'[p] # "nextSerial" /\ cert'[p] = cert[p]
            /\ Cmd(p)' = Cmd(p)
        BY <3>5 DEF Write, AppendEntry, AfterWrites, AfterAppend, Cmd, Holding
      <4> QED BY <2>1, <4>1 DEF WindowAt
    <3>6. CASE \/ OpenKey(p) \/ OpenPub(p) \/ IssuedSerial(p) \/ Verify(p)
               \/ AuditVerify(p) \/ Release(p) \/ RuntimeErr(p) \/ Findings(p)
      BY <3>6 DEF OpenKey, OpenPub, IssuedSerial, Verify, AuditVerify, Release,
         RuntimeErr, Findings, Exit, WindowAt, Holding
    <3> QED BY <2>6, <3>1, <3>2, <3>3, <3>4, <3>5, <3>6 DEF Step
  <2> QED BY <2>2, <2>3, <2>4, <2>5, <2>6 DEF Next, AllEnded
<1> QED BY <1>1, <1>2 DEF WindowInv

-----------------------------------------------------------------------------
\* A certificate that verify turns down while nothing was interrupted.

\* Strangers' certificates are not handed out.
LEMMA ForeignNotReleased ==
  ASSUME KeysAreSecret, TypeInv, SetupInv, NEW c \in ForeignCerts
  PROVE  c \notin released
<1> SUFFICES ASSUME c \in released PROVE FALSE
  OBVIOUS
<1>1. c.certType = "user" /\ dir["ca.pub"] = File(c.signedBy)
  BY DEF SetupInv
<1>2. FileOK("ca.pub")
  BY DEF TypeInv, Files
<1>3. c.signedBy \in Proc \cup {Provisioner}
  BY <1>1, <1>2 DEF FileOK, DataOK, Content, File, NoFile, EmptyFile
<1> QED BY <1>1, <1>3 DEF KeysAreSecret

\* Why verify rejects.
LEMMA RejectMeans ==
  ASSUME DatesInRange, Control, Solo, TypeInv, SetupInv, VerifyInv, WindowInv,
         ExportInv, Quiet, NEW p \in Proc, Findings(p), Cmd(p) = "verify"
  PROVE  Turned(p)
<1> DEFINE c == req[p].cert
           t == req[p].at
<1>1. pc[p] = "IsRevoked" /\ ~ Accepts(p)
  BY DEF Findings, Negative, Refused, Control, CommandAt
<1>2. c \in released \cup ForeignCerts /\ t \in VerifyTimes
  BY <1>1 DEF VerifyInv, VerifyAt
<1> SUFFICES ASSUME c \in released, ~ (t < c.validAfter), ~ (t >= c.validBefore)
             PROVE  RevokedBefore(p, c)
  BY <1>2 DEF Turned
<1>3. c.certType = "user" /\ VerifySignature(c, pair[p].pub)
  <2>1. /\ c.certType = "user" /\ dir["ca.pub"] = File(c.signedBy)
        /\ c.signatureKey = c.signedBy
    BY DEF SetupInv
  <2>2. dir["ca.pub"] = File(pair[p].pub)
    BY <1>1 DEF SetupInv, PairAt, Opened
  <2>3. c.signedBy = pair[p].pub
    BY <2>1, <2>2 DEF File
  <2> QED BY <2>1, <2>3 DEF VerifySignature
<1>4. ValidAt(c, t)
  <2>1. t \in 0 .. TimeModulus - 2 /\ TimeModulus \in Nat \ {0}
    BY <1>2, TimeAssumption DEF DatesInRange
  <2>2. \A m, n \in Nat : m < n => m % n = m
    OBVIOUS
  <2>3. t % TimeModulus = t
    BY <2>1, <2>2
  <2>4. c.validAfter \in Int /\ c.validBefore \in Int
    BY DEF WindowInv, Bounded
  <2> HIDE DEF c, t
  <2> QED BY <2>1, <2>3, <2>4 DEF ValidAt, Uint64
<1>5. \A q \in Proc : pc[q] \notin {"write", "seal", "append"}
  BY <1>1 DEF Solo, Resting, Ended
<1>6. RevocationsOK(dir["revoked.json"])
  <2>1. dir["revoked.json"] # EmptyFile
    BY <1>5 DEF Quiet
  <2>2. FileOK("revoked.json")
    BY DEF TypeInv, Files
  <2> QED BY <2>1, <2>2 DEF RevocationsOK, FileOK, NoFile, File
<1>7. PICK i \in DOMAIN Revs : Covers(Revs[i], c)
  BY <1>1, <1>3, <1>4, <1>6 DEF Accepts, IsRevoked, Revs
<1>8. PICK q \in Proc : /\ pc[q] = "ExitOK" /\ Cmd(q) \in Revokes
                        /\ Revs[i] = Revocation(req[q])
  BY <1>5 DEF Quiet, RevokedBy, Past
<1>9. q \in before[p]
  BY <1>1, <1>8 DEF ExportInv, ExportAt, Resting, Ended
<1> QED BY <1>7, <1>8, <1>9 DEF RevokedBefore

\* A finding is final.
LEMMA NewFinding ==
  ASSUME Control, [Next]_vars, NEW p \in Proc, pc'[p] = "ExitFindings"
  PROVE  /\ pc[p] # "idle" /\ req'[p] = req[p] /\ before'[p] = before[p]
         /\ pc[p] = "ExitFindings" \/ Findings(p)
<1> USE DEF Control, Domains, Goto
<1>1. ASSUME NEW q \in Proc, q # p, Start(q) \/ Step(q) \/ Stop(q)
      PROVE  pc'[p] = pc[p]
  BY <1>1, OthersUntouched DEF Untouched
<1>2. CASE EditPolicy \/ UNCHANGED vars
  BY <1>2 DEF EditPolicy, vars
<1>3. ~ Start(p) /\ ~ Stop(p)
  <2>1. pc'[p] \notin FirstSteps \cup {"Killed"}
    BY DEF FirstSteps
  <2> QED BY <2>1, FirstStepIs DEF Start, Stop
<1>4. Step(p) => Findings(p)
  <2>1. Step(p) /\ OpenPolicy(p) => pc'[p] # "ExitFindings"
    BY RequestsAssumption DEF OpenPolicy, AfterOpen, CommandAt, Cmd
  <2> QED BY <2>1 DEF Step, InitStat, OpenKey, OpenPub, NextSerial, IssuedSerial,
     ReadRevocations, Verify, AuditVerify, RenderKRL, Create, Write, AfterWrites,
     SealEntry, AppendEntry, AfterAppend, Release, RuntimeErr, Exit
<1>5. pc[p] = "ExitFindings" \/ Findings(p)
  BY <1>1, <1>2, <1>3, <1>4 DEF Next, AllEnded
<1> QED BY <1>3, <1>5, RequestStays DEF Step

\* Each process's part, when nobody is stopped.
LEMMA QuietAtNext ==
  ASSUME DatesInRange, InvalidIds = {}, LongIds = {},
         Control, Solo, ChainInv, TypeInv, SetupInv, HistoryInv, VerifyInv,
         WindowInv, ExportInv, Quiet, [Next]_vars, \A q \in Proc : ~ Stop(q),
         NEW p \in Proc
  PROVE  QuietAt(p)'
<1> USE DEF Control, Domains, files, locals, Goto
<1>1. QuietAt(p) /\ CommandAt(p) /\ WholeLog
  BY DEF Quiet
<1>2. ASSUME pc'[p] = "ExitFindings", Cmd(p)' = "verify" PROVE Turned(p)'
  <2>1. /\ pc[p] # "idle" /\ req'[p] = req[p] /\ before'[p] = before[p]
        /\ pc[p] = "ExitFindings" \/ Findings(p)
    BY <1>2, NewFinding
  <2>2. Turned(p)
    BY <1>1, <1>2, <2>1, RejectMeans DEF QuietAt, Cmd
  <2>3. \A q \in before[p] : req'[q] = req[q]
    BY SuccessStays DEF HistoryInv, HistoryAt
  <2>4. \A c : RevokedBefore(p, c) => RevokedBefore(p, c)'
    BY <2>1, <2>3 DEF RevokedBefore, Cmd
  <2> QED BY <2>1, <2>2, <2>4 DEF Turned
<1>3. ASSUME pc'[p] \in {"create", "write"}, Cmd(p)' \in Revokes,
             NEW i \in DOMAIN OutputOf(p)'
      PROVE  \/ OutputOf(p)'[i] = Revocation(req'[p])
             \/ RevokedBy(OutputOf(p)[i], {"ExitOK"})'
  <2>1. pc'[p] \notin FirstSteps
    BY <1>3 DEF FirstSteps
  <2>2. ~ Start(p)
    BY <2>1, FirstStepIs DEF Start
  <2>3. pc[p] # "idle" /\ req'[p] = req[p] /\ Cmd(p) \in Revokes
    BY <1>3, <2>2, RequestStays DEF Cmd
  <2>4. PICK rev : rev = OutputOf(p)'[i]
    OBVIOUS
  <2>5. SUFFICES rev = Revocation(req[p]) \/ RevokedBy(rev, {"ExitOK"})
    BY <1>1, <2>3, <2>4, RevokedStays DEF RevokedBy
  <2>6. CASE pc[p] \in {"create", "write"} /\ writes'[p] = writes[p]
    BY <1>1, <1>3, <2>3, <2>4, <2>6 DEF QuietAt, OutputOf
  <2>7. CASE Untouched(p)
    BY <1>3, <2>6, <2>7 DEF Untouched
  <2>8. CASE Step(p)
    <3>1. CASE ReadRevocations(p)
      <4>1. /\ pc[p] = "Revocations"
            /\ OutputOf(p)' = Append(Revs, Revocation(req[p]))
        BY <3>1, FaithfulJson DEF ReadRevocations, Revoke, Revs, OutputOf
      <4>2. IsList(Revs)
        BY RevsAreList, SeqIsList
      <4>3. \/ i \in DOMAIN Revs /\ rev = Revs[i]
            \/ rev = Revocation(req[p])
        BY <1>3, <2>4, <4>1, <4>2, AppendList
      <4>4. \A q \in Proc : pc[q] \notin {"seal", "append"}
        BY <4>1 DEF Solo, Resting, Ended
      <4>5. \A j \in DOMAIN Revs : RevokedBy(Revs[j], {"ExitOK"})
        BY <4>4 DEF Quiet, RevokedBy, Past
      <4> QED BY <4>3, <4>5
    <3>2. CASE Create(p)
      BY <2>6, <3>2 DEF Create
    <3>3. CASE Write(p)
      <4>1. Tail(writes[p]) = <<>>
        BY <2>3, <3>3, NextWrite DEF Write, Revokes
      <4> QED BY <1>3, <3>3, <4>1 DEF Write, AfterWrites
    <3>4. CASE InitStat(p) \/ NextSerial(p) \/ RenderKRL(p)
      BY <2>3, <3>4 DEF InitStat, NextSerial, RenderKRL, CommandAt, Revokes
    <3>5. CASE OpenPolicy(p)
      BY <1>3, <2>3, <3>5 DEF OpenPolicy, AfterOpen, Revokes
    <3>6. CASE \/ OpenKey(p) \/ OpenPub(p) \/ IssuedSerial(p) \/ Verify(p)
               \/ AuditVerify(p) \/ SealEntry(p) \/ AppendEntry(p) \/ Release(p)
               \/ RuntimeErr(p) \/ Findings(p)
      BY <1>3, <3>6 DEF OpenKey, OpenPub, IssuedSerial, Verify, AuditVerify,
         SealEntry, AppendEntry, AfterAppend, Release, RuntimeErr, Findings, Exit
    <3> QED BY <2>8, <3>1, <3>2, <3>3, <3>4, <3>5, <3>6 DEF Step
  <2> QED BY <2>2, <2>7, <2>8, StepCases
<1> QED BY <1>2, <1>3 DEF QuietAt

\* The file revoked.json, when nobody is stopped.
LEMMA QuietNext ==
  ASSUME DatesInRange, InvalidIds = {}, LongIds = {}
  PROVE  Control /\ Solo /\ ChainInv /\ TypeInv /\ Truncated /\ SetupInv
           /\ HistoryInv /\ VerifyInv /\ WindowInv /\ ExportInv /\ QuietInv /\ [Next]_vars
           => QuietInv'
<1> SUFFICES ASSUME Control, Solo, ChainInv, TypeInv, Truncated, SetupInv,
                    HistoryInv, VerifyInv, WindowInv, ExportInv, QuietInv,
                    [Next]_vars, Uninterrupted'
             PROVE  Quiet'
  BY DEF QuietInv
<1> USE DEF Control, Domains, Goto
<1>1. Quiet /\ WholeLog /\ \A q \in Proc : ~ Stop(q)
  BY StillUninterrupted DEF QuietInv, Quiet
<1>2. WholeLog'
  BY <1>1, WholeNext
<1>3. \A p \in Proc : QuietAt(p)'
  BY <1>1, QuietAtNext
<1> DEFINE old == dir["revoked.json"]
           new == dir'["revoked.json"]
           Writing == \E q \in Proc : pc'[q] = "write" /\ Cmd(q)' \in Revokes
           Taken == \A i \in DOMAIN Revs' : RevokedBy(Revs[i], Past)'
<1>4. \A d : File(d) # EmptyFile
  BY DEF File, EmptyFile
<1>5. ASSUME NEW q \in Proc, pc[q] \in {"create", "write"},
             Head(writes[q]).file = "revoked.json"
      PROVE  Cmd(q) \in Revokes
  <2>1. Cmd(q) # "init"
    <3>1. Head(writes[q]) \notin {KeyW(q), PubW(q), PolicyW, SerialW}
      BY <1>5 DEF KeyW, PubW, PolicyW, SerialW
    <3> QED BY <1>5, <3>1, NextWrite
  <2>2. OutputFile(Cmd(q)) = "revoked.json" /\ CommandAt(q)
    BY <1>5, <2>1, NextWrite
  <2> QED BY <1>5, <2>1, <2>2 DEF OutputFile, CommandAt
<1>6. CASE new = old
  <2>1. Taken
    <3>1. Revs' = Revs
      BY <1>6 DEF Revs
    <3> QED BY <1>1, <3>1, RevokedStays DEF Quiet, RevokedBy
  <2>2. ASSUME new = EmptyFile PROVE Writing
    <3>1. PICK q \in Proc : pc[q] = "write" /\ Cmd(q) \in Revokes
      BY <1>1, <1>6, <2>2 DEF Quiet
    <3>2. ~ Write(q)
      <4>1. Head(writes[q]).file = "revoked.json"
        BY <3>1, NextWrite DEF OutputFile, Revokes
      <4> QED BY <1>4, <2>2, <4>1, WriteAlone DEF Files
    <3>3. ~ Start(q) /\ ~ Stop(q)
      BY <1>1, <3>1 DEF Start
    <3>4. ~ Step(q)
      BY <3>1, <3>2 DEF Step, InitStat, OpenKey, OpenPub, OpenPolicy, NextSerial,
         IssuedSerial, ReadRevocations, Verify, AuditVerify, RenderKRL, Create,
         SealEntry, AppendEntry, Release, RuntimeErr, Broken, Findings, Negative
    <3>5. Untouched(q)
      BY <3>1, <3>3, <3>4, StepCases
    <3> QED BY <3>1, <3>5 DEF Untouched, Cmd
  <2> QED BY <1>2, <1>3, <2>1, <2>2 DEF Quiet
<1>7. ASSUME NEW q \in Proc, Create(q), new # old PROVE Quiet'
  <2>1. Head(writes[q]).file = "revoked.json" /\ new = EmptyFile
    BY <1>7 DEF Create, Files
  <2>2. pc'[q] = "write" /\ Cmd(q)' = Cmd(q) /\ pc[q] = "create"
    BY <1>7 DEF Create, Cmd
  <2>3. Writing
    BY <1>5, <2>1, <2>2
  <2>4. Revs' = <<>>
    BY <2>1 DEF Revs, Revocations, EmptyFile
  <2>5. DOMAIN Revs' = {}
    BY <2>4
  <2> QED BY <1>2, <1>3, <2>3, <2>5 DEF Quiet
<1>8. ASSUME NEW q \in Proc, Write(q), new # old PROVE Quiet'
  <2>0. pc[q] = "write" /\ Head(writes[q]).file = "revoked.json"
    BY <1>8, WriteLeaves DEF Write, Files
  <2>1. /\ pc[q] = "write" /\ Head(writes[q]).file = "revoked.json"
        /\ new = File(Head(writes[q]).data) /\ req' = req
    <3>1. dir' = [dir EXCEPT ![Head(writes[q]).file] = File(Head(writes[q]).data)]
      BY <1>8, <2>0, WriteAlone
    <3> QED BY <1>8, <2>0, <3>1 DEF Write, Files
  <2>2. Head(writes[q]) = writes[q][1] /\ Tail(writes[q]) = <<>>
        /\ Cmd(q) \in Revokes
    BY <1>5, <2>1, NextWrite, TailList DEF TypeInv, TypeAt, Pending, Revokes
  <2>3. Revs' = OutputOf(q)
    BY <2>1, <2>2 DEF Revs, Revocations, File, OutputOf
  <2>4. pc'[q] = "seal"
    BY <1>8, <2>2 DEF Write, AfterWrites, Revokes
  <2>5. QuietAt(q)
    BY <1>1 DEF Quiet
  <2>6. ASSUME NEW i \in DOMAIN OutputOf(q), NEW rev, rev = OutputOf(q)[i]
        PROVE  RevokedBy(rev, Past)'
    <3>1. CASE rev = Revocation(req[q])
      BY <2>1, <2>2, <2>4, <3>1 DEF RevokedBy, Past, Cmd
    <3>2. CASE RevokedBy(rev, {"ExitOK"})
      <4>1. RevokedBy(rev, Past)
        BY <3>2 DEF RevokedBy, Past
      <4> QED BY <1>1, <4>1, RevokedStays
    <3> QED BY <2>1, <2>2, <2>5, <2>6, <3>1, <3>2 DEF QuietAt
  <2>7. Taken
    BY <2>3, <2>6 DEF RevokedBy
  <2> QED BY <1>2, <1>3, <1>4, <2>1, <2>7 DEF Quiet
<1>9. CASE EditPolicy \/ dir' = dir
  BY <1>6, <1>9 DEF EditPolicy, Files
<1> QED BY <1>6, <1>7, <1>8, <1>9, DirStep

\* Every state has it.
LEMMA WindowAlways == Spec => []WindowInv
<1>1. Init => WindowInv
  BY DEF Init, WindowInv, WindowAt, Holding
<1> QED BY <1>1, WindowNext, ControlAlways, TypeAlways, PTL DEF Spec

\* Every state has it.
LEMMA QuietAlways ==
  ASSUME Exclusive, InvalidIds = {}, LongIds = {}, DatesInRange, KeysAreSecret
  PROVE  Spec => []QuietInv
<1>1. Init => QuietInv
  <2> SUFFICES ASSUME Init PROVE Quiet
    BY DEF QuietInv
  <2>1. dir["revoked.json"] = NoFile
    BY DEF Init, FreshDir, ProvisionedDir, Files
  <2>2. DOMAIN Revs = {} /\ dir["revoked.json"] # EmptyFile
    BY <2>1 DEF Revs, Revocations, NoFile, EmptyFile
  <2>3. WholeLog
    <3>1. CASE log = <<>>
      BY <3>1 DEF WholeLog
    <3>2. ASSUME NEW x, log = <<x>>, x.whole, x.newline PROVE WholeLog
      BY <3>2 DEF WholeLog
    <3> QED BY <3>1, <3>2 DEF Init, FreshDir, ProvisionedDir, Piece
  <2>4. ASSUME NEW p \in Proc PROVE QuietAt(p)
    BY DEF Init, QuietAt
  <2> QED BY <2>2, <2>3, <2>4 DEF Quiet
<1> QED BY <1>1, QuietNext, ControlAlways, OneAtATime, ChainAlways, TypeAlways,
           TruncatedAlways, SetupAlways, HistoryAlways, VerifyAlways, WindowAlways, ExportAlways,
           PTL DEF Spec

\* Verify is complete (VerifyComplete of CertAuthority): revocations are written
\* by other commands, which may fail after writing; but as long as none was
\* interrupted, a certificate of this authority that verify turns down is out
\* of its window, or a revoke that had reported success covers it.  Assumed,
\* beyond what VerifyIsSound needs: no line of the log is too long to be read.
THEOREM VerifyIsComplete ==
  ASSUME Exclusive, InvalidIds = {}, LongIds = {}, DatesInRange, KeysAreSecret
  PROVE  Spec => []VerifyComplete
<1>1. TypeInv /\ SetupInv /\ QuietInv => VerifyComplete
  <2> SUFFICES ASSUME TypeInv, SetupInv, QuietInv, Uninterrupted, NEW p \in Proc,
                      pc[p] = "ExitFindings", Cmd(p) = "verify"
               PROVE  LET c == req[p].cert
                      IN  \/ c \notin released
                          \/ req[p].at < c.validAfter \/ req[p].at >= c.validBefore
                          \/ RevokedBefore(p, c)
    BY DEF VerifyComplete
  <2>1. Turned(p)
    BY DEF QuietInv, Quiet, QuietAt
  <2> QED BY <2>1, ForeignNotReleased DEF Turned
<1> QED BY <1>1, QuietAlways, TypeAlways, SetupAlways, PTL
==============================================================================
