------------------------- MODULE AuthorityRefinement -------------------------
(***************************************************************************)
(* CertAuthority implements Authority when commands do not overlap: every  *)
(* step of a command, and every place where it can be killed, is a step of *)
(* Authority or none.  The mapping reads the abstract state off the files  *)
(* as their readers do.                                                    *)
(***************************************************************************)
EXTENDS CertAuthority

CONSTANT Lost

ASSUME LostAssumption ==
  /\ Lost # Null
  /\ Lost \notin Nat /\ Null \notin Nat
  /\ Lost \notin Proc \cup {Provisioner}
  /\ \A revs \in SUBSET RequestedRevocations : Lost # revs

-----------------------------------------------------------------------------
\* A process has truncated f and is about to write it.
Writers(f) == {p \in Proc : pc[p] = "write" /\ Head(writes[p]).file = f}

\* The truncation is already the abstract step.  If the process dies before it
\* has written the file, the content is lost.
View(f) == IF Writers(f) # {}
           THEN File(Head(writes[CHOOSE p \in Writers(f) : TRUE]).data)
           ELSE dir[f]

\* What a reader makes of a file, and of the revocation list.
Value(file) == CASE file.kind = "data" -> file.data
                 [] file.kind = "none" -> Null
                 [] OTHER              -> Lost

RevokedIn(file) == LET revs == Revocations(file)
                   IN  IF RevocationsOK(file) THEN {revs[i] : i \in DOMAIN revs}
                                              ELSE Lost

\* The ledger is the log as Entries returns it: one line that cannot be read,
\* and nothing of it can.  Who asked is no part of the certificate.
Ledger(action) == IF Readable(log) THEN LoggedActions(action) ELSE {}

Certified(record) == [record EXCEPT !.user = ""]

Issues     == {Certified(Record(i)) : i \in Ledger("issue")}
Notes      == {RevocationOf(Record(i)) : i \in Ledger("revoke")}
Deliveries == {IssueRecord("", c) : c \in released}

\* Append has returned, runIssue has not written the certificate out yet.
Undelivered == {IssueRecord("", cert[p]) : p \in {q \in Proc : pc[q] = "release"}}

Abstract == INSTANCE Authority WITH
  Keys        <- Proc \cup {Provisioner},
  MaxSerial   <- MaxUint64,
  Revocable   <- RequestedRevocations,
  Unset       <- Null,
  key         <- Value(View("ca.key")),
  counter     <- Value(View("serial")),
  legible     <- Readable(log),
  issued      <- Issues,
  noted       <- Notes,
  pending     <- Undelivered,
  delivered   <- Deliveries,
  revoked     <- RevokedIn(View("revoked.json"))

\* Commands that run one at a time keep the promises of Authority, wherever
\* they are killed: no serial twice, no certificate without an entry, no
\* revocation taken back, no key replaced.  The log can be read up to the entry
\* before a certificate that goes out; when it can no longer be read, that
\* certificate is the last one.
ImplementsAuthority == Abstract!Spec
=============================================================================
