--------------------------- MODULE MCCertAuthority ---------------------------
(***************************************************************************)
(* Instances of CertAuthority for TLC.  A tick of the duration scale is an *)
(* hour and so is the clock's second: only the order of instants matters   *)
(* here.  The counter's last value is MaxUint64 = 2, so that three issues  *)
(* reach the wrap-around.                                                  *)
(***************************************************************************)
EXTENDS AuthorityRefinement, TLC

CONSTANTS p1, p2, p3, k1, otherCA

Procs      == {p1, p2, p3}
TwoProcs   == {p1, p2}
Symmetry   == Permutations(Procs)
Symmetry2  == Permutations(TwoProcs)

Names      == {"alice", "bob", "web", "db"}
Extensions == {"permit-pty"}
NoNames    == {}

Hours(n) == [unit |-> "go", n |-> n]

AliceRule == [principals    |-> {"web", "db"},
              maxTTL        |-> Hours(4),
              extensions    |-> Absent,
              sourceAddress |-> Absent,
              forceCommand  |-> Absent]

AlicePolicy  == [Default EXCEPT !.users = [u \in {"alice"} |-> AliceRule]]
BrokenPolicy == [AlicePolicy EXCEPT !.decodes = FALSE]
Policies     == {AlicePolicy}
MorePolicies == {AlicePolicy, BrokenPolicy}

Issue(user, id, backdate) ==
  [cmd |-> "issue", user |-> user, key |-> k1, principals |-> {"web"},
   ttl |-> 2, keyID |-> id, backdate |-> backdate, now |-> 10]
RevokeSerial(n) == [cmd |-> "revokeSerial", serial |-> n]
RevokeKeyID(id) == [cmd |-> "revokeKeyID", keyID |-> id]
InitCA    == [cmd |-> "init"]
ExportKRL == [cmd |-> "krl"]
AuditIt   == [cmd |-> "audit"]

Laptop == <<"laptop", 0>>
Garbled == <<"garbled", 0>>
Mended  == <<"mended", 0>>
Huge    == <<"huge", 0>>

\* Two issues that differ in their key ID, both ways to revoke.
CoreRequests ==
  {Issue("alice", NoKeyID, 1), Issue("alice", Laptop, 1),
   RevokeSerial(1), RevokeKeyID(Laptop)}

\* The whole command set: also init, krl, audit, a user the policy does not
\* know, a backdate that overflowed to a negative duration, a key ID that makes
\* the audit line too long to read back and one that is not valid UTF-8.
AllRequests ==
  CoreRequests \cup
  {InitCA, Issue("bob", NoKeyID, 1), Issue("alice", NoKeyID, -1),
   Issue("alice", Huge, 1), Issue("alice", Garbled, 1), RevokeSerial(2),
   ExportKRL, AuditIt}

\* Without the unreadable lines and the refused issues, and with the default key
\* ID revoked, so that two revocations can surround a krl.
ReadableRequests ==
  CoreRequests \cup {InitCA, RevokeSerial(2), ExportKRL, AuditIt,
                    RevokeKeyID(DefaultKeyID("alice", 1))}

IssueRequests   == {Issue("alice", NoKeyID, 1)}
RevokeRequests  == {Issue("alice", NoKeyID, 1), RevokeSerial(1), RevokeKeyID(Laptop)}
GarbledRequests == {Issue("alice", Garbled, 1), RevokeKeyID(Garbled)}

NoIds       == {}
HugeIds     == {Huge}
GarbledIds  == {Garbled}

\* A certificate of another authority and a host certificate signed with the
\* provisioned key.
Stranger(type, ca) ==
  [certType |-> type, key |-> k1, serial |-> 1, keyID |-> Laptop,
   validPrincipals |-> {"web"}, validAfter |-> 9, validBefore |-> 12,
   signatureKey |-> ca, signedBy |-> ca]
Strangers   == {Stranger("user", otherCA), Stranger("host", Provisioner)}
NoStrangers == {}

\* Both edges of the window 9 .. 12 of the certificates issued above.
Times   == {8, 9, 11, 12}
Inside  == {11}
NoTimes == {}
=============================================================================
