----------------------------- MODULE Certificate -----------------------------
(***************************************************************************)
(* The part of internal/sshcert the authority relies on: what a signed     *)
(* certificate carries, who signed it and when it is valid.                *)
(*                                                                         *)
(* A key pair is one value standing for both halves, so a signature made   *)
(* with a private key verifies under the public key of the same value and  *)
(* under no other.  The clock is read in whole seconds (Issue truncates    *)
(* it), durations are in ticks, Second of them to a second.                *)
(***************************************************************************)
EXTENDS Integers

CONSTANTS
  Second,           \* ticks in a second
  TimeModulus       \* 2^64: validity bounds are uint64 seconds

ASSUME TimeAssumption ==
  /\ Second \in Nat \ {0}
  /\ TimeModulus \in Nat \ {0}

Uint64(x) == x % TimeModulus

\* uint64(now.Add(d).Unix()): the sum is rounded down to a second.
UnixAfter(now, d) == Uint64((now * Second + d) \div Second)

ValidAfter(now, backdate) == UnixAfter(now, -backdate)
ValidBefore(now, ttl)     == UnixAfter(now, ttl)

\* OpenSSH's "forever".
InfiniteValidity == TimeModulus - 1

\* Mutant: the first second of the window is left out.
ValidAtLate(c, t) ==
  /\ Uint64(t) > c.validAfter
  /\ c.validBefore = InfiniteValidity \/ Uint64(t) < c.validBefore

\* The validity window at time t, with t's conversion to uint64.
ValidAt(c, t) ==
  /\ Uint64(t) >= c.validAfter
  /\ c.validBefore = InfiniteValidity \/ Uint64(t) < c.validBefore

\* Sign stores the public key it is given and signs with the private one.  (It
\* refuses a ca.pub that is not ed25519; Init makes no other.)
Sign(draft, serial, keyID, pair) ==
  [certType        |-> "user",
   key             |-> draft.key,
   serial          |-> serial,
   keyID           |-> keyID,
   validPrincipals |-> draft.validPrincipals,
   validAfter      |-> draft.validAfter,
   validBefore     |-> draft.validBefore,
   signatureKey    |-> pair.pub,
   signedBy        |-> pair.priv]

\* Verify: the embedded key is caPub and the signature is caPub's.
VerifySignature(c, caPub) == c.signatureKey = caPub /\ c.signedBy = caPub
=============================================================================
