------------------------------ MODULE Authority ------------------------------
(***************************************************************************)
(* What a certificate authority promises, without files and commands: one  *)
(* key for ever, serials handed out once and in order, no certificate      *)
(* without an entry, no revocation taken back.  Each step is atomic.       *)
(* AuthorityRefinement shows that CertAuthority implements it as long as   *)
(* commands do not overlap.                                                *)
(*                                                                         *)
(* The authority may lose its counter, its revocation list or its ledger   *)
(* to a crash.  It then knows that it has lost it, and never replaces it   *)
(* by a guess.  The ledger may even be lost with the entry that is written *)
(* to it (Spoil): that one certificate still goes out, and none after it.  *)
(***************************************************************************)
EXTENDS Integers

CONSTANTS
  Keys,        \* CA keypairs
  MaxSerial,   \* the last serial
  Revocable,   \* [serial, keyID], one of which is void (serial 0)
  Unset,       \* what has not been set up yet
  Lost         \* what can no longer be read

VARIABLES
  key,        \* the CA key
  counter,    \* the next serial; 0 after the last one
  legible,    \* the ledger can be read
  issued,     \* certificates the ledger shows, as records with a serial
  noted,      \* revocations the ledger shows
  pending,    \* the certificate just entered, about to be handed out
  delivered,  \* certificates handed out
  revoked     \* revocations in force

ledger == <<legible, issued, noted>>
vars == <<key, counter, ledger, pending, delivered, revoked>>

Init == /\ \/ key = Unset /\ counter = Unset
           \/ key \in Keys /\ counter = 1
        /\ legible = TRUE /\ issued = {} /\ noted = {}
        /\ pending = {} /\ delivered = {} /\ revoked = {}

-----------------------------------------------------------------------------
Establish(k) ==
  /\ key = Unset /\ counter = Unset
  /\ key' = k
  /\ UNCHANGED <<counter, ledger, pending, delivered, revoked>>

StartCounter ==
  /\ key \in Keys /\ counter = Unset
  /\ counter' = 1
  /\ UNCHANGED <<key, ledger, pending, delivered, revoked>>

\* From here on the serial is used up, whether or not a certificate follows.
Take ==
  /\ counter \in 1 .. MaxSerial
  /\ counter' = (counter + 1) % (MaxSerial + 1)
  /\ UNCHANGED <<key, ledger, pending, delivered, revoked>>

Taken(serial) == /\ serial \in 1 .. MaxSerial
                 /\ counter = 0 \/ (counter \in 1 .. MaxSerial /\ serial < counter)

Enterable(c) == /\ legible /\ Taken(c.serial)
                /\ \A d \in issued : d.serial < c.serial

\* A command that dies with the entry leaves nothing pending.
Enter(c) ==
  /\ Enterable(c)
  /\ issued' = issued \cup {c}
  /\ pending' \in {{c}, {}}
  /\ UNCHANGED <<key, counter, legible, noted, delivered, revoked>>

LoseLedger == legible' = FALSE /\ issued' = {} /\ noted' = {}

\* The entry of c is written in full, into a ledger that nobody can read with it.
Spoil(c) ==
  /\ Enterable(c)
  /\ LoseLedger
  /\ pending' = {c}
  /\ UNCHANGED <<key, counter, delivered, revoked>>

Deliver(c) ==
  /\ c \in pending
  /\ \A d \in delivered : d.serial < c.serial
  /\ delivered' = delivered \cup {c}
  /\ pending' = {}
  /\ UNCHANGED <<key, counter, ledger, revoked>>

Forget ==
  /\ pending' = {}
  /\ UNCHANGED <<key, counter, ledger, delivered, revoked>>

Revoke(rev) ==
  /\ revoked # Lost /\ rev \notin revoked
  /\ rev.serial # 0 => \E c \in issued : c.serial = rev.serial
  /\ revoked' = revoked \cup {rev}
  /\ UNCHANGED <<key, counter, ledger, pending, delivered>>

Note(rev) ==
  /\ legible
  /\ revoked # Lost /\ rev \in revoked \ noted
  /\ noted' = noted \cup {rev}
  /\ UNCHANGED <<key, counter, legible, issued, pending, delivered, revoked>>

\* A key is only lost before its first use.
Lose ==
  /\ \/ counter = Unset /\ key' = Lost /\ UNCHANGED <<counter, ledger, revoked>>
     \/ counter # Unset /\ counter' = Lost /\ UNCHANGED <<key, ledger, revoked>>
     \/ revoked' = Lost /\ UNCHANGED <<key, counter, ledger>>
     \/ LoseLedger /\ UNCHANGED <<key, counter, revoked>>
  /\ UNCHANGED <<pending, delivered>>

-----------------------------------------------------------------------------
\* issued' and pending' name what is entered and what is spoilt: the steps need
\* no set of all certificates.
Next ==
  \/ \E k \in Keys : Establish(k)
  \/ StartCounter
  \/ Take
  \/ \E c \in issued' : Enter(c)
  \/ \E c \in pending' : Spoil(c)
  \/ \E c \in pending : Deliver(c)
  \/ Forget
  \/ \E rev \in Revocable : Revoke(rev) \/ Note(rev)
  \/ Lose

Spec == Init /\ [][Next]_vars
=============================================================================
