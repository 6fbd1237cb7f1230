---------------------------- MODULE AuditTamper ----------------------------
(***************************************************************************)
(* What audit --verify can and cannot notice: entries are appended by the  *)
(* authority (audit.Append) while somebody edits the decoded log, and the  *)
(* verdict of audit.Verify is compared with what was really written.       *)
(*                                                                         *)
(* An editor changes, removes, exchanges and renumbers entries; it may     *)
(* also recompute the hash of an entry, which needs no secret.             *)
(***************************************************************************)
EXTENDS AuditLog, FiniteSets

CONSTANTS
  Bodies,       \* contents of entries
  MaxEntries,   \* bound on the length of the log
  MaxEdits      \* bound on the number of edits

ASSUME BoundsAssumption == MaxEntries \in Nat /\ MaxEdits \in Nat

\* The log is modelled as it is decoded: no text in it is invalid UTF-8.
ASSUME BodiesAssumption ==
  \A b \in Bodies : /\ b = [f \in DOMAIN b |-> b[f]]
                    /\ "keyID" \in DOMAIN b /\ b.keyID \notin InvalidIds

VARIABLES
  entries,    \* the log as it is now
  written,    \* history: [entry, past] of everything Append has written
  original,   \* history: the log before the first edit
  edits,      \* history: the number of edits so far
  rebuilt     \* history: a hash was computed after the first edit

vars == <<entries, written, original, edits, rebuilt>>

Init ==
  /\ entries = <<>> /\ written = {} /\ original = <<>>
  /\ edits = 0 /\ rebuilt = FALSE

AppendEntry ==
  /\ Len(entries) < MaxEntries
  /\ \E b \in Bodies :
       LET e == Seal(entries, b)
       IN  /\ entries' = Append(entries, e)
           /\ written' = written \cup {[entry |-> e, past |-> entries]}
  /\ original' = IF edits = 0 THEN entries' ELSE original
  /\ rebuilt' = (edits > 0)
  /\ UNCHANGED edits

Edit(to, recomputed) ==
  /\ edits < MaxEdits
  /\ to # entries
  /\ entries' = to
  /\ edits' = edits + 1
  /\ rebuilt' = (rebuilt \/ recomputed)
  /\ UNCHANGED <<written, original>>

Change == \E i \in DOMAIN entries, b \in Bodies :
            Edit([entries EXCEPT ![i].body = b], FALSE)

Renumber == \E i \in DOMAIN entries : Edit([entries EXCEPT ![i].seq = i], FALSE)

Remove == \E i \in DOMAIN entries :
            Edit(SubSeq(entries, 1, i - 1)
                   \o SubSeq(entries, i + 1, Len(entries)), FALSE)

Exchange == \E i, j \in DOMAIN entries :
              Edit([entries EXCEPT ![i] = entries[j], ![j] = entries[i]], FALSE)

Recompute ==
  \E i \in DOMAIN entries :
    LET prev == PrevHash(entries, i)
    IN  Edit([entries EXCEPT ![i].prev = prev,
                             ![i].hash = ComputeHash(i, entries[i].body, prev)],
             TRUE)

Next == \/ AppendEntry
        \/ Change \/ Renumber \/ Remove \/ Exchange \/ Recompute

Spec == Init /\ [][Next]_vars

-----------------------------------------------------------------------------
\* Properties.

Upto(s, n) == SubSeq(s, 1, n)

\* An entry vouches for its past: when Verify accepts the log, every line that
\* Append wrote on an intact log is still preceded by exactly the entries that
\* preceded it then, whatever was edited, recomputed or appended since.
AcceptedEntryVouches ==
  ChainOK(entries) =>
    \A w \in written, j \in DOMAIN entries :
      entries[j] = w.entry /\ ChainOK(w.past) => Upto(entries, j - 1) = w.past

\* Without recomputed hashes, the entry Verify names is the first that differs
\* from what was written, and a log it accepts is a beginning of what was.
NamesFirstChange ==
  ~ rebuilt =>
    IF ChainOK(entries)
    THEN /\ Len(entries) <= Len(original)
         /\ entries = Upto(original, Len(entries))
    ELSE LET k == FirstBad(entries)
         IN  /\ k - 1 <= Len(original)
             /\ Upto(entries, k - 1) = Upto(original, k - 1)
             /\ k <= Len(original) => entries[k] # original[k]
=============================================================================
