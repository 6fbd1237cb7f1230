--------------------------- MODULE MCAuditTamper ---------------------------
(***************************************************************************)
(* Instance of AuditTamper for TLC: two contents that differ in one field, *)
(* logs of up to three entries, up to three edits.                         *)
(***************************************************************************)
EXTENDS AuditTamper

Body(serial) == [action |-> "issue", serial |-> serial, keyID |-> "laptop"]
TwoBodies == {Body(1), Body(2)}
NoIds     == {}
=============================================================================
