------------------------------- MODULE Policy -------------------------------
(***************************************************************************)
(* The principal policy (internal/policy): parsing of durations,           *)
(* validation of policy.json, inheritance from the defaults and the        *)
(* decision on one request.  All operators are pure, as in the code.       *)
(*                                                                         *)
(* A document is [decodes, version, defaults, users]; decodes is FALSE for *)
(* a document that encoding/json refuses (syntax, unknown field, trailing  *)
(* data).  A rule is                                                       *)
(*   [principals, maxTTL, extensions, sourceAddress, forceCommand]         *)
(* where a field the JSON does not set is Absent.  Lists are sets: their   *)
(* order only shows in output.                                             *)
(*                                                                         *)
(* Durations are integers, in ticks; HalfRange is 2^63, half the range of  *)
(* time.Duration, scaled down.  The text of a duration is [unit, n]: unit  *)
(* "d" for a whole-day suffix, "go" for time.ParseDuration's syntax and    *)
(* "bad" for what neither accepts.                                         *)
(***************************************************************************)
EXTENDS Integers

CONSTANTS
  Absent,           \* a JSON field that is not set
  Wildcard,         \* the principal "*"
  ValidNames,       \* strings matching principalPattern
  ValidExtensions,  \* non-empty strings without blanks
  ValidAddresses,   \* strings netip parses as a prefix or an address
  Day,              \* ticks in 24 hours
  HalfRange,        \* durations are in -HalfRange .. HalfRange - 1
  FallbackMaxTTL    \* 8 hours, in ticks

ASSUME DurationAssumption ==
  /\ Day \in Nat \ {0}
  /\ HalfRange \in Nat \ {0}
  /\ FallbackMaxTTL \in 1 .. (HalfRange - 1)

ASSUME NamesAssumption ==
  /\ Wildcard \notin ValidNames
  /\ "permit-pty" \in ValidExtensions

-----------------------------------------------------------------------------
\* Durations.

\* int64 arithmetic wraps around.
Int64(x) == ((x + HalfRange) % (2 * HalfRange)) - HalfRange

BadTTL == [ok |-> FALSE, d |-> 0]

\* A whole-day duration is checked before the multiplication, not after it.
ParseDays(n) ==
  IF n <= 0 THEN BadTTL ELSE [ok |-> TRUE, d |-> Int64(n * Day)]

\* time.ParseDuration refuses what int64 cannot hold; ParseTTL what is not
\* positive.
ParseGo(n) ==
  IF n \in 1 .. (HalfRange - 1) THEN [ok |-> TRUE, d |-> n] ELSE BadTTL

ParseTTL(s) ==
  CASE s.unit = "d"  -> ParseDays(s.n)
    [] s.unit = "go" -> ParseGo(s.n)
    [] OTHER         -> BadTTL

-----------------------------------------------------------------------------
\* Validation of a document.

ValidTTL(t) == t # Absent => ParseTTL(t).ok

ValidRule(r) ==
  /\ r.principals \subseteq ValidNames \cup {Wildcard}
  /\ ValidTTL(r.maxTTL)
  /\ r.extensions # Absent => r.extensions \subseteq ValidExtensions
  /\ r.sourceAddress # Absent => r.sourceAddress \subseteq ValidAddresses

\* Parse succeeds on exactly these documents.
Validate(doc) ==
  /\ doc.decodes
  /\ doc.version = 1
  /\ ValidRule(doc.defaults)
  /\ doc.defaults.principals = {}
  /\ \A u \in DOMAIN doc.users : u \in ValidNames /\ ValidRule(doc.users[u])

\* What Init writes: an 8h cap, permit-pty, no users.
Default ==
  [decodes  |-> TRUE,
   version  |-> 1,
   defaults |-> [principals    |-> {},
                 maxTTL        |-> [unit |-> "go", n |-> FallbackMaxTTL],
                 extensions    |-> {"permit-pty"},
                 sourceAddress |-> Absent,
                 forceCommand  |-> Absent],
   users    |-> [u \in {} |-> Absent]]

-----------------------------------------------------------------------------
\* The effective rule of a user and the decision on a request.

\* Mutant: what is not set stays unset.
InheritNothing(own, default) == own

\* A pointer or string field inherits when it is not set; a slice field also
\* when it is set to the empty list.
InheritUnset(own, default) == IF own = Absent THEN default ELSE own
InheritEmpty(own, default) == IF own \in {Absent, {}} THEN default ELSE own
AsSet(list) == IF list = Absent THEN {} ELSE list

EffectiveTTL(own, default) ==
  LET text == InheritUnset(own, default)
  IN  IF text = Absent THEN FallbackMaxTTL ELSE ParseTTL(text).d

\* resolve and the Grant fields Describe fills; u is a user of the document.
Describe(doc, u) ==
  LET rule == doc.users[u]
      def  == doc.defaults
  IN [principals    |-> rule.principals,
      maxTTL        |-> EffectiveTTL(rule.maxTTL, def.maxTTL),
      extensions    |-> AsSet(InheritUnset(rule.extensions, def.extensions)),
      sourceAddress |-> AsSet(InheritEmpty(rule.sourceAddress,
                                           def.sourceAddress)),
      forceCommand  |-> InheritUnset(rule.forceCommand, def.forceCommand)]

\* An empty request stands for the principals the rule names.
Named(principals) == principals \ {Wildcard}
Expand(requested, principals) ==
  IF requested = {} THEN Named(principals) ELSE requested

\* Mutants: names are not matched against principalPattern; the cap itself is
\* refused; the cap is not compared.
PermittedUnmatched(requested, principals) ==
  /\ requested # {}
  /\ requested \subseteq Named(principals) \/ Wildcard \in principals
UnderCap(life, cap) == life < cap
AnyLife(life, cap)  == TRUE

Permitted(requested, principals) ==
  /\ requested # {}
  /\ requested \subseteq ValidNames
  /\ requested \subseteq Named(principals) \/ Wildcard \in principals

WithinCap(life, cap) == life <= cap

\* A TTL of zero asks for the whole cap.
EffectiveRequest(ttl, cap) == IF ttl = 0 THEN cap ELSE ttl

Denied == [granted |-> FALSE]

Authorize(doc, user, requested, ttl) ==
  IF user \notin DOMAIN doc.users THEN Denied
  ELSE LET g     == Describe(doc, user)
           asked == Expand(requested, g.principals)
           life  == EffectiveRequest(ttl, g.maxTTL)
       IN  IF Permitted(asked, g.principals) /\ WithinCap(life, g.maxTTL)
           THEN [granted       |-> TRUE,
                 principals    |-> asked,
                 ttl           |-> life,
                 extensions    |-> g.extensions,
                 sourceAddress |-> g.sourceAddress,
                 forceCommand  |-> g.forceCommand]
           ELSE Denied
=============================================================================
