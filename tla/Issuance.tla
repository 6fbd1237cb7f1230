------------------------------ MODULE Issuance ------------------------------
(***************************************************************************)
(* One run of certclerk issue as a pipeline from the command line to the   *)
(* certificate's contents (runIssue and Issue), over arbitrary policy      *)
(* documents: parse the flags, open the policy, decide, date the           *)
(* certificate.  CertAuthority models the files around this pipeline and   *)
(* takes its requests as already parsed; here the texts matter.            *)
(***************************************************************************)
EXTENDS Policy, Certificate, FiniteSets

CONSTANTS
  Docs,      \* policy documents
  Args       \* command lines: [user, principals, ttl, backdate, now]

\* Texts are [unit, n]; instants and durations are far from the end of uint64
\* seconds, on which 2^63 nanoseconds are but 292 years.
Texts == {Absent} \cup [unit : {"d", "go", "bad"}, n : Int]

ASSUME TextsAssumption ==
  /\ \A a \in Args : a.ttl \in Texts /\ a.backdate \in Texts
  /\ \A d \in Docs : /\ d.defaults.maxTTL \in Texts
                     /\ \A u \in DOMAIN d.users : d.users[u].maxTTL \in Texts

ASSUME ClockAssumption ==
  \A a \in Args : /\ a.now \in Nat
                  /\ a.now * Second + HalfRange <= TimeModulus * Second
  /\ 2 * HalfRange <= TimeModulus * Second

VARIABLES
  doc,       \* policy.json
  args,      \* the command line
  step,      \* what comes next, or how the run ended
  ttl,       \* the parsed --ttl, 0 when the flag is not given
  backdate,  \* the parsed --backdate
  grant,     \* the decision
  window     \* [after, before] of the certificate

vars == <<doc, args, step, ttl, backdate, grant, window>>

NoWindow == [after |-> 0, before |-> 0]

Init ==
  /\ doc \in Docs
  /\ args \in Args
  /\ step = "flags"
  /\ ttl = 0 /\ backdate = 0
  /\ grant = Denied
  /\ window = NoWindow

\* A flag that is empty is not parsed.
FlagOK(text)    == text # Absent => ParseTTL(text).ok
FlagValue(text) == IF text = Absent THEN 0 ELSE ParseTTL(text).d

Flags ==
  /\ step = "flags"
  /\ FlagOK(args.ttl) /\ FlagOK(args.backdate)
  /\ ttl' = FlagValue(args.ttl)
  /\ backdate' = FlagValue(args.backdate)
  /\ step' = "open"
  /\ UNCHANGED <<doc, args, grant, window>>

UsageErr ==
  /\ step = "flags"
  /\ ~ (FlagOK(args.ttl) /\ FlagOK(args.backdate))
  /\ step' = "ExitUsage"
  /\ UNCHANGED <<doc, args, ttl, backdate, grant, window>>

Open ==
  /\ step = "open"
  /\ step' = IF Validate(doc) THEN "authorize" ELSE "ExitRuntime"
  /\ UNCHANGED <<doc, args, ttl, backdate, grant, window>>

Decide ==
  /\ step = "authorize"
  /\ grant' = Authorize(doc, args.user, args.principals, ttl)
  /\ step' = IF grant'.granted THEN "date" ELSE "ExitFindings"
  /\ UNCHANGED <<doc, args, ttl, backdate, window>>

Date ==
  /\ step = "date"
  /\ IF backdate < 0
     THEN step' = "ExitRuntime" /\ UNCHANGED window
     ELSE /\ step' = "ExitOK"
          /\ window' = [after  |-> ValidAfter(args.now, backdate),
                        before |-> ValidBefore(args.now, grant.ttl)]
  /\ UNCHANGED <<doc, args, ttl, backdate, grant>>

Ended == /\ step \in {"ExitOK", "ExitFindings", "ExitUsage", "ExitRuntime"}
         /\ UNCHANGED vars

Next == Flags \/ UsageErr \/ Open \/ Decide \/ Date \/ Ended

Spec == Init /\ [][Next]_vars

-----------------------------------------------------------------------------
\* Properties.

Issued == step = "ExitOK"
Rule   == doc.users[args.user]

\* The value a user's field stands for, read off docs/policy.md: the user's
\* own when set, else the default's.
Documented(field) ==
  IF Rule[field] # Absent THEN Rule[field] ELSE doc.defaults[field]

\* A whole-day text whose duration int64 can hold.
Fits(text) == text # Absent /\ text.unit = "d" => text.n * Day < HalfRange

\* The cap of docs/policy.md in unbounded arithmetic.
CapText == Documented("maxTTL")
RealCap == IF CapText = Absent THEN FallbackMaxTTL
           ELSE IF CapText.unit = "d" THEN CapText.n * Day ELSE CapText.n

\* A certificate names at least one principal; each is a well-formed name that
\* the user's own rule lists, or that was asked for by name under a wildcard.
GrantWithinRule ==
  Issued =>
    /\ args.user \in DOMAIN doc.users
    /\ grant.principals # {}
    /\ Wildcard \notin grant.principals
    /\ \A n \in grant.principals :
         /\ n \in ValidNames
         /\ \/ n \in Rule.principals
            \/ Wildcard \in Rule.principals /\ n \in args.principals

\* The restrictions a rule or the defaults impose reach the certificate: the
\* forced command and the address pin are kept, no extension is added.
RestrictionsKept ==
  Issued =>
    /\ Documented("forceCommand") # Absent =>
         grant.forceCommand = Documented("forceCommand")
    /\ AsSet(Documented("sourceAddress")) # {} =>
         grant.sourceAddress = Documented("sourceAddress")
    /\ grant.extensions = AsSet(Documented("extensions"))

\* For durations that int64 can hold, the certificate expires at most the
\* documented cap after it was issued.  With a lifetime of a second or more it
\* is valid when it is issued; a shorter one is cut to nothing, because validity
\* bounds are whole seconds.  A backdate to before 1970 wraps around and leaves
\* a window that no instant is in.
ExpiresWithinCap ==
  (/\ Issued /\ Fits(args.ttl) /\ Fits(args.backdate) /\ Fits(CapText)) =>
    /\ window.before * Second <= args.now * Second + RealCap
    /\ grant.ttl >= Second => args.now < window.before
    /\ IF backdate <= args.now * Second THEN window.after <= args.now
                                        ELSE window.before <= window.after

\* max_ttl is a hard cap on the lifetime of every certificate.
ExpiresWithinCapAlways ==
  Issued => window.before * Second <= args.now * Second + RealCap

\* A request for what certclerk policy --user shows is granted, and so is a
\* request for less; the grant is what was asked for.
ShownIsGranted ==
  \A u \in DOMAIN doc.users :
    Validate(doc) =>
      LET shown == Describe(doc, u)
      IN  \A asked \in (SUBSET Named(shown.principals)) \ {{}},
             life \in 1 .. shown.maxTTL :
            LET g == Authorize(doc, u, asked, life)
            IN  g.granted /\ g.principals = asked /\ g.ttl = life
=============================================================================
