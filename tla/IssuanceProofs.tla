--------------------------- MODULE IssuanceProofs ---------------------------
(***************************************************************************)
(* What a certificate contains, for every policy document and every        *)
(* command line.                                                           *)
(***************************************************************************)
EXTENDS Issuance, TLAPS

-----------------------------------------------------------------------------
\* The pipeline: what the earlier steps have established when a later one runs.

Parsed ==
  /\ FlagOK(args.ttl) /\ ttl = FlagValue(args.ttl)
  /\ FlagOK(args.backdate) /\ backdate = FlagValue(args.backdate)

Decided ==
  /\ Validate(doc)
  /\ grant = Authorize(doc, args.user, args.principals, ttl)
  /\ grant.granted

Dated ==
  /\ ~ (backdate < 0)
  /\ window = [after  |-> ValidAfter(args.now, backdate),
               before |-> ValidBefore(args.now, grant.ttl)]

PipelineInv ==
  /\ doc \in Docs /\ args \in Args
  /\ step \in {"open", "authorize", "date", "ExitOK"} => Parsed
  /\ step = "authorize" => Validate(doc)
  /\ step \in {"date", "ExitOK"} => Decided
  /\ step = "ExitOK" => Dated

\* Each step of runIssue and Issue hands on what it has computed.
LEMMA PipelineAlways == Spec => []PipelineInv
<1>1. Init => PipelineInv
  BY DEF Init, PipelineInv
<1>2. PipelineInv /\ [Next]_vars => PipelineInv'
  <2> SUFFICES ASSUME PipelineInv, [Next]_vars PROVE PipelineInv'
    OBVIOUS
  <2> USE DEF PipelineInv, Parsed, Decided, Dated
  <2>1. CASE Flags BY <2>1 DEF Flags
  <2>2. CASE UsageErr BY <2>2 DEF UsageErr
  <2>3. CASE Open BY <2>3 DEF Open
  <2>4. CASE Decide BY <2>4 DEF Decide
  <2>5. CASE Date BY <2>5 DEF Date
  <2>6. CASE Ended \/ UNCHANGED vars BY <2>6 DEF Ended, vars
  <2> QED BY <2>1, <2>2, <2>3, <2>4, <2>5, <2>6 DEF Next
<1> QED BY <1>1, <1>2, PTL DEF Spec

-----------------------------------------------------------------------------
\* The decision.

\* What a grant is made of.
LEMMA GrantFields ==
  ASSUME NEW d, NEW u, NEW asked, NEW life,
         Authorize(d, u, asked, life).granted
  PROVE  LET g == Authorize(d, u, asked, life)
             r == Describe(d, u)
         IN  /\ u \in DOMAIN d.users
             /\ g.principals = Expand(asked, r.principals)
             /\ Permitted(g.principals, r.principals)
             /\ g.ttl = EffectiveRequest(life, r.maxTTL)
             /\ WithinCap(g.ttl, r.maxTTL)
             /\ g.extensions = r.extensions
             /\ g.sourceAddress = r.sourceAddress
             /\ g.forceCommand = r.forceCommand
BY DEF Authorize, Denied

\* Grants stay within the user's rule (GrantWithinRule of Issuance), and name only
\* well-formed principals, for every policy document and every request.
THEOREM GrantsWithinRule == Spec => []GrantWithinRule
<1>1. PipelineInv => GrantWithinRule
  <2> SUFFICES ASSUME PipelineInv, Issued PROVE GrantWithinRule
    BY DEF GrantWithinRule
  <2>1. /\ args.user \in DOMAIN doc.users
        /\ grant.principals = Expand(args.principals, Rule.principals)
        /\ Permitted(grant.principals, Rule.principals)
    BY GrantFields DEF PipelineInv, Issued, Decided, Describe, Rule
  <2> QED BY <2>1, NamesAssumption
          DEF GrantWithinRule, Permitted, Expand, Named
<1> QED BY <1>1, PipelineAlways, PTL

\* Restrictions reach the certificate (RestrictionsKept of Issuance): inheritance
\* loses no forced command and no address pin, and adds no extension.
THEOREM RestrictionsAreKept == Spec => []RestrictionsKept
<1>1. PipelineInv => RestrictionsKept
  <2> SUFFICES ASSUME PipelineInv, Issued PROVE RestrictionsKept
    BY DEF RestrictionsKept
  <2>1. LET g == Describe(doc, args.user)
        IN  /\ grant.extensions = g.extensions
            /\ grant.sourceAddress = g.sourceAddress
            /\ grant.forceCommand = g.forceCommand
    BY GrantFields DEF PipelineInv, Issued, Decided
  <2> DEFINE own == Rule.sourceAddress
             default == doc.defaults.sourceAddress
  <2>2. /\ grant.extensions = AsSet(InheritUnset(Rule.extensions,
                                                doc.defaults.extensions))
        /\ grant.sourceAddress = AsSet(InheritEmpty(own, default))
        /\ grant.forceCommand = InheritUnset(Rule.forceCommand,
                                             doc.defaults.forceCommand)
    BY <2>1 DEF Describe, Rule
  <2>3. AsSet(Documented("sourceAddress")) # {} =>
          grant.sourceAddress = Documented("sourceAddress")
    BY <2>2 DEF Documented, AsSet, InheritEmpty
  <2> QED BY <2>2, <2>3 DEF RestrictionsKept, Documented, InheritUnset
<1> QED BY <1>1, PipelineAlways, PTL

-----------------------------------------------------------------------------
\* Integer arithmetic of a fixed width, where nothing overflows.

\* A division lies between the factors its dividend lies between.
LEMMA DivBetween ==
  ASSUME NEW a \in Int, NEW b \in Int, NEW x \in Int, NEW s \in Nat \ {0},
         a * s <= x, x < b * s
  PROVE  /\ x \div s \in Int
         /\ a <= x \div s
         /\ x \div s < b
         /\ (x \div s) * s <= x
<1> DEFINE q == x \div s
<1>1. q \in Int /\ q * s <= x /\ x < q * s + s
  OBVIOUS
<1> HIDE DEF q
<1>2. ASSUME q < a PROVE FALSE
  <2>1. a - q - 1 \in Nat BY <1>1, <1>2
  <2>2. (a - q - 1) * s >= 0 BY <2>1
  <2>3. (a - q - 1) * s = a * s - q * s - s BY <1>1
  <2>4. a * s \in Int /\ q * s \in Int BY <1>1
  <2> QED BY <1>1, <2>2, <2>3, <2>4
<1>3. ASSUME b <= q PROVE FALSE
  <2>1. q - b \in Nat BY <1>1, <1>3
  <2>2. (q - b) * s >= 0 BY <2>1
  <2>3. (q - b) * s = q * s - b * s BY <1>1
  <2>4. b * s \in Int /\ q * s \in Int BY <1>1
  <2> QED BY <1>1, <2>2, <2>3, <2>4
<1> QED BY <1>1, <1>2, <1>3 DEF q

\* What is less than the modulus is its own remainder.
LEMMA SmallMod ==
  ASSUME NEW m \in Nat \ {0}, NEW x \in 0 .. (m - 1)
  PROVE  x % m = x
OBVIOUS

\* A negative number that is not below minus the modulus wraps once.
LEMMA NegativeMod ==
  ASSUME NEW m \in Nat \ {0}, NEW x \in (-m) .. (-1)
  PROVE  x % m = x + m
OBVIOUS

\* int64 represents what is below 2^63.
LEMMA Int64Small ==
  ASSUME NEW x \in 0 .. (HalfRange - 1)
  PROVE  Int64(x) = x
<1>1. x + HalfRange \in 0 .. (2 * HalfRange - 1) /\ 2 * HalfRange \in Nat \ {0}
  BY DurationAssumption
<1>2. (x + HalfRange) % (2 * HalfRange) = x + HalfRange
  BY <1>1, SmallMod
<1> QED BY <1>2, DurationAssumption DEF Int64

\* A text that fits is parsed to the duration it stands for.
LEMMA ParsedExactly ==
  ASSUME NEW text \in Texts, text # Absent, Fits(text), ParseTTL(text).ok
  PROVE  /\ ParseTTL(text).d \in 1 .. (HalfRange - 1)
         /\ ParseTTL(text).d = IF text.unit = "d" THEN text.n * Day ELSE text.n
<1>1. text.unit \in {"d", "go", "bad"} /\ text.n \in Int
  BY DEF Texts
<1>2. CASE text.unit = "d"
  <2>1. ParseTTL(text) = ParseDays(text.n)
    BY <1>2 DEF ParseTTL
  <2>2. text.n > 0 /\ ParseTTL(text).d = Int64(text.n * Day)
    BY <1>1, <2>1 DEF ParseDays, BadTTL
  <2>3. text.n * Day \in Nat \ {0}
    BY <1>1, <2>2, DurationAssumption
  <2>4. text.n * Day \in 0 .. (HalfRange - 1)
    BY <1>2, <2>3, DurationAssumption DEF Fits
  <2>5. Int64(text.n * Day) = text.n * Day
    BY <2>4, Int64Small
  <2> QED BY <1>2, <2>2, <2>3, <2>4, <2>5
<1>3. CASE text.unit = "go"
  BY <1>1, <1>3 DEF ParseTTL, ParseGo, BadTTL
<1>4. CASE text.unit = "bad"
  BY <1>4 DEF ParseTTL, BadTTL
<1> QED BY <1>1, <1>2, <1>3, <1>4

-----------------------------------------------------------------------------
\* The validity window.

\* The window of a certificate that lives for a positive duration of at most
\* 292 years, issued when uint64 seconds last that much longer.
LEMMA WindowBounds ==
  ASSUME NEW now \in Nat, NEW life \in 1 .. (HalfRange - 1),
         now * Second + HalfRange <= TimeModulus * Second
  PROVE  /\ ValidBefore(now, life) \in Int
         /\ ValidBefore(now, life) >= now
         /\ ValidBefore(now, life) * Second <= now * Second + life
         /\ life >= Second => now < ValidBefore(now, life)
<1> DEFINE x == now * Second + life
           q == x \div Second
<1>1. /\ Second \in Nat \ {0} /\ TimeModulus \in Nat \ {0}
      /\ HalfRange \in Nat /\ now * Second \in Nat
      /\ TimeModulus * Second \in Nat
  BY TimeAssumption, DurationAssumption
<1>2. x \in Nat /\ now * Second <= x /\ x < TimeModulus * Second
  BY <1>1
<1>0. life >= Second => (now + 1) * Second <= x
  <2>1. (now + 1) * Second = now * Second + Second BY <1>1
  <2> QED BY <1>1, <2>1
<1> HIDE DEF x
<1>3. q \in Int /\ now <= q /\ q < TimeModulus /\ q * Second <= x
  BY <1>1, <1>2, DivBetween
<1>6. life >= Second => now < q
  <2>1. life >= Second => now + 1 <= q
    BY <1>0, <1>1, <1>2, DivBetween
  <2> QED BY <1>3, <2>1
<1> HIDE DEF q
<1>4. q % TimeModulus = q
  BY <1>1, <1>3, SmallMod
<1>5. ValidBefore(now, life) = q
  BY <1>4 DEF ValidBefore, UnixAfter, Uint64, x, q
<1> QED BY <1>3, <1>5, <1>6 DEF x

\* A certificate dated back by no more than the time since 1970 is valid when
\* it is issued.
LEMMA BackdateBounds ==
  ASSUME NEW now \in Nat, NEW back \in Nat,
         now * Second + HalfRange <= TimeModulus * Second,
         back <= now * Second
  PROVE  ValidAfter(now, back) <= now
<1> DEFINE x == now * Second - back
           q == x \div Second
<1>1. /\ Second \in Nat \ {0} /\ TimeModulus \in Nat \ {0}
      /\ HalfRange \in Nat \ {0} /\ now * Second \in Nat
      /\ TimeModulus * Second \in Nat
  BY TimeAssumption, DurationAssumption
<1>2. x \in Nat /\ 0 * Second <= x /\ x < TimeModulus * Second
  BY <1>1
<1>3. x < (now + 1) * Second
  <2>1. (now + 1) * Second = now * Second + Second BY <1>1
  <2> QED BY <1>1, <2>1
<1> HIDE DEF x
<1>4. q \in Int /\ 0 <= q /\ q < TimeModulus /\ q < now + 1
  BY <1>1, <1>2, <1>3, DivBetween
<1> HIDE DEF q
<1>5. q % TimeModulus = q
  BY <1>1, <1>4, SmallMod
<1>6. ValidAfter(now, back) = q
  <2>1. now * Second + (-back) = x BY <1>1 DEF x
  <2> QED BY <1>5, <2>1 DEF ValidAfter, UnixAfter, Uint64, q
<1> QED BY <1>4, <1>6

\* One dated back further has a window that begins after its end.
LEMMA WrappedBackdate ==
  ASSUME NEW now \in Nat, NEW life \in 1 .. (HalfRange - 1),
         NEW back \in 0 .. (HalfRange - 1), back > now * Second,
         now * Second + HalfRange <= TimeModulus * Second,
         2 * HalfRange <= TimeModulus * Second
  PROVE  ValidBefore(now, life) <= ValidAfter(now, back)
<1> DEFINE before == ValidBefore(now, life)
           x == now * Second - back
           q == x \div Second
<1>1. /\ Second \in Nat \ {0} /\ TimeModulus \in Nat \ {0}
      /\ HalfRange \in Nat \ {0} /\ now * Second \in Nat
      /\ TimeModulus * Second \in Nat
  BY TimeAssumption, DurationAssumption
<1>2. before \in Nat /\ before * Second <= now * Second + life
  BY WindowBounds
<1> HIDE DEF before
<1>3. x \in Int /\ x < 0 * Second /\ (before - TimeModulus) * Second <= x
  <2>1. (before - TimeModulus) * Second = before * Second - TimeModulus * Second
    BY <1>1, <1>2
  <2>2. before * Second \in Int
    BY <1>1, <1>2
  <2> QED BY <1>1, <1>2, <2>1, <2>2
<1> HIDE DEF x
<1>4. q \in Int /\ before - TimeModulus <= q /\ q < 0
  BY <1>1, <1>2, <1>3, DivBetween
<1> HIDE DEF q
<1>5. q % TimeModulus = q + TimeModulus
  <2>1. q \in (-TimeModulus) .. (-1)
    BY <1>1, <1>2, <1>4
  <2> QED BY <1>1, <2>1, NegativeMod
<1>6. ValidAfter(now, back) = q % TimeModulus
  <2>1. now * Second + (-back) = x BY <1>1 DEF x
  <2> QED BY <2>1 DEF ValidAfter, UnixAfter, Uint64, q
<1>7. before <= q + TimeModulus
  BY <1>1, <1>2, <1>4
<1> QED BY <1>5, <1>6, <1>7 DEF before

\* The cap is the documented one, when its text fits.
LEMMA CapIsReal ==
  ASSUME PipelineInv, Issued, Fits(CapText)
  PROVE  /\ RealCap \in 1 .. (HalfRange - 1)
         /\ Describe(doc, args.user).maxTTL = RealCap
<1>1. /\ Validate(doc) /\ args.user \in DOMAIN doc.users /\ doc \in Docs
  BY GrantFields DEF PipelineInv, Issued, Decided
<1>2. CapText \in Texts /\ ValidTTL(CapText)
  BY <1>1, TextsAssumption
  DEF CapText, Documented, Rule, Validate, ValidRule
<1>3. CapText = InheritUnset(Rule.maxTTL, doc.defaults.maxTTL)
  BY DEF CapText, Documented, InheritUnset
<1>4. Describe(doc, args.user).maxTTL
        = IF CapText = Absent THEN FallbackMaxTTL ELSE ParseTTL(CapText).d
  BY <1>3 DEF Describe, EffectiveTTL, Rule
<1>5. CASE CapText = Absent
  BY <1>4, <1>5, DurationAssumption DEF RealCap
<1>6. CASE CapText # Absent
  <2>1. /\ ParseTTL(CapText).d \in 1 .. (HalfRange - 1)
        /\ ParseTTL(CapText).d
             = IF CapText.unit = "d" THEN CapText.n * Day ELSE CapText.n
    BY <1>2, <1>6, ParsedExactly DEF ValidTTL
  <2> QED BY <1>4, <1>6, <2>1 DEF RealCap
<1> QED BY <1>5, <1>6

\* The cap is hard (ExpiresWithinCap of Issuance): for all durations that int64
\* holds, a certificate expires at most the documented cap after it was issued;
\* it is valid when it is issued if it lives for a second or more and is dated
\* back to 1970 at most, and never if it is dated back further.
THEOREM CapIsHard == Spec => []ExpiresWithinCap
<1>1. PipelineInv => ExpiresWithinCap
  <2> SUFFICES ASSUME PipelineInv, Issued,
                      Fits(args.ttl), Fits(args.backdate), Fits(CapText)
               PROVE  /\ window.before * Second <= args.now * Second + RealCap
                      /\ grant.ttl >= Second => args.now < window.before
                      /\ IF backdate <= args.now * Second
                         THEN window.after <= args.now
                         ELSE window.before <= window.after
    BY DEF ExpiresWithinCap
  <2>1. /\ args \in Args /\ Parsed /\ Decided /\ Dated
    BY DEF PipelineInv, Issued
  <2>2. /\ args.now \in Nat
        /\ args.now * Second + HalfRange <= TimeModulus * Second
        /\ 2 * HalfRange <= TimeModulus * Second
        /\ args.ttl \in Texts /\ args.backdate \in Texts
    BY <2>1, ClockAssumption, TextsAssumption
  <2>3. ttl \in 0 .. (HalfRange - 1) /\ backdate \in 0 .. (HalfRange - 1)
    BY <2>1, <2>2, ParsedExactly, DurationAssumption
    DEF Parsed, FlagOK, FlagValue
  <2>4. /\ RealCap \in 1 .. (HalfRange - 1)
        /\ Describe(doc, args.user).maxTTL = RealCap
    BY CapIsReal
  <2>5. /\ grant.ttl = EffectiveRequest(ttl, RealCap)
        /\ grant.ttl <= RealCap
    BY <2>1, <2>4, GrantFields DEF Decided, WithinCap
  <2>6. grant.ttl \in 1 .. (HalfRange - 1) /\ grant.ttl <= RealCap
    BY <2>3, <2>4, <2>5, DurationAssumption DEF EffectiveRequest
  <2>7. /\ window.before \in Int
        /\ grant.ttl >= Second => args.now < window.before
        /\ window.before * Second <= args.now * Second + grant.ttl
    BY <2>1, <2>2, <2>6, WindowBounds DEF Dated
  <2>8. window.before * Second <= args.now * Second + RealCap
    <3>1. window.before * Second \in Int /\ args.now * Second \in Int
      BY <2>2, <2>7, TimeAssumption
    <3> QED BY <2>4, <2>6, <2>7, <3>1, DurationAssumption
  <2>9. backdate <= args.now * Second => window.after <= args.now
    BY <2>1, <2>2, <2>3, BackdateBounds DEF Dated
  <2>10. ~ (backdate <= args.now * Second) => window.before <= window.after
    <3>1. args.now * Second \in Int
      BY <2>2, TimeAssumption
    <3> QED BY <2>1, <2>2, <2>3, <2>6, <3>1, WrappedBackdate DEF Dated
  <2> QED BY <2>7, <2>8, <2>9, <2>10
<1> QED BY <1>1, PipelineAlways, PTL

-----------------------------------------------------------------------------
\* What Describe shows of a user is granted, and less is.
LEMMA DescribedIsAuthorized ==
  ASSUME NEW d, Validate(d), NEW u \in DOMAIN d.users,
         NEW asked \in SUBSET Named(Describe(d, u).principals), asked # {},
         NEW life \in 1 .. Describe(d, u).maxTTL
  PROVE  LET g == Authorize(d, u, asked, life)
         IN  g.granted /\ g.principals = asked /\ g.ttl = life
<1> DEFINE r == Describe(d, u)
<1>1. r.principals = d.users[u].principals
  BY DEF Describe
<1>2. asked \subseteq ValidNames /\ asked \subseteq Named(r.principals)
  BY <1>1 DEF Validate, ValidRule, Named
<1>3. Expand(asked, r.principals) = asked /\ Permitted(asked, r.principals)
  BY <1>2 DEF Expand, Permitted
<1>4. EffectiveRequest(life, r.maxTTL) = life /\ WithinCap(life, r.maxTTL)
  BY DEF EffectiveRequest, WithinCap
<1> QED BY <1>3, <1>4 DEF Authorize

\* What is shown is granted (ShownIsGranted of Issuance): Describe and Authorize
\* agree, for every policy document, user and request.
THEOREM ShownIsAlwaysGranted == Spec => []ShownIsGranted
<1>1. ShownIsGranted
  BY DescribedIsAuthorized DEF ShownIsGranted
<1> QED BY <1>1, PTL
=============================================================================
