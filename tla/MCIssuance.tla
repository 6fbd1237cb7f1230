----------------------------- MODULE MCIssuance -----------------------------
(***************************************************************************)
(* Issuance over every combination of a few user rules, defaults and       *)
(* command lines.  A tick is half a second (Second = 2) and a day 24       *)
(* ticks; time.Duration ends at 128 ticks, so that 6d overflows to a       *)
(* negative duration and 11d to a positive one shorter than it.            *)
(***************************************************************************)
EXTENDS Issuance

Names      == {"alice", "bob", "web", "db"}
Extensions == {"permit-pty", "permit-X11"}
Addresses  == {"10.0.0.0/8"}

Go(n)   == [unit |-> "go", n |-> n]
Days(n) == [unit |-> "d", n |-> n]
BadText == [unit |-> "bad", n |-> 1]

RulesOf(principals, ttls) ==
  [principals    : principals,
   maxTTL        : ttls,
   extensions    : {Absent, {}, {"permit-X11"}},
   sourceAddress : {Absent, {}, Addresses},
   forceCommand  : {Absent, "deploy"}]

PlainTTLs == {Absent, Go(7), Days(1)}
MoreTTLs  == PlainTTLs \cup {Days(6), Days(11), BadText}

UserRules(ttls) == RulesOf({{}, {"web", "db"}, {"web", "*"}}, ttls)
Defaults(ttls) ==
  {Default.defaults} \cup
  {[d EXCEPT !.maxTTL = t] :
     t \in ttls,
     d \in {[principals    |-> {},
             maxTTL        |-> Absent,
             extensions    |-> Absent,
             sourceAddress |-> a,
             forceCommand  |-> c] : a \in {Absent, Addresses},
                                    c \in {Absent, "shell"}}}

DocsOf(ttls) ==
  {[decodes |-> TRUE, version |-> 1, defaults |-> d,
    users |-> [u \in {"alice"} |-> r]] :
     d \in Defaults({Absent, Go(3)}), r \in UserRules(ttls)}

\* Documents Parse refuses, and the one Init writes.
OddDocs ==
  LET good == CHOOSE x \in DocsOf({Go(7)}) : TRUE
  IN  {Default,
       [good EXCEPT !.decodes = FALSE],
       [good EXCEPT !.version = 2],
       [good EXCEPT !.defaults.principals = {"web"}],
       [good EXCEPT !.users["alice"].extensions = {"two words"}],
       [good EXCEPT !.users = [u \in {"no good"} |-> good.users["alice"]]]}

AllDocs == DocsOf(MoreTTLs) \cup OddDocs

ArgsOf(users, lists, ttls, backdates) ==
  [user : users, principals : lists, ttl : ttls, backdate : backdates,
   now : {40}]

AllArgs ==
  ArgsOf({"alice"}, {{}, {"web"}, {"db", "bob"}, {"*"}, {"no good"}},
         {Absent, Go(0), Go(1), Go(5), Go(9), Days(1), Days(6), Days(11)}, {Go(3)})
  \cup
  ArgsOf({"alice", "bob"}, {{"web"}}, {Absent}, {Go(0), Go(90), Days(6)})

\* Small sets for the overflow.
DayDocs   == DocsOf({Days(1)})
DayArgs   == ArgsOf({"alice"}, {{"web"}}, {Days(1), Days(6)}, {Go(3)})
=============================================================================
