------------------------------- MODULE Router -------------------------------
(***************************************************************************)
(* One call of Router.Route (internal/router/router.go): the policy tables *)
(* decide which group of upstreams may be asked for a name, the answer of  *)
(* both groups decides for a name no table has, and a negative answer to   *)
(* an HTTPS or SVCB question is checked against the origin's name, which   *)
(* runs routeInternal a second time.                                       *)
(*                                                                         *)
(* A race of a group is an instance of UpstreamRace.  A name is the number *)
(* of its leading underscore labels that matchNames strips: n stands for   *)
(* _l1. ... ._ln.origin, its candidates are n, n-1, ..., 0, and 0 is the   *)
(* origin.  Of the tables only the candidates' entries matter: they are    *)
(* chosen in the initial state and stay.                                   *)
(***************************************************************************)
EXTENDS Naturals, FiniteSets

CONSTANTS CNClients, OverseasClients, NoClient,
          QTypes,          \* "A", "AAAA", "ANY", "HTTPS" (or SVCB), "other"
          HostKinds,       \* "v4", "v6", "invalid": what hosts.txt may have
          MaxLabels,       \* bound: underscore labels of a name
          MaxEntries       \* bound: entries of the tables for a name

ASSUME RouterAssumption == MaxLabels \in Nat

Names  == 0 .. MaxLabels
Groups == {"cn", "overseas"}

VARIABLES hosts, rules, regexes, geosite,  \* the tables' entry for a name
          name, qtype,                     \* the question of the request
          pc,        \* where Route is
          checking,  \* the second routeInternal, for the origin, is running
          asking,    \* the groups whose race this routeInternal has started
          asked,     \* every group that was asked, with the name
          dual,      \* dual[g]: what was received from dualCh
          ip,        \* the first address of the overseas answer
          first,     \* what the first routeInternal returned
          reply,     \* what the last routeInternal, and then Route, returned
          ctxDone,   \* the client's context has ended
          cnHeard, cnExpired, cnVerdict,   \* the race of r.cnClients
          osHeard, osExpired, osVerdict    \* the race of r.overseasClients

tables == <<hosts, rules, regexes, geosite, name, qtype>>
call   == <<pc, checking, asking, asked, dual, ip, first, reply>>
cnRace == <<cnHeard, cnExpired, cnVerdict>>
osRace == <<osHeard, osExpired, osVerdict>>
vars   == <<tables, call, ctxDone, cnRace, osRace>>

CN == INSTANCE UpstreamRace WITH
    Clients <- CNClients,
    heard <- cnHeard, expired <- cnExpired, verdict <- cnVerdict
OS == INSTANCE UpstreamRace WITH
    Clients <- OverseasClients,
    heard <- osHeard, expired <- osExpired, verdict <- osVerdict

Verdict == [g \in Groups |-> IF g = "cn" THEN cnVerdict ELSE osVerdict]

-----------------------------------------------------------------------------
(* Replies: a response with its code, or an error ("fail"); which group    *)
(* gave it; and the path, which the query log shows as the upstream.       *)

Rcodes == {"ok", "nxdomain", "servfail"}
Paths  == {"Hosts", "Rule", "Regex", "GeoSite", "GeoIP"}

Replies == [kind : Rcodes \cup {"fail", "nodata"},
            from : Groups \cup {"none"}, path : Paths]
NoReply == [kind |-> "none", from |-> "none", path |-> "none"]

Reply(kind, from, path) == [kind |-> kind, from |-> from, path |-> path]

TypeOK ==
    /\ hosts \in [Names -> HostKinds \cup {"none"}]
    /\ rules \in [Names -> Groups \cup {"none", "other"}]
    /\ regexes \in [Names -> Groups \cup {"none", "other"}]
    /\ geosite \in [Names -> {"none", "cn", "other"}]
    /\ name \in Names /\ qtype \in QTypes
    /\ pc \in {"route", "single", "dual", "routed", "done"}
    /\ checking \in BOOLEAN /\ ctxDone \in BOOLEAN
    /\ asking \subseteq Groups /\ asked \subseteq Groups \X Names
    /\ dual \in [Groups -> Rcodes \cup {"none", "fail"}]
    /\ ip \in {"none", "cn", "foreign"}
    /\ first \in Replies \cup {NoReply}
    /\ reply \in Replies \cup {NoReply}
    /\ CN!RaceTypeOK /\ OS!RaceTypeOK

-----------------------------------------------------------------------------
Entries(table) == {n \in Names : table[n] # "none"}

Init ==
    /\ hosts \in [Names -> HostKinds \cup {"none"}]
    /\ rules \in [Names -> Groups \cup {"none", "other"}]
    /\ regexes \in [Names -> Groups \cup {"none", "other"}]
    /\ geosite \in [Names -> {"none", "cn", "other"}]
    /\ Cardinality(Entries(hosts)) + Cardinality(Entries(rules))
       + Cardinality(Entries(regexes)) + Cardinality(Entries(geosite))
       <= MaxEntries
    /\ name \in Names /\ qtype \in QTypes
    /\ \A t \in {hosts, rules, regexes, geosite} : Entries(t) \subseteq 0 .. name
    /\ pc = "route" /\ checking = FALSE
    /\ asking = {} /\ asked = {}
    /\ dual = [g \in Groups |-> "none"] /\ ip = "none"
    /\ first = NoReply /\ reply = NoReply
    /\ ctxDone = FALSE
    /\ CN!RaceInit /\ OS!RaceInit

-----------------------------------------------------------------------------
(* routeInternal: the tables.                                              *)

\* The question of this routeInternal: the existence check asks for the A
\* records of the origin, the last candidate.
QName == IF checking THEN 0 ELSE name
QType == IF checking THEN "A" ELSE qtype

\* Mutant: the tables are searched for the name itself only.
Candidates_Exact(n) == {n}

\* matchNames: the name and what is left without its leading labels.
Candidates(n) == 0 .. n

\* The entry of the first, that is the longest, candidate that has one.
Lookup(table, n) ==
    LET hits == Candidates(n) \cap Entries(table) IN
    IF hits = {} THEN "none"
    ELSE table[CHOOSE c \in hits : \A d \in hits : d <= c]

\* LookupGeoSite knows the code "cn" only: others are no match.
LookupGeoSite(n) ==
    IF \E c \in Candidates(n) : geosite[c] = "cn" THEN "cn" ELSE "none"

\* The group the tables pin name n to, and which of them does.
Policy(n) ==
    LET rule  == Lookup(rules, n)
        regex == Lookup(regexes, n)
        site  == LookupGeoSite(n)
    IN  CASE rule \in Groups                          -> <<rule, "Rule">>
          [] rule \notin Groups /\ regex \in Groups   -> <<regex, "Regex">>
          [] rule \notin Groups /\ regex \notin Groups -> <<site, "GeoSite">>

HostOverrides ==
    \/ hosts[QName] = "v4" /\ QType \in {"A", "ANY"}
    \/ hosts[QName] = "v6" /\ QType \in {"AAAA", "ANY"}

Routed(r) == pc' = "routed" /\ reply' = r

\* hosts.txt has an address of the family asked for, or no address at all.
AnswerFromHosts ==
    /\ pc = "route"
    /\ \/ HostOverrides /\ Routed(Reply("ok", "none", "Hosts"))
       \/ hosts[QName] = "invalid" /\ Routed(Reply("fail", "none", "Hosts"))
    /\ UNCHANGED <<tables, checking, asking, asked, dual, ip, first, ctxDone,
                   cnRace, osRace>>

Ask(groups) ==
    /\ pc = "route" /\ ~HostOverrides /\ hosts[QName] # "invalid"
    /\ asking' = groups
    /\ asked' = asked \cup (groups \X {QName})
    /\ UNCHANGED <<tables, checking, dual, ip, first, reply, ctxDone,
                   cnRace, osRace>>

AskOne  == Policy(QName)[1] \in Groups /\ Ask({Policy(QName)[1]}) /\ pc' = "single"
AskBoth == Policy(QName)[1] \notin Groups /\ Ask(Groups) /\ pc' = "dual"

-----------------------------------------------------------------------------
(* routeInternal: the races.                                               *)

\* Route listens: what a race does after that is RaceResolve's matter.
Listening(g) ==
    pc \in {"single", "dual"} /\ g \in asking /\ Verdict[g].kind = "pending"

CNRaceStep ==
    /\ Listening("cn") /\ CN!RaceNext
    /\ UNCHANGED <<tables, call, ctxDone, osRace>>
OSRaceStep ==
    /\ Listening("overseas") /\ OS!RaceNext
    /\ UNCHANGED <<tables, call, ctxDone, cnRace>>

\* What RaceResolve of group g returned.
Returned(g) ==
    CASE Verdict[g].kind = "ok"      -> {"ok"}
      [] Verdict[g].kind = "neg"     -> {"nxdomain", "servfail"}
      [] Verdict[g].kind = "fail"    -> {"fail"}
      [] Verdict[g].kind = "pending" -> {}

SingleReturns ==
    /\ pc = "single"
    /\ \E g \in asking : \E k \in Returned(g) :
         Routed(Reply(k, g, Policy(QName)[2]))
    /\ UNCHANGED <<tables, checking, asking, asked, dual, ip, first, ctxDone,
                   cnRace, osRace>>

\* <-dualCh.  The first address of an overseas answer matters later.
DualReceives(g) ==
    /\ pc = "dual" /\ dual[g] = "none"
    /\ \E k \in Returned(g) :
         /\ dual' = [dual EXCEPT ![g] = k]
         /\ ip' \in IF g = "overseas" /\ k = "ok"
                    THEN {"none", "cn", "foreign"} ELSE {ip}
    /\ UNCHANGED <<tables, pc, checking, asking, asked, first, reply, ctxDone,
                   cnRace, osRace>>

\* Mutant: the first result of the two is enough.
BothReceived_First == \E g \in Groups : dual[g] # "none"

BothReceived == \A g \in Groups : dual[g] # "none"

\* <-ctx.Done() while a result is missing.
DualTimeout ==
    /\ pc = "dual" /\ ~BothReceived /\ ctxDone
    /\ Routed(Reply("fail", "none", "GeoIP"))
    /\ UNCHANGED <<tables, checking, asking, asked, dual, ip, first, ctxDone,
                   cnRace, osRace>>

Response(g) == dual[g] \in Rcodes

\* Mutant: the address decides without a look at the domestic result.
DualWinner_Blind ==
    CASE dual["overseas"] = "ok" /\ ip = "cn" -> "cn"
      [] dual["overseas"] = "ok" /\ ip # "cn" -> "overseas"
      [] dual["overseas"] # "ok" /\ dual["cn"] = "ok" -> "cn"
      [] dual["overseas"] # "ok" /\ dual["cn"] # "ok" -> "overseas"

\* The group whose result is returned, "none" if neither gave a response: a
\* good overseas answer wins, unless its address is Chinese and the domestic
\* group can do as well.
DualWinner ==
    CASE dual["overseas"] = "ok" ->
           IF ip = "cn" /\ dual["cn"] = "ok" THEN "cn" ELSE "overseas"
      [] dual["overseas"] # "ok" /\ dual["cn"] = "ok" -> "cn"
      [] dual["overseas"] # "ok" /\ dual["cn"] # "ok" ->
           IF Response("overseas") THEN "overseas"
           ELSE IF Response("cn") THEN "cn" ELSE "none"

DualDecides ==
    /\ pc = "dual" /\ BothReceived
    /\ Routed(Reply(IF DualWinner = "none" THEN "fail" ELSE dual[DualWinner],
                    DualWinner, "GeoIP"))
    /\ UNCHANGED <<tables, checking, asking, asked, dual, ip, first, ctxDone,
                   cnRace, osRace>>

-----------------------------------------------------------------------------
(* Route: the second look at a negative answer.                            *)

\* Mutant: every negative answer is worth a check.
NeedsCheck_AnyNegative ==
    /\ ~checking /\ reply.kind \in {"nxdomain", "servfail"}
    /\ qtype = "HTTPS" /\ Candidates(name) # {name}

\* Mutant: the answer to the check is checked as well.
NeedsCheck_Again ==
    /\ reply.kind = "nxdomain"
    /\ qtype = "HTTPS" /\ Candidates(name) # {name}

NeedsCheck ==
    /\ ~checking /\ reply.kind = "nxdomain"
    /\ qtype = "HTTPS" /\ Candidates(name) # {name}

\* normalizeServiceBindingNegativeResponse calls routeInternal again.
StartCheck ==
    /\ pc = "routed" /\ NeedsCheck
    /\ pc' = "route" /\ checking' = TRUE
    /\ first' = reply
    /\ asking' = {} /\ dual' = [g \in Groups |-> "none"] /\ ip' = "none"
    /\ cnHeard' = [c \in CNClients |-> "silent"] /\ cnExpired' = FALSE
    /\ cnVerdict' = IF CNClients = {} THEN CN!Failed ELSE CN!Pending
    /\ osHeard' = [c \in OverseasClients |-> "silent"] /\ osExpired' = FALSE
    /\ osVerdict' = IF OverseasClients = {} THEN OS!Failed ELSE OS!Pending
    /\ UNCHANGED <<tables, asked, reply, ctxDone>>

\* The origin exists: NXDOMAIN becomes an empty NOERROR response.
FinishCheck ==
    /\ pc = "routed" /\ checking
    /\ pc' = "done"
    /\ reply' = IF reply.kind = "ok" THEN [first EXCEPT !.kind = "nodata"]
                ELSE first
    /\ UNCHANGED <<tables, checking, asking, asked, dual, ip, first, ctxDone,
                   cnRace, osRace>>

Finish ==
    /\ pc = "routed" /\ ~checking /\ ~NeedsCheck
    /\ pc' = "done"
    /\ UNCHANGED <<tables, checking, asking, asked, dual, ip, first, reply,
                   ctxDone, cnRace, osRace>>

\* Elsewhere a race sees the context end, by its Expire.
CtxEnds ==
    /\ ~ctxDone /\ pc = "dual"
    /\ ctxDone' = TRUE
    /\ UNCHANGED <<tables, call, cnRace, osRace>>

RouteStep ==
    \/ AnswerFromHosts \/ AskOne \/ AskBoth
    \/ SingleReturns \/ DualTimeout \/ DualDecides
    \/ \E g \in Groups : DualReceives(g)
    \/ StartCheck \/ FinishCheck \/ Finish

Next == RouteStep \/ CNRaceStep \/ OSRaceStep \/ CtxEnds

Spec == Init /\ [][Next]_vars

\* Route is scheduled, and a race that was started ends: RaceResolve's
\* RaceReturns, here as fairness of its timer and of its decision.
Fairness ==
    /\ WF_vars(RouteStep)
    /\ WF_vars(CNRaceStep /\ cnExpired' # cnExpired)
    /\ WF_vars(OSRaceStep /\ osExpired' # osExpired)
    /\ WF_vars(CNRaceStep /\ cnVerdict' # cnVerdict)
    /\ WF_vars(OSRaceStep /\ osVerdict' # osVerdict)

FairSpec == Spec /\ Fairness

-----------------------------------------------------------------------------
(* Properties.                                                             *)

\* Table t pins name n to group g: its longest candidate with an entry says so.
PinnedBy(t, n, g) ==
    \E c \in 0 .. n : t[c] = g /\ \A d \in c + 1 .. n : t[d] = "none"

\* Where a name may be sent is the user's decision first (README.md:242): no
\* name that rule.txt, or else a regular expression, or else GeoSite pins to
\* one group is ever sent to the other, and no more is the origin of a service
\* name in the existence check (router.go:287-344, 393-425).
PinnedNamesStay ==
    \A g \in Groups, n \in Names : <<g, n>> \in asked =>
        \A other \in Groups \ {g} :
            /\ ~PinnedBy(rules, n, other)
            /\ PinnedBy(regexes, n, other) => PinnedBy(rules, n, g)
            /\ other = "cn" /\ (\E c \in 0 .. n : geosite[c] = "cn") =>
                   PinnedBy(rules, n, g) \/ PinnedBy(regexes, n, g)

\* The groups that this routeInternal has asked.
AskedOnce ==
    /\ pc = "route" => asking = {}
    /\ pc = "single" => \E g \in Groups : asking = {g}
    /\ pc = "dual" => asking = Groups

\* What was received is what the race returned, and an address is that of a
\* good answer.
ResultsKept ==
    /\ \A g \in Groups : dual[g] # "none" => dual[g] \in Returned(g)
    /\ ip # "none" => dual["overseas"] = "ok"

\* Only a negative answer to a service name is checked, and the check succeeds
\* only with an answer for the origin.
CheckFits ==
    /\ checking => qtype = "HTTPS" /\ name > 0 /\ first.kind = "nxdomain"
    /\ reply.kind = "nodata" => pc = "done"
    /\ checking /\ pc = "routed" /\ reply.kind = "ok" =>
           hosts[0] = "v4" \/ \E g \in asking : Verdict[g].kind = "ok"

\* The inductive invariant, with the types of the variables.
RouterInv == TypeOK /\ PinnedNamesStay /\ AskedOnce /\ ResultsKept /\ CheckFits

\* Of two concurrent races the reply is never worse than the better one
\* (router.go:467-516): it is negative only if neither race found a NOERROR
\* response, and an error only if neither found any, or the client gave up.
NeverWorseThanEither ==
    pc = "routed" /\ asking = Groups =>
        /\ reply.kind \in {"nxdomain", "servfail"} =>
               \A g \in Groups : Verdict[g].kind \in {"neg", "fail"}
        /\ reply.kind = "fail" =>
               ctxDone \/ \A g \in Groups : Verdict[g].kind = "fail"

\* A name whose overseas answer is a Chinese address gets the domestic answer
\* if there is one, and the domestic answer is used for no other reason than
\* that, or an overseas race that failed (router.go:479-496).
AddressDecides ==
    pc = "routed" /\ asking = Groups /\ reply.kind = "ok" =>
        /\ reply.from = "overseas" /\ ip = "cn" => Verdict["cn"].kind # "ok"
        /\ reply.from = "cn" => ip = "cn" \/ Verdict["overseas"].kind # "ok"

\* An HTTPS or SVCB answer becomes NODATA only if it was NXDOMAIN and the
\* origin was found to exist; and no NXDOMAIN of a service name is returned
\* unchecked (router.go:263-281).
NoDataOnlyForExistingOrigin ==
    /\ reply.kind = "nodata" =>
         /\ qtype = "HTTPS" /\ name > 0 /\ first.kind = "nxdomain"
         /\ hosts[0] = "v4" \/ \E g \in asking : Verdict[g].kind = "ok"
    /\ pc = "done" /\ reply.kind = "nxdomain" /\ qtype = "HTTPS" /\ name > 0 =>
         checking /\ reply = first

\* Route returns, whatever the upstreams do (router.go:427-460).
RouteReturns == <>(pc = "done")
=============================================================================
