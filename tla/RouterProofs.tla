---------------------------- MODULE RouterProofs ----------------------------
(***************************************************************************)
(* Proofs about Router, for any upstreams in the two groups and tables     *)
(* with any entries for a name with any number of labels.  RouterInv is    *)
(* inductive; of the two races it needs only that a verdict is settled.    *)
(***************************************************************************)
EXTENDS Router, BoundedSets

-----------------------------------------------------------------------------
(* The tables.                                                             *)

\* The longest candidate with an entry is what a lookup finds.
LEMMA LookupFinds ==
    ASSUME NEW table, NEW n \in Names, NEW g, g # "none"
    PROVE  PinnedBy(table, n, g) <=> Lookup(table, n) = g
<1> DEFINE hits == Candidates(n) \cap Entries(table)
           IsLongest(c) == c \in hits /\ \A d \in hits : d <= c
<1>0. n \in Nat /\ n <= MaxLabels /\ MaxLabels \in Nat
  BY RouterAssumption DEF Names
<1>1. \A c : c \in hits <=> c \in 0 .. n /\ table[c] # "none"
  BY <1>0 DEF Candidates, Entries, Names
<1>2. hits \in SUBSET (0 .. n)
  BY <1>1
<1>3. \A c \in hits : IsLongest(c) <=> \A d \in c + 1 .. n : table[d] = "none"
  <2> SUFFICES ASSUME NEW c \in hits
               PROVE  (\A d \in hits : d <= c) <=> \A d \in c + 1 .. n : table[d] = "none"
    OBVIOUS
  <2>1. c \in Nat /\ \A d : d \in c + 1 .. n => d \in 0 .. n /\ ~ (d <= c)
    BY <1>0, <1>2
  <2>2. \A d \in 0 .. n : ~ (d <= c) => d \in c + 1 .. n
    BY <1>0, <2>1
  <2> HIDE DEF hits
  <2> QED
    BY <1>1, <1>2, <2>1, <2>2
<1>4. \A c, d : IsLongest(c) /\ IsLongest(d) => c = d
  <2> SUFFICES ASSUME NEW c, NEW d, IsLongest(c), IsLongest(d) PROVE c = d
    OBVIOUS
  <2>1. c \in 0 .. n /\ d \in 0 .. n /\ c <= d /\ d <= c
    BY <1>2
  <2> QED
    BY <2>1
<1>5. CASE hits = {}
  <2>1. Lookup(table, n) = "none"
    BY <1>5 DEF Lookup
  <2>2. ~ PinnedBy(table, n, g)
    BY <1>1, <1>5 DEF PinnedBy
  <2> QED
    BY <2>1, <2>2
<1>6. CASE hits # {}
  <2>1. \E c \in hits : IsLongest(c)
    <3> HIDE DEF hits
    <3> QED
      BY <1>0, <1>2, <1>6, Highest
  <2> DEFINE top == CHOOSE c \in hits : \A d \in hits : d <= c
  <2>2. IsLongest(top)
    <3> HIDE DEF hits
    <3> QED
      BY <2>1
  <2>3. Lookup(table, n) = table[top]
    BY <1>6 DEF Lookup
  <2> HIDE DEF top
  <2>4. ASSUME table[top] = g PROVE PinnedBy(table, n, g)
    <3>1. top \in 0 .. n /\ \A d \in top + 1 .. n : table[d] = "none"
      BY <1>1, <1>3, <2>2
    <3> QED
      BY <2>4, <3>1 DEF PinnedBy
  <2>5. ASSUME PinnedBy(table, n, g) PROVE table[top] = g
    <3>1. PICK c \in 0 .. n : table[c] = g /\ \A d \in c + 1 .. n : table[d] = "none"
      BY <2>5 DEF PinnedBy
    <3>2. c \in hits
      BY <1>1, <3>1
    <3>3. c = top
      <4>1. IsLongest(c)
        BY <1>3, <3>1, <3>2
      <4> HIDE DEF IsLongest
      <4> QED
        BY <1>4, <2>2, <4>1
    <3> QED
      BY <3>1, <3>3
  <2> QED
    BY <2>3, <2>4, <2>5
<1> QED
  BY <1>5, <1>6

\* What PinnedNamesStay allows.
Allowed(n, g) ==
    \A other \in Groups \ {g} :
        /\ ~PinnedBy(rules, n, other)
        /\ PinnedBy(regexes, n, other) => PinnedBy(rules, n, g)
        /\ other = "cn" /\ (\E c \in 0 .. n : geosite[c] = "cn") =>
               PinnedBy(rules, n, g) \/ PinnedBy(regexes, n, g)

\* The three tables, in their order, allow what Policy says, and both groups
\* only if none of them has an entry.
LEMMA PolicyAllows ==
    ASSUME NEW n \in Names
    PROVE  /\ Policy(n)[1] \in Groups \cup {"none"} /\ Policy(n)[2] \in Paths
           /\ \A g \in Groups : Policy(n)[1] \in {g, "none"} => Allowed(n, g)
<1> DEFINE rule  == Lookup(rules, n)
           regex == Lookup(regexes, n)
           site  == LookupGeoSite(n)
<1>1. \A g \in Groups : /\ PinnedBy(rules, n, g) <=> rule = g
                        /\ PinnedBy(regexes, n, g) <=> regex = g
  BY LookupFinds DEF Groups
<1>2. /\ site = "cn" <=> \E c \in 0 .. n : geosite[c] = "cn"
      /\ site \in {"cn", "none"}
  BY DEF LookupGeoSite, Candidates
<1>3. Policy(n) = IF rule \in Groups THEN <<rule, "Rule">>
                  ELSE IF regex \in Groups THEN <<regex, "Regex">> ELSE <<site, "GeoSite">>
  BY Zenon DEF Policy
<1> HIDE DEF rule, regex, site
<1>4. Policy(n)[1] = IF rule \in Groups THEN rule
                     ELSE IF regex \in Groups THEN regex ELSE site
  BY <1>3
<1>5. Policy(n)[1] \in Groups \cup {"none"} /\ Policy(n)[2] \in Paths
  BY <1>2, <1>3 DEF Groups, Paths
<1>6. ASSUME NEW g \in Groups, Policy(n)[1] \in {g, "none"} PROVE Allowed(n, g)
  <2> SUFFICES ASSUME NEW other \in Groups \ {g}
               PROVE  /\ rule # other /\ (regex = other => rule = g)
                      /\ other = "cn" /\ site = "cn" => rule = g \/ regex = g
    BY <1>1, <1>2 DEF Allowed
  <2> QED
    BY <1>4, <1>6 DEF Groups
<1> QED
  BY <1>5, <1>6

-----------------------------------------------------------------------------
(* The races.                                                              *)

\* A race step keeps the types, and a verdict that there is.
LEMMA CNStep ==
    ASSUME CN!RaceTypeOK, CN!RaceNext
    PROVE  CN!RaceTypeOK'
<1>1. \A c \in CNClients : /\ CN!Reply("ok", c) \in CN!Verdicts
                           /\ CN!Reply("neg", c) \in CN!Verdicts
  BY DEF CN!Reply, CN!Verdicts
<1> USE DEF CN!RaceTypeOK
<1>2. ASSUME NEW c \in CNClients, NEW k \in CN!Kinds, CN!Hear(c, k) PROVE CN!RaceTypeOK'
  BY <1>2 DEF CN!Hear
<1>3. CASE CN!Expire
  BY <1>3 DEF CN!Expire
<1>4. ASSUME NEW c \in CNClients, CN!Succeed(c) \/ CN!FallBack(c) PROVE CN!RaceTypeOK'
  BY <1>1, <1>4 DEF CN!Succeed, CN!FallBack, CN!Decide
<1>5. CASE CN!GiveUp
  BY <1>5 DEF CN!GiveUp, CN!Decide, CN!Verdicts
<1> QED
  BY <1>2, <1>3, <1>4, <1>5 DEF CN!RaceNext

LEMMA OSStep ==
    ASSUME OS!RaceTypeOK, OS!RaceNext
    PROVE  OS!RaceTypeOK'
<1>1. \A c \in OverseasClients : /\ OS!Reply("ok", c) \in OS!Verdicts
                                 /\ OS!Reply("neg", c) \in OS!Verdicts
  BY DEF OS!Reply, OS!Verdicts
<1> USE DEF OS!RaceTypeOK
<1>2. ASSUME NEW c \in OverseasClients, NEW k \in OS!Kinds, OS!Hear(c, k)
      PROVE  OS!RaceTypeOK'
  BY <1>2 DEF OS!Hear
<1>3. CASE OS!Expire
  BY <1>3 DEF OS!Expire
<1>4. ASSUME NEW c \in OverseasClients, OS!Succeed(c) \/ OS!FallBack(c)
      PROVE  OS!RaceTypeOK'
  BY <1>1, <1>4 DEF OS!Succeed, OS!FallBack, OS!Decide
<1>5. CASE OS!GiveUp
  BY <1>5 DEF OS!GiveUp, OS!Decide, OS!Verdicts
<1> QED
  BY <1>2, <1>3, <1>4, <1>5 DEF OS!RaceNext

\* A race begins without a verdict, or with an error if there are no upstreams.
LEMMA RaceStarts ==
    ASSUME cnHeard' = [c \in CNClients |-> "silent"], cnExpired' = FALSE,
           cnVerdict' = IF CNClients = {} THEN CN!Failed ELSE CN!Pending,
           osHeard' = [c \in OverseasClients |-> "silent"], osExpired' = FALSE,
           osVerdict' = IF OverseasClients = {} THEN OS!Failed ELSE OS!Pending
    PROVE  CN!RaceTypeOK' /\ OS!RaceTypeOK'
  BY DEF CN!RaceTypeOK, CN!Verdicts, OS!RaceTypeOK, OS!Verdicts

\* What a race may return.
LEMMA ReturnedKinds ==
    ASSUME CN!RaceTypeOK, OS!RaceTypeOK, NEW g \in Groups
    PROVE  /\ Verdict[g].kind \in {"pending", "ok", "neg", "fail"}
           /\ Returned(g) = IF Verdict[g].kind = "ok" THEN {"ok"}
                            ELSE IF Verdict[g].kind = "neg" THEN {"nxdomain", "servfail"}
                            ELSE IF Verdict[g].kind = "fail" THEN {"fail"} ELSE {}
           /\ Returned(g) \subseteq Rcodes \cup {"fail"}
<1>1. /\ \A v \in CN!Verdicts : v.kind \in {"pending", "ok", "neg", "fail"}
      /\ \A v \in OS!Verdicts : v.kind \in {"pending", "ok", "neg", "fail"}
  BY DEF CN!Verdicts, CN!Pending, CN!Failed, OS!Verdicts, OS!Pending, OS!Failed
<1>2. Verdict[g].kind \in {"pending", "ok", "neg", "fail"}
  BY <1>1 DEF Verdict, CN!RaceTypeOK, OS!RaceTypeOK, Groups
<1>3. Returned(g) = IF Verdict[g].kind = "ok" THEN {"ok"}
                    ELSE IF Verdict[g].kind = "neg" THEN {"nxdomain", "servfail"}
                    ELSE IF Verdict[g].kind = "fail" THEN {"fail"} ELSE {}
  BY <1>2, Zenon DEF Returned
<1> QED
  BY <1>2, <1>3 DEF Rcodes
-----------------------------------------------------------------------------
(* Type correctness, and what routeInternal has done so far.               *)

\* A reply has the type of one.
LEMMA ReplyType ==
    \A k \in Rcodes \cup {"fail"}, g \in Groups \cup {"none"}, p \in Paths :
        /\ Reply(k, g, p) \in Replies
        /\ Reply(k, g, p).kind = k /\ Reply(k, g, p).from = g
  BY DEF Reply, Replies

\* The name that is asked for.
LEMMA QNameType == TypeOK => QName \in Names
  BY RouterAssumption DEF TypeOK, QName, Names

\* The group that decides is one whose result was received.
LEMMA WinnerFits ==
    ASSUME TypeOK
    PROVE  /\ DualWinner = IF dual["overseas"] = "ok"
                           THEN IF ip = "cn" /\ dual["cn"] = "ok" THEN "cn" ELSE "overseas"
                           ELSE IF dual["cn"] = "ok" THEN "cn"
                           ELSE IF Response("overseas") THEN "overseas"
                           ELSE IF Response("cn") THEN "cn" ELSE "none"
           /\ DualWinner \in Groups => dual[DualWinner] \in Rcodes
           /\ DualWinner \in Groups \cup {"none"}
<1>1. DualWinner = IF dual["overseas"] = "ok"
                   THEN IF ip = "cn" /\ dual["cn"] = "ok" THEN "cn" ELSE "overseas"
                   ELSE IF dual["cn"] = "ok" THEN "cn"
                   ELSE IF Response("overseas") THEN "overseas"
                   ELSE IF Response("cn") THEN "cn" ELSE "none"
  BY Zenon DEF DualWinner
<1> QED
  BY <1>1 DEF Response, Rcodes, Groups

\* Every step preserves the types.
LEMMA TypeStep ==
    ASSUME TypeOK, AskedOnce, CheckFits, [Next]_vars
    PROVE  TypeOK'
<1> USE DEF TypeOK
<1>a. (UNCHANGED cnRace => CN!RaceTypeOK') /\ (UNCHANGED osRace => OS!RaceTypeOK')
  BY DEF CN!RaceTypeOK, OS!RaceTypeOK, cnRace, osRace
<1>b. /\ \A g \in Groups : Returned(g) \subseteq Rcodes \cup {"fail"}
      /\ QName \in Names /\ Policy(QName)[2] \in Paths
      /\ Paths = {"Hosts", "Rule", "Regex", "GeoSite", "GeoIP"}
  BY ReturnedKinds, PolicyAllows, QNameType DEF Paths
<1>1. CASE AnswerFromHosts
  <2>1. reply' \in Replies
    BY <1>1, <1>b, ReplyType DEF AnswerFromHosts, Routed, Rcodes
  <2> QED
    BY <1>1, <1>a, <2>1 DEF AnswerFromHosts, Routed, tables
<1>2. ASSUME NEW gs \in SUBSET Groups, Ask(gs), pc' \in {"single", "dual"} PROVE TypeOK'
  <2>1. asking' \subseteq Groups /\ asked' \subseteq Groups \X Names
    BY <1>2, <1>b DEF Ask
  <2> QED
    BY <1>2, <1>a, <2>1 DEF Ask, tables
<1>3. CASE AskOne \/ AskBoth
  BY <1>2, <1>3 DEF AskOne, AskBoth
<1>4. CASE SingleReturns
  <2>1. reply' \in Replies
    BY <1>4, <1>b, ReplyType DEF SingleReturns, Routed
  <2> QED
    BY <1>4, <1>a, <2>1 DEF SingleReturns, Routed, tables
<1>5. ASSUME NEW g \in Groups, DualReceives(g) PROVE TypeOK'
  <2>1. dual' \in [Groups -> Rcodes \cup {"none", "fail"}]
    BY <1>5, <1>b DEF DualReceives
  <2>2. ip' \in {"none", "cn", "foreign"}
    BY <1>5 DEF DualReceives
  <2> QED
    BY <1>5, <1>a, <2>1, <2>2 DEF DualReceives, tables
<1>6. CASE DualTimeout \/ DualDecides
  <2>1. reply' \in Replies
    <3>1. CASE DualTimeout
      BY <1>b, <3>1, ReplyType DEF DualTimeout, Routed
    <3>2. CASE DualDecides
      BY <1>b, <3>2, ReplyType, WinnerFits DEF DualDecides, Routed
    <3> QED
      BY <1>6, <3>1, <3>2
  <2> QED
    BY <1>6, <1>a, <2>1 DEF DualTimeout, DualDecides, Routed, tables
<1>7. CASE StartCheck
  <2>1. CN!RaceTypeOK' /\ OS!RaceTypeOK'
    BY <1>7, RaceStarts DEF StartCheck
  <2> QED
    BY <1>7, <2>1 DEF StartCheck, tables
<1>8. CASE FinishCheck
  <2>1. first \in Replies
    BY <1>8 DEF FinishCheck, CheckFits, NoReply
  <2>2. [first EXCEPT !.kind = "nodata"] \in Replies
    BY <2>1 DEF Replies
  <2> QED
    BY <1>8, <1>a, <2>1, <2>2 DEF FinishCheck, tables
<1>9. CASE Finish
  BY <1>9, <1>a DEF Finish, tables
<1>10. CASE CNRaceStep
  BY <1>10, <1>a, CNStep DEF CNRaceStep, tables, call
<1>11. CASE OSRaceStep
  BY <1>11, <1>a, OSStep DEF OSRaceStep, tables, call
<1>12. CASE CtxEnds
  BY <1>12, <1>a DEF CtxEnds, tables, call
<1>13. CASE UNCHANGED vars
  BY <1>13, <1>a DEF vars, tables, call
<1> QED
  BY <1>1, <1>3, <1>4, <1>5, <1>6, <1>7, <1>8, <1>9, <1>10, <1>11, <1>12, <1>13
  DEF Next, RouteStep

\* What is asked follows the tables, which stay.
LEMMA PinnedStep ==
    ASSUME TypeOK, PinnedNamesStay, [Next]_vars
    PROVE  PinnedNamesStay'
<1>0. /\ PinnedNamesStay <=> \A g \in Groups, n \in Names : <<g, n>> \in asked => Allowed(n, g)
      /\ (\A g \in Groups, n \in Names : <<g, n>> \in asked' => Allowed(n, g))
         /\ UNCHANGED tables => PinnedNamesStay'
  BY DEF PinnedNamesStay, Allowed, PinnedBy, tables
<1>1. UNCHANGED tables
  BY DEF Next, RouteStep, AnswerFromHosts, AskOne, AskBoth, Ask, SingleReturns, DualReceives,
         DualTimeout, DualDecides, StartCheck, FinishCheck, Finish, CNRaceStep, OSRaceStep,
         CtxEnds, vars
<1>2. CASE AskOne \/ AskBoth
  <2> DEFINE p == Policy(QName)[1]
  <2>1. /\ QName \in Names /\ p \in Groups \cup {"none"}
        /\ \A g \in Groups : p \in {g, "none"} => Allowed(QName, g)
    BY PolicyAllows, QNameType
  <2>2. \E gs \in SUBSET Groups : /\ asked' = asked \cup (gs \X {QName})
                                  /\ \A g \in gs : p \in {g, "none"}
    <3>1. CASE AskOne
      BY <3>1 DEF AskOne, Ask
    <3>2. CASE AskBoth
      BY <2>1, <3>2 DEF AskBoth, Ask
    <3> QED
      BY <1>2, <3>1, <3>2
  <2> HIDE DEF p
  <2>3. \A g \in Groups, n \in Names : <<g, n>> \in asked' => Allowed(n, g)
    BY <1>0, <2>1, <2>2
  <2> QED
    BY <1>0, <1>1, <2>3
<1>3. CASE ~ (AskOne \/ AskBoth)
  <2>1. asked' = asked
    BY <1>3 DEF Next, RouteStep, AnswerFromHosts, SingleReturns, DualReceives,
         DualTimeout, DualDecides, StartCheck, FinishCheck, Finish, CNRaceStep, OSRaceStep,
         CtxEnds, vars, call
  <2> QED
    BY <1>0, <1>1, <2>1
<1> QED
  BY <1>2, <1>3

\* Every step keeps to the groups that were asked.
LEMMA AskedOnceStep ==
    ASSUME TypeOK, AskedOnce, [Next]_vars
    PROVE  AskedOnce'
<1> USE DEF AskedOnce
<1>1. CASE AskOne
  BY <1>1 DEF AskOne, Ask
<1>2. CASE AskBoth
  BY <1>2 DEF AskBoth, Ask
<1>3. CASE StartCheck
  BY <1>3 DEF StartCheck
<1>4. CASE AnswerFromHosts \/ SingleReturns \/ DualTimeout \/ DualDecides
           \/ FinishCheck \/ Finish
  <2>1. pc' \in {"routed", "done"}
    BY <1>4 DEF AnswerFromHosts, SingleReturns, DualTimeout, DualDecides, Routed, FinishCheck,
                Finish
  <2> QED
    BY <2>1
<1>5. CASE UNCHANGED <<pc, asking>>
  BY <1>5
<1>6. ASSUME NEW g \in Groups, DualReceives(g) PROVE UNCHANGED <<pc, asking>>
  BY <1>6 DEF DualReceives
<1>7. CNRaceStep \/ OSRaceStep \/ CtxEnds \/ UNCHANGED vars => UNCHANGED <<pc, asking>>
  BY DEF CNRaceStep, OSRaceStep, CtxEnds, vars, call
<1> QED
  BY <1>1, <1>2, <1>3, <1>4, <1>5, <1>6, <1>7 DEF Next, RouteStep
\* A verdict that there is stays, until the check starts new races.
LEMMA VerdictStays ==
    ASSUME [Next]_vars, ~ StartCheck, NEW g \in Groups
    PROVE  Verdict[g].kind # "pending" =>
               Verdict'[g] = Verdict[g] /\ Returned(g)' = Returned(g)
<1>1. ASSUME Verdict'[g] = Verdict[g] PROVE Returned(g)' = Returned(g)
  BY <1>1 DEF Returned
<1>2. CASE CNRaceStep
  BY <1>1, <1>2 DEF CNRaceStep, Listening, Verdict, osRace, Groups
<1>3. CASE OSRaceStep
  BY <1>1, <1>3 DEF OSRaceStep, Listening, Verdict, cnRace, Groups
<1>4. CASE UNCHANGED <<cnVerdict, osVerdict>>
  BY <1>1, <1>4 DEF Verdict
<1>5. AnswerFromHosts \/ AskOne \/ AskBoth \/ SingleReturns \/ DualTimeout \/ DualDecides
      \/ (\E h \in Groups : DualReceives(h)) \/ FinishCheck \/ Finish \/ CtxEnds
      \/ UNCHANGED vars => UNCHANGED <<cnVerdict, osVerdict>>
  BY DEF AnswerFromHosts, AskOne, AskBoth, Ask, SingleReturns, DualReceives, DualTimeout,
         DualDecides, FinishCheck, Finish, CtxEnds, vars, cnRace, osRace
<1> QED
  BY <1>2, <1>3, <1>4, <1>5 DEF Next, RouteStep

\* A result that was received says what the race returned.
LEMMA ReceivedIsVerdict ==
    ASSUME TypeOK, ResultsKept, NEW g \in Groups, dual[g] # "none"
    PROVE  /\ dual[g] = "ok" <=> Verdict[g].kind = "ok"
           /\ dual[g] = "fail" <=> Verdict[g].kind = "fail"
           /\ dual[g] \in {"nxdomain", "servfail"} <=> Verdict[g].kind = "neg"
           /\ Verdict[g].kind # "pending"
<1>1. dual[g] \in Returned(g)
  BY DEF ResultsKept
<1> QED
  BY <1>1, ReturnedKinds DEF TypeOK

\* Every step keeps the results that were received.
LEMMA ResultsKeptStep ==
    ASSUME TypeOK, ResultsKept, [Next]_vars
    PROVE  ResultsKept'
<1>a. \A g \in Groups : dual[g] # "none" => dual[g] \in Returned(g) /\ Verdict[g].kind # "pending"
  BY ReceivedIsVerdict DEF ResultsKept
<1>1. CASE StartCheck
  BY <1>1 DEF StartCheck, ResultsKept
<1>2. ASSUME NEW h \in Groups, DualReceives(h), ~ StartCheck PROVE ResultsKept'
  <2>1. PICK k \in Returned(h) : /\ dual' = [dual EXCEPT ![h] = k]
                                 /\ ip' \in IF h = "overseas" /\ k = "ok"
                                            THEN {"none", "cn", "foreign"} ELSE {ip}
    BY <1>2 DEF DualReceives
  <2>2. dual[h] = "none" /\ Verdict[h].kind # "pending"
    BY <1>2, <2>1, ReturnedKinds DEF DualReceives, TypeOK
  <2>3. ASSUME NEW g \in Groups, dual'[g] # "none" PROVE dual'[g] \in Returned(g)'
    <3>1. Verdict[g].kind # "pending" /\ dual'[g] \in Returned(g)
      BY <1>a, <2>1, <2>2, <2>3 DEF TypeOK
    <3> QED
      BY <1>2, <3>1, VerdictStays
  <2>4. ip' # "none" => dual'["overseas"] = "ok"
    <3>1. "overseas" \in Groups /\ dual \in [Groups -> Rcodes \cup {"none", "fail"}]
      BY DEF Groups, TypeOK
    <3> QED
      BY <2>1, <2>2, <3>1 DEF ResultsKept
  <2> QED
    BY <2>3, <2>4 DEF ResultsKept
<1>3. CASE UNCHANGED <<dual, ip>> /\ ~ StartCheck
  <2>1. ASSUME NEW g \in Groups, dual'[g] # "none" PROVE dual'[g] \in Returned(g)'
    BY <1>a, <1>3, <2>1, VerdictStays
  <2> QED
    BY <1>3, <2>1 DEF ResultsKept
<1>4. AnswerFromHosts \/ AskOne \/ AskBoth \/ SingleReturns \/ DualTimeout \/ DualDecides
      \/ FinishCheck \/ Finish \/ CNRaceStep \/ OSRaceStep \/ CtxEnds
      \/ UNCHANGED vars => UNCHANGED <<dual, ip>>
  BY DEF AnswerFromHosts, AskOne, AskBoth, Ask, SingleReturns, DualTimeout, DualDecides,
         FinishCheck, Finish, CNRaceStep, OSRaceStep, CtxEnds, vars, call
<1> QED
  BY <1>1, <1>2, <1>3, <1>4 DEF Next, RouteStep

-----------------------------------------------------------------------------
(* How routeInternal returns.                                              *)

\* The steps that end it, and what the reply of each says.
Ends == AnswerFromHosts \/ SingleReturns \/ DualTimeout \/ DualDecides

\* The tables answer.
LEMMA HostsAnswer ==
    ASSUME TypeOK, AskedOnce, AnswerFromHosts
    PROVE  /\ asking' = {} /\ reply'.kind \in {"ok", "fail"}
           /\ checking /\ reply'.kind = "ok" => hosts[0] = "v4"
<1>1. pc = "route" /\ asking' = asking
  BY DEF AnswerFromHosts
<1>2. CASE HostOverrides /\ reply' = Reply("ok", "none", "Hosts")
  BY <1>1, <1>2 DEF AskedOnce, HostOverrides, QName, QType, Reply
<1>3. CASE reply' = Reply("fail", "none", "Hosts")
  BY <1>1, <1>3 DEF AskedOnce, Reply
<1> QED
  BY <1>2, <1>3 DEF AnswerFromHosts, Routed

\* One group answers.
LEMMA SingleAnswers ==
    ASSUME TypeOK, AskedOnce, SingleReturns
    PROVE  /\ asking' # Groups
           /\ reply'.kind \in Rcodes \cup {"fail"}
           /\ reply'.kind = "ok" => \E g \in asking' : Verdict'[g].kind = "ok"
<1>0. PICK g \in asking : \E k \in Returned(g) : reply' = Reply(k, g, Policy(QName)[2])
  BY DEF SingleReturns, Routed
<1>1. PICK k \in Returned(g) : reply' = Reply(k, g, Policy(QName)[2])
  BY <1>0
<1>2. g \in Groups /\ asking' = asking /\ asking = {g} /\ Verdict'[g] = Verdict[g]
  BY DEF SingleReturns, AskedOnce, TypeOK, Verdict, cnRace, osRace
<1>3. reply'.kind = k
  BY <1>1 DEF Reply
<1>4. k \in Rcodes \cup {"fail"} /\ (k = "ok" => Verdict[g].kind = "ok")
  BY <1>1, <1>2, ReturnedKinds DEF TypeOK
<1>5. {g} # Groups
  BY DEF Groups
<1> QED
  BY <1>2, <1>3, <1>4, <1>5

\* Both groups answer, or the client's context ends.
LEMMA DualAnswers ==
    ASSUME TypeOK, AskedOnce, ResultsKept, DualTimeout \/ DualDecides
    PROVE  /\ reply'.kind \in Rcodes \cup {"fail"} /\ asking' = Groups
           /\ reply'.kind = "ok" => \E g \in asking' : Verdict'[g].kind = "ok"
           /\ reply'.kind \in {"nxdomain", "servfail"} =>
                  \A g \in Groups : Verdict'[g].kind \in {"neg", "fail"}
           /\ reply'.kind = "fail" =>
                  ctxDone' \/ \A g \in Groups : Verdict'[g].kind = "fail"
           /\ reply'.kind = "ok" =>
                  /\ reply'.from = "overseas" /\ ip' = "cn" => Verdict'["cn"].kind # "ok"
                  /\ reply'.from = "cn" => ip' = "cn" \/ Verdict'["overseas"].kind # "ok"
<1>1. CASE DualTimeout
  <2>1. reply'.kind = "fail" /\ ctxDone' /\ asking' = Groups
    BY <1>1 DEF DualTimeout, Routed, Reply, AskedOnce
  <2> QED
    BY <2>1 DEF Rcodes
<1>2. CASE DualDecides
  <2>1. /\ asking' = Groups /\ ip' = ip /\ Verdict' = Verdict
        /\ \A g \in Groups : dual[g] # "none"
        /\ reply'.kind = (IF DualWinner = "none" THEN "fail" ELSE dual[DualWinner])
        /\ reply'.from = DualWinner
    BY <1>2 DEF DualDecides, Routed, Reply, AskedOnce, BothReceived, Verdict, cnRace, osRace
  <2>2. \A g \in Groups : /\ dual[g] = "ok" <=> Verdict[g].kind = "ok"
                          /\ dual[g] = "fail" <=> Verdict[g].kind = "fail"
                          /\ dual[g] \in {"nxdomain", "servfail"} <=> Verdict[g].kind = "neg"
    BY <2>1, ReceivedIsVerdict
  <2>3. \A g \in Groups : dual[g] \in {"ok", "nxdomain", "servfail", "fail"}
    BY <2>1 DEF TypeOK, Rcodes
  <2>4. Groups = {"cn", "overseas"} /\ Rcodes = {"ok", "nxdomain", "servfail"}
    BY DEF Groups, Rcodes
  <2> DEFINE cn == dual["cn"]
             os == dual["overseas"]
  <2>5. DualWinner = IF os = "ok"
                     THEN IF ip = "cn" /\ cn = "ok" THEN "cn" ELSE "overseas"
                     ELSE IF cn = "ok" THEN "cn"
                     ELSE IF os # "fail" THEN "overseas"
                     ELSE IF cn # "fail" THEN "cn" ELSE "none"
    BY <2>3, <2>4, WinnerFits DEF Response
  <2>6. /\ cn \in {"ok", "nxdomain", "servfail", "fail"}
        /\ os \in {"ok", "nxdomain", "servfail", "fail"}
    BY <2>3, <2>4
  <2>7. reply'.kind = IF DualWinner = "none" THEN "fail"
                      ELSE IF DualWinner = "cn" THEN cn ELSE os
    BY <2>1, <2>4, WinnerFits
  <2>8. /\ \A g \in Groups : g = "cn" \/ g = "overseas"
        /\ cn = "ok" <=> Verdict'["cn"].kind = "ok"
        /\ os = "ok" <=> Verdict'["overseas"].kind = "ok"
        /\ cn = "fail" <=> Verdict'["cn"].kind = "fail"
        /\ os = "fail" <=> Verdict'["overseas"].kind = "fail"
        /\ cn \in {"nxdomain", "servfail"} <=> Verdict'["cn"].kind = "neg"
        /\ os \in {"nxdomain", "servfail"} <=> Verdict'["overseas"].kind = "neg"
    BY <2>1, <2>2, <2>4
  <2> HIDE DEF cn, os
  <2>9. reply'.kind = "ok" =>
          /\ cn = "ok" \/ os = "ok"
          /\ DualWinner = "overseas" /\ ip = "cn" => cn # "ok"
          /\ DualWinner = "cn" => ip = "cn" \/ os # "ok"
    BY <2>5, <2>6, <2>7
  <2>10. /\ reply'.kind \in Rcodes \cup {"fail"}
         /\ reply'.kind \in {"nxdomain", "servfail"} => cn # "ok" /\ os # "ok"
         /\ reply'.kind = "fail" => cn = "fail" /\ os = "fail"
    BY <2>4, <2>5, <2>6, <2>7
  <2>11. /\ cn # "ok" => Verdict'["cn"].kind \in {"neg", "fail"}
         /\ os # "ok" => Verdict'["overseas"].kind \in {"neg", "fail"}
    BY <2>6, <2>8
  <2> QED
    BY <2>1, <2>4, <2>8, <2>9, <2>10, <2>11
<1> QED
  BY <1>1, <1>2
\* Nothing else does.
LEMMA RoutedByEnds ==
    ASSUME [Next]_vars, pc' = "routed"
    PROVE  Ends \/ UNCHANGED vars
  BY DEF Ends, Next, RouteStep, AskOne, AskBoth, DualReceives, StartCheck, FinishCheck,
         Finish, CNRaceStep, OSRaceStep, CtxEnds, Listening, call

\* What holds of a reply that has just been made holds until Route goes on.
LEMMA DualPropertiesStep ==
    ASSUME TypeOK, AskedOnce, ResultsKept, NeverWorseThanEither, AddressDecides,
           [Next]_vars
    PROVE  NeverWorseThanEither' /\ AddressDecides'
<1>1. CASE UNCHANGED vars
  BY <1>1 DEF vars, call, cnRace, osRace, Verdict, NeverWorseThanEither, AddressDecides
<1>2. CASE pc' # "routed" \/ asking' # Groups
  BY <1>2 DEF NeverWorseThanEither, AddressDecides
<1>3. CASE DualTimeout \/ DualDecides
  BY <1>3, DualAnswers DEF NeverWorseThanEither, AddressDecides
<1>4. CASE AnswerFromHosts \/ SingleReturns
  BY <1>2, <1>4, HostsAnswer, SingleAnswers DEF Groups
<1> QED
  BY <1>1, <1>2, <1>3, <1>4, RoutedByEnds DEF Ends

\* Every step preserves what the check knows, and what Route returns after it.
LEMMA CheckStep ==
    ASSUME TypeOK, AskedOnce, ResultsKept, CheckFits, NoDataOnlyForExistingOrigin,
           [Next]_vars
    PROVE  CheckFits' /\ NoDataOnlyForExistingOrigin'
<1>1. CASE UNCHANGED vars
  BY <1>1 DEF vars, call, tables, cnRace, osRace, Verdict, CheckFits,
              NoDataOnlyForExistingOrigin
<1>2. CASE Ends
  <2>1. /\ pc' = "routed" /\ UNCHANGED <<tables, checking, first>>
    BY <1>2 DEF Ends, AnswerFromHosts, SingleReturns, DualTimeout, DualDecides, Routed
  <2>2. /\ reply'.kind \in Rcodes \cup {"fail"}
        /\ checking /\ reply'.kind = "ok" =>
               hosts[0] = "v4" \/ \E g \in asking' : Verdict'[g].kind = "ok"
    BY <1>2, HostsAnswer, SingleAnswers, DualAnswers DEF Ends, Rcodes
  <2>3. reply'.kind # "nodata"
    BY <2>2 DEF Rcodes
  <2> QED
    BY <2>1, <2>2, <2>3 DEF CheckFits, NoDataOnlyForExistingOrigin, tables
<1>3. CASE /\ UNCHANGED <<tables, checking, first, reply>>
           /\ pc \notin {"routed", "done"} /\ pc' \notin {"routed", "done"}
  BY <1>3 DEF CheckFits, NoDataOnlyForExistingOrigin, tables
<1>4. AskOne \/ AskBoth \/ (\E g \in Groups : DualReceives(g))
      \/ CNRaceStep \/ OSRaceStep \/ CtxEnds
      => /\ UNCHANGED <<tables, checking, first, reply>>
         /\ pc \notin {"routed", "done"} /\ pc' \notin {"routed", "done"}
  BY DEF AskOne, AskBoth, Ask, DualReceives, CNRaceStep, OSRaceStep, CtxEnds, Listening, call
<1>5. CASE StartCheck
  <2>1. /\ reply.kind = "nxdomain" /\ qtype = "HTTPS" /\ Candidates(name) # {name}
        /\ pc' = "route" /\ first' = reply /\ reply' = reply /\ UNCHANGED tables
    BY <1>5 DEF StartCheck, NeedsCheck
  <2>2. name > 0
    <3>1. name \in Nat
      BY RouterAssumption DEF TypeOK, Names
    <3>2. name = 0 => Candidates(name) = {name}
      BY DEF Candidates
    <3> QED
      BY <2>1, <3>1, <3>2
  <2> QED
    BY <2>1, <2>2 DEF CheckFits, NoDataOnlyForExistingOrigin, tables
<1>6. CASE FinishCheck
  <2>1. /\ pc = "routed" /\ checking /\ pc' = "done"
        /\ reply' = IF reply.kind = "ok" THEN [first EXCEPT !.kind = "nodata"] ELSE first
        /\ UNCHANGED <<tables, checking, asking, first>> /\ Verdict' = Verdict
    BY <1>6 DEF FinishCheck, Verdict, cnRace, osRace
  <2>2. /\ qtype = "HTTPS" /\ name > 0 /\ first.kind = "nxdomain"
        /\ reply.kind = "ok" =>
               hosts[0] = "v4" \/ \E g \in asking : Verdict[g].kind = "ok"
    BY <2>1 DEF CheckFits
  <2>3. first \in Replies
    BY <2>2 DEF TypeOK, NoReply
  <2>4. [first EXCEPT !.kind = "nodata"].kind = "nodata"
    BY <2>3 DEF Replies
  <2>5. /\ reply'.kind = "nodata" => reply.kind = "ok"
        /\ reply'.kind = "nxdomain" => reply' = first
        /\ reply'.kind # "ok"
    BY <2>1, <2>2, <2>4
  <2> QED
    BY <2>1, <2>2, <2>5 DEF CheckFits, NoDataOnlyForExistingOrigin, tables
<1>7. CASE Finish
  <2>1. /\ pc = "routed" /\ ~ checking /\ pc' = "done" /\ ~ NeedsCheck
        /\ UNCHANGED <<tables, checking, first, reply>>
    BY <1>7 DEF Finish
  <2>2. ~ (reply.kind = "nxdomain" /\ qtype = "HTTPS" /\ name > 0)
    <3>1. name \in Nat
      BY RouterAssumption DEF TypeOK, Names
    <3>2. name > 0 => 0 \in Candidates(name) /\ 0 # name
      BY <3>1 DEF Candidates
    <3> QED
      BY <2>1, <3>2 DEF NeedsCheck
  <2>3. reply.kind # "nodata"
    BY <2>1 DEF CheckFits
  <2> QED
    BY <2>1, <2>2, <2>3 DEF CheckFits, NoDataOnlyForExistingOrigin, tables
<1> QED
  BY <1>1, <1>2, <1>3, <1>4, <1>5, <1>6, <1>7 DEF Next, RouteStep, Ends

-----------------------------------------------------------------------------
(* The results.                                                            *)

\* RouterInv, with the three properties of the reply.
IInv == /\ RouterInv
        /\ NeverWorseThanEither /\ AddressDecides /\ NoDataOnlyForExistingOrigin

\* A request has asked nobody yet.
LEMMA InitInv == Init => IInv
<1> SUFFICES ASSUME Init PROVE IInv
  OBVIOUS
<1>1. CN!RaceTypeOK
  BY DEF Init, CN!RaceInit, CN!RaceTypeOK, CN!Verdicts
<1>2. OS!RaceTypeOK
  BY DEF Init, OS!RaceInit, OS!RaceTypeOK, OS!Verdicts
<1>3. TypeOK
  BY <1>1, <1>2 DEF Init, TypeOK
<1>4. PinnedNamesStay
  BY DEF Init, PinnedNamesStay
<1>5. AskedOnce /\ ResultsKept /\ CheckFits
  BY DEF Init, AskedOnce, ResultsKept, CheckFits, NoReply
<1>6. NeverWorseThanEither /\ AddressDecides /\ NoDataOnlyForExistingOrigin
  BY DEF Init, NeverWorseThanEither, AddressDecides, NoDataOnlyForExistingOrigin, NoReply
<1> QED
  BY <1>3, <1>4, <1>5, <1>6 DEF IInv, RouterInv

LEMMA IInvHolds == Spec => []IInv
<1>1. ASSUME IInv, [Next]_vars PROVE IInv'
  <2>1. TypeOK' /\ PinnedNamesStay'
    BY <1>1, TypeStep, PinnedStep DEF IInv, RouterInv
  <2>2. AskedOnce' /\ ResultsKept'
    BY <1>1, AskedOnceStep, ResultsKeptStep DEF IInv, RouterInv
  <2>3. NeverWorseThanEither' /\ AddressDecides'
    BY <1>1, DualPropertiesStep DEF IInv, RouterInv
  <2>4. CheckFits' /\ NoDataOnlyForExistingOrigin'
    BY <1>1, CheckStep DEF IInv, RouterInv
  <2> QED
    BY <2>1, <2>2, <2>3, <2>4 DEF IInv, RouterInv
<1> QED
  BY <1>1, InitInv, PTL DEF Spec

\* The invariant of a call of Route; a part of it is PinnedNamesStay, that no
\* name is sent to a group the tables forbid (router.go:287-344, 393-425).
THEOREM RouterInvariant == Spec => []RouterInv
<1>1. IInv => RouterInv
  BY DEF IInv
<1> QED
  BY <1>1, IInvHolds, PTL

\* The variables have their types in every reachable state.
THEOREM TypeCorrect == Spec => []TypeOK
<1>1. IInv => TypeOK
  BY DEF IInv, RouterInv
<1> QED
  BY <1>1, IInvHolds, PTL

\* Whatever rule.txt, the regular expressions and GeoSite say of a name and of
\* its candidates, it and its origin stay where they pin it
\* (router.go:287-344, 393-425).
THEOREM PinnedNamesStayHolds == Spec => []PinnedNamesStay
<1>1. IInv => PinnedNamesStay
  BY DEF IInv, RouterInv
<1> QED
  BY <1>1, IInvHolds, PTL

\* The reply to two races is as good as the better one (router.go:467-516).
THEOREM NeverWorseThanEitherHolds == Spec => []NeverWorseThanEither
<1>1. IInv => NeverWorseThanEither
  BY DEF IInv
<1> QED
  BY <1>1, IInvHolds, PTL

\* The address of the overseas answer decides between them (router.go:479-496).
THEOREM AddressDecidesHolds == Spec => []AddressDecides
<1>1. IInv => AddressDecides
  BY DEF IInv
<1> QED
  BY <1>1, IInvHolds, PTL

\* NODATA is returned for a checked NXDOMAIN only, and no NXDOMAIN of a service
\* name goes unchecked (router.go:263-281).
THEOREM NoDataOnlyForExistingOriginHolds == Spec => []NoDataOnlyForExistingOrigin
<1>1. IInv => NoDataOnlyForExistingOrigin
  BY DEF IInv
<1> QED
  BY <1>1, IInvHolds, PTL
=============================================================================
