---------------------------- MODULE ServersProofs ----------------------------
(***************************************************************************)
(* Proofs about Servers, for any number of restarts and of requests and    *)
(* any configurations.  Core, the invariant without PortsReleased, is      *)
(* inductive; PortsReleased and HandlersBeforeRouter follow from it.       *)
(***************************************************************************)
EXTENDS Servers, TLAPS

Core == /\ TypeOK /\ Numbered /\ ACMERuns /\ PortServed
        /\ HandlersServed /\ H2Told /\ StopDone

-----------------------------------------------------------------------------
(* The order of stopInternal.                                              *)

\* The stages at which the Stop of each listener is not over.
LEMMA PendingIs ==
    /\ Pending["acme"] = {"running", "acme"}
    /\ Pending["udp"] = {"running", "acme", "udp"}
    /\ Pending["tcp"] = {"running", "acme", "udp", "tcp"}
    /\ Pending["dot"] = {"running", "acme", "udp", "tcp", "dot"}
    /\ Pending["doq"] = {"running", "acme", "udp", "tcp", "dot", "doq"}
    /\ Pending["h2"] = Stages \ {"router", "stopped"}
    /\ Pending["h3"] = Stages \ {"router", "stopped"}
<1>1. Pending["acme"] = {"running", "acme"}
    BY Zenon DEF Pending, Listeners
<1>2. Pending["udp"] = {"running", "acme", "udp"}
    BY Zenon DEF Pending, Listeners
<1>3. Pending["tcp"] = {"running", "acme", "udp", "tcp"}
    BY Zenon DEF Pending, Listeners
<1>4. Pending["dot"] = {"running", "acme", "udp", "tcp", "dot"}
    BY Zenon DEF Pending, Listeners
<1>5. Pending["doq"] = {"running", "acme", "udp", "tcp", "dot", "doq"}
    BY Zenon DEF Pending, Listeners
<1>6. Pending["h2"] = Stages \ {"router", "stopped"}
    BY Zenon DEF Pending, Listeners
<1>7. Pending["h3"] = Stages \ {"router", "stopped"}
    BY Zenon DEF Pending, Listeners
<1> QED
    BY <1>1, <1>2, <1>3, <1>4, <1>5, <1>6, <1>7

\* The stage after that of each listener.
LEMMA AfterIs ==
    /\ After("acme") = "udp" /\ After("udp") = "tcp" /\ After("tcp") = "dot"
    /\ After("dot") = "doq" /\ After("doq") = "h2"
    BY Zenon DEF After

\* What a step of stopInternal completes.
LEMMA StageStep ==
    ASSUME gen' = gen, gen \in Nat, NEW g \in Gens, NEW l \in Listeners, StopOver(g, l)'
    PROVE  /\ stage = "running" /\ stage' = "acme" => StopOver(g, l)
           /\ \A m \in {"acme", "udp", "tcp", "dot"} :
                 stage = m /\ stage' = After(m) => StopOver(g, l) \/ (g = gen /\ l = m)
           /\ stage = "doq" /\ stage' \in {"doqWait", "h2"} =>
                 StopOver(g, l) \/ (g = gen /\ l = "doq")
           /\ stage \in {"doqWait", "h2", "h2Wait", "h3"}
              /\ stage' \in {"h2", "h2Wait", "h3", "dohWait"} => StopOver(g, l)
           /\ stage \in {"h2", "dohWait"} /\ stage' = "router" =>
                 StopOver(g, l) \/ (g = gen /\ l \in {"h2", "h3"})
           /\ stage = "router" /\ stage' = "stopped" => StopOver(g, l)
           /\ stage' = stage => StopOver(g, l)
<1>1. g \in Nat
    BY ServersAssumption DEF Gens
<1>2. CASE l \in {"acme", "udp"}
    BY <1>1, <1>2, PendingIs, AfterIs DEF StopOver
<1>3. CASE l = "tcp"
    BY <1>1, <1>3, PendingIs, AfterIs DEF StopOver
<1>4. CASE l = "dot"
    BY <1>1, <1>4, PendingIs, AfterIs DEF StopOver
<1>5. CASE l = "doq"
    BY <1>1, <1>5, PendingIs, AfterIs DEF StopOver
<1>6. CASE l \in {"h2", "h3"}
    BY <1>1, <1>6, PendingIs, AfterIs DEF StopOver, Stages
<1> QED
    BY <1>2, <1>3, <1>4, <1>5, <1>6 DEF Listeners

\* A new generation finds that the Stops of all others are over.
LEMMA StartStep ==
    ASSUME gen' = gen + 1, gen \in Nat, stage = "stopped", stage' = "running",
           NEW g \in Gens, NEW l \in Listeners, StopOver(g, l)'
    PROVE  g # gen' /\ StopOver(g, l)
<1>1. g \in Nat
    BY ServersAssumption DEF Gens
<1>2. "stopped" \notin Pending[l] /\ "running" \in Pending[l]
    BY PendingIs DEF Listeners, Stages
<1> QED
    BY <1>1, <1>2 DEF StopOver

-----------------------------------------------------------------------------
(* Type correctness, and the generations.                                  *)

\* Sorts of steps: those of the listeners' goroutines and of Stop.
GoroutineStep == \E g \in Gens, l \in Listeners : ListenerStep(g, l)

\* A goroutine that goes on belongs to a generation that was started.
LEMMA StartedGens ==
    ASSUME TypeOK, Numbered, NEW g \in Gens, NEW l \in Listeners, srv[g][l] # "off"
    PROVE  g \in 1 .. gen
    BY ServersAssumption DEF TypeOK, Numbered, Gens

\* What a goroutine does.
LEMMA ListenerEffect ==
    ASSUME TypeOK, Numbered, NEW g \in Gens, NEW l \in Listeners, ListenerStep(g, l)
    PROVE  /\ UNCHANGED <<gen, stage, late, conns, acme, req, cut, shut>>
           /\ \E s \in GoroutineStates : srv' = [srv EXCEPT ![g][l] = s]
           /\ \E h \in 0 .. gen : port' = [port EXCEPT ![l] = h]
           /\ crashed' \in BOOLEAN
<1> USE DEF Unchanged_Goroutine, Becomes
<1>0. gen \in Nat /\ 0 \in 0 .. gen /\ g \in 1 .. gen
    BY StartedGens DEF TypeOK, ListenerStep, ServeMiekg, BindHTTP, ServeHTTPListener,
                       GoroutineEnds, BindACME
<1>1. /\ \A s \in {"serving", "failed", "closed", "bound"} : s \in GoroutineStates
      /\ port = [port EXCEPT ![l] = port[l]] /\ port[l] \in 0 .. gen
      /\ port \in [Listeners -> 0 .. gen] /\ acme \in 0 .. gen /\ crashed \in BOOLEAN
    BY DEF TypeOK, GoroutineStates
<1>2. CASE ServeMiekg(g, l)
    BY <1>0, <1>1, <1>2 DEF ServeMiekg
<1>3. CASE BindHTTP(g, l)
    BY <1>0, <1>1, <1>3 DEF BindHTTP
<1>4. CASE ServeHTTPListener(g, l)
    BY <1>0, <1>1, <1>4 DEF ServeHTTPListener
<1>5. CASE GoroutineEnds(g, l)
    BY <1>0, <1>1, <1>5 DEF GoroutineEnds, Frees
<1>6. CASE l = "acme" /\ BindACME(g)
    BY <1>0, <1>1, <1>6 DEF BindACME
<1> QED
    BY <1>2, <1>3, <1>4, <1>5, <1>6 DEF ListenerStep

\* A goroutine that changes its state, a port that is given back.
LEMMA BecomesType ==
    ASSUME srv \in [Gens -> [Listeners -> GoroutineStates]],
           NEW g \in Gens, NEW l \in Listeners, NEW s \in GoroutineStates, Becomes(g, l, s)
    PROVE  srv' \in [Gens -> [Listeners -> GoroutineStates]]
    BY DEF Becomes

LEMMA FreesType ==
    ASSUME gen \in Nat, port \in [Listeners -> 0 .. gen],
           NEW g, NEW l \in Listeners, Frees(g, l)
    PROVE  port' \in [Listeners -> 0 .. gen]
<1>1. 0 \in 0 .. gen
    OBVIOUS
<1> QED
    BY <1>1 DEF Frees

\* stopInternal preserves the types of what it changes.
LEMMA StopTypes ==
    ASSUME TypeOK, Numbered, stage # "stopped", StopStep
    PROVE  /\ stage' \in Stages /\ late' \in BOOLEAN
           /\ srv' \in [Gens -> [Listeners -> GoroutineStates]]
           /\ shut' \subseteq Gens \X HTTPServers
           /\ port' \in [Listeners -> 0 .. gen] /\ acme' \in 0 .. gen
           /\ cut' \subseteq Gens \X Listeners
           /\ UNCHANGED <<gen, conns, req, crashed>>
<1> USE DEF TypeOK, Unchanged_Stop
<1>1. gen \in Nat /\ gen \in Gens /\ 0 \in 0 .. gen /\ "closing" \in GoroutineStates
      /\ "closed" \in GoroutineStates /\ MiekgServers \subseteq Listeners
      /\ Gens \subseteq Nat /\ HTTPServers \subseteq Listeners
    BY ServersAssumption DEF Numbered, GoroutineStates, MiekgServers, Listeners, Gens,
                             HTTPServers
<1>2. After("acme") \in Stages /\ After("doq") \in Stages
      /\ \A l \in MiekgServers : After(l) \in Stages
    BY AfterIs DEF MiekgServers, Stages
<1>3. CASE StopACME
  <2>1. srv' \in [Gens -> [Listeners -> GoroutineStates]]
    BY <1>1, <1>3 DEF StopACME
  <2>2. port' \in [Listeners -> 0 .. gen]
    BY <1>1, <1>3 DEF StopACME
  <2>3. shut' \subseteq Gens \X HTTPServers /\ acme' \in 0 .. gen
    <3>1. acme # 0 => acme \in Gens
      BY <1>1, ServersAssumption DEF Gens
    <3> QED
      BY <1>1, <1>3, <3>1 DEF StopACME, HTTPServers
  <2>4. cut' \subseteq Gens \X Listeners
    BY <1>1, <1>3 DEF StopACME, Listeners
  <2> QED
    BY <1>2, <1>3, <2>1, <2>2, <2>3, <2>4 DEF StopACME
<1>4. ASSUME NEW l \in MiekgServers, Shutdown(l)
      PROVE  /\ srv' \in [Gens -> [Listeners -> GoroutineStates]]
             /\ port' \in [Listeners -> 0 .. gen]
             /\ cut' \subseteq Gens \X Listeners
             /\ stage' \in Stages
             /\ UNCHANGED <<gen, conns, req, crashed, late, shut, acme>>
  <2>0. l \in Listeners
    BY <1>1
  <2>1. CASE srv[gen][l] = "serving"
    BY <1>1, <1>4, <2>0, <2>1, BecomesType, FreesType DEF Shutdown
  <2>2. CASE srv[gen][l] # "serving"
    BY <1>1, <1>2, <1>4, <2>0, <2>2 DEF Shutdown
  <2> QED
    BY <2>1, <2>2
<1>5. ASSUME NEW l \in MiekgServers, HandlersDone(l)
      PROVE  /\ srv' \in [Gens -> [Listeners -> GoroutineStates]]
             /\ stage' \in Stages
             /\ UNCHANGED <<gen, conns, req, crashed, late, shut, port, acme, cut>>
  <2>0. l \in Listeners
    BY <1>1
  <2> QED
    BY <1>1, <1>2, <1>5, <2>0, BecomesType DEF HandlersDone
<1>6. CASE StopDoQ
  <2>0. "doq" \in Listeners
    BY DEF Listeners
  <2>1. CASE srv[gen]["doq"] = "serving"
    BY <1>1, <1>6, <2>0, <2>1, BecomesType, FreesType DEF StopDoQ, Stages
  <2>2. CASE srv[gen]["doq"] # "serving"
    BY <1>1, <1>2, <1>6, <2>2 DEF StopDoQ
  <2> QED
    BY <2>1, <2>2
<1>7. CASE DoQStopped \/ CloseRouter
    BY <1>1, <1>2, <1>7 DEF DoQStopped, CloseRouter, Stages
<1>8. CASE StopH2
  <2>0. "h2" \in Listeners /\ "h2" \in HTTPServers
    BY DEF Listeners, HTTPServers
  <2>1. CASE srv[gen]["h2"] = "serving"
    BY <1>1, <1>8, <2>0, <2>1, BecomesType, FreesType DEF StopH2, Stages
  <2>2. CASE srv[gen]["h2"] # "serving"
    BY <1>1, <1>8, <2>0, <2>2 DEF StopH2, Stages
  <2> QED
    BY <2>1, <2>2
<1>9. CASE H2Stopped \/ DoHStopped
  <2>1. "h2" \in Listeners /\ "h3" \in Listeners
    BY DEF Listeners
  <2>2. cut' \subseteq Gens \X Listeners
    BY <1>1, <1>9, <2>1 DEF H2Stopped, DoHStopped
  <2> QED
    BY <1>1, <1>9, <2>2 DEF H2Stopped, DoHStopped, Stages
<1>10. CASE StopH3
  <2>0. "h3" \in Listeners /\ "h3" \in HTTPServers
    BY DEF Listeners, HTTPServers
  <2>1. srv' \in [Gens -> [Listeners -> GoroutineStates]]
    BY <1>1, <1>10, <2>0, BecomesType DEF StopH3
  <2> QED
    BY <1>1, <1>10, <2>0, <2>1 DEF StopH3, Stages
<1>11. \/ StopACME \/ StopDoQ \/ DoQStopped \/ StopH2 \/ H2Stopped \/ StopH3
       \/ DoHStopped \/ CloseRouter
       \/ \E l \in MiekgServers : Shutdown(l) \/ HandlersDone(l)
    BY DEF StopStep
<1> QED
    BY <1>3, <1>4, <1>5, <1>6, <1>7, <1>8, <1>9, <1>10, <1>11

\* Every step preserves the types.
LEMMA TypeStep ==
    ASSUME TypeOK, Numbered, [Next]_vars
    PROVE  TypeOK'
<1> USE DEF TypeOK
<1>1. ASSUME NEW on \in Configs, StartServers(on) PROVE TypeOK'
  <2> DEFINE state(l) == IF l \notin on THEN "off"
                         ELSE IF l # "doq" THEN "starting"
                         ELSE IF DoQListens(on) THEN "serving" ELSE "failed"
             fresh == [l \in Listeners |-> state(l)]
  <2>1. gen \in Nat /\ gen + 1 \in Gens /\ MaxStarts \in Nat /\ gen + 1 \in 0 .. MaxStarts
    BY <1>1, ServersAssumption DEF StartServers, Gens
  <2>2. fresh \in [Listeners -> GoroutineStates]
    BY DEF GoroutineStates
  <2>3. srv' = [srv EXCEPT ![gen + 1] = fresh]
    BY <1>1 DEF StartServers
  <2>4. srv' \in [Gens -> [Listeners -> GoroutineStates]]
    BY <2>1, <2>2, <2>3
  <2>5. gen' = gen + 1 /\ 0 .. gen \subseteq 0 .. gen' /\ gen + 1 \in 0 .. gen'
        /\ 0 \in 0 .. gen' /\ 1 .. gen \subseteq 1 .. gen'
    BY <1>1, <2>1 DEF StartServers
  <2>6. port' \in [Listeners -> 0 .. gen'] /\ acme' \in 0 .. gen'
    BY <1>1, <2>5 DEF StartServers
  <2> QED
    BY <1>1, <2>1, <2>4, <2>5, <2>6 DEF StartServers, Stages
<1>2. CASE BeginStop \/ FiveSeconds
    BY <1>2 DEF BeginStop, FiveSeconds, Stages, Unchanged_Stop
<1>3. CASE StopStep
  <2>1. stage # "stopped"
    BY <1>3 DEF StopStep, StopACME, StopDoQ, DoQStopped, StopH2, H2Stopped, StopH3,
                DoHStopped, CloseRouter, Shutdown, HandlersDone, MiekgServers
  <2> QED
    BY <1>3, <2>1, StopTypes
<1>4. ASSUME NEW g \in Gens, ConnOpens(g) PROVE TypeOK'
  <2>1. g \in 1 .. gen
    BY <1>4, StartedGens DEF ConnOpens, Listeners
  <2> QED
    BY <1>4, <2>1 DEF ConnOpens
<1>5. ASSUME NEW g \in Gens, ConnEnds(g) PROVE TypeOK'
  <2>1. port' \in [Listeners -> 0 .. gen]
    BY <1>5, FreesType DEF ConnEnds, Listeners
  <2> QED
    BY <1>5, <2>1 DEF ConnEnds
<1>6. ASSUME NEW g \in Gens, NEW l \in Listeners, ListenerStep(g, l) PROVE TypeOK'
  <2>1. /\ UNCHANGED <<gen, stage, late, conns, acme, req, cut, shut>>
        /\ crashed' \in BOOLEAN
    BY <1>6, ListenerEffect
  <2>2. srv' \in [Gens -> [Listeners -> GoroutineStates]]
    BY <1>6, ListenerEffect
  <2>3. port' \in [Listeners -> 0 .. gen]
    BY <1>6, ListenerEffect
  <2> QED
    BY <2>1, <2>2, <2>3
<1>7. ASSUME NEW r \in Requests, Answer(r) PROVE TypeOK'
    BY <1>7 DEF Answer, Request, Idle
<1>8. ASSUME NEW r \in Requests, NEW g \in Gens, NEW l \in Listeners, Arrive(r, g, l)
      PROVE  TypeOK'
    BY <1>8 DEF Arrive, Request
<1>9. CASE UNCHANGED vars
    BY <1>9 DEF vars
<1> QED
    BY <1>1, <1>2, <1>3, <1>4, <1>5, <1>6, <1>7, <1>8, <1>9 DEF Next

\* What a step that is no start does to a goroutine.
LEMMA GoroutineEffect ==
    ASSUME TypeOK, Numbered, [Next]_vars, ~ \E on \in Configs : StartServers(on),
           NEW g \in Gens, NEW l \in Listeners
    PROVE  /\ gen' = gen /\ (stage = "stopped" => stage' = "stopped")
           /\ srv'[g][l] = "off" <=> srv[g][l] = "off"
           /\ srv'[g][l] = "starting" => srv[g][l] = "starting"
           /\ srv'[g][l] = "bound" => srv[g][l] = "bound" \/ l \in HTTPServers
<1> USE DEF TypeOK, Becomes
<1>1. CASE BeginStop \/ FiveSeconds \/ UNCHANGED vars
    BY <1>1 DEF BeginStop, FiveSeconds, Unchanged_Stop, vars
<1>2. ASSUME NEW h \in Gens, ConnOpens(h) \/ ConnEnds(h)
      PROVE  UNCHANGED <<gen, stage, srv>>
    BY <1>2 DEF ConnOpens, ConnEnds
<1>3. ASSUME NEW r \in Requests,
             Answer(r) \/ \E h \in Gens, m \in Listeners : Arrive(r, h, m)
      PROVE  UNCHANGED <<gen, stage, srv>>
    BY <1>3 DEF Answer, Arrive
<1>4. ASSUME NEW h \in Gens, NEW m \in Listeners, ListenerStep(h, m)
      PROVE  /\ gen' = gen /\ stage' = stage
             /\ srv'[g][l] = "off" <=> srv[g][l] = "off"
             /\ srv'[g][l] = "starting" => srv[g][l] = "starting"
             /\ srv'[g][l] = "bound" => srv[g][l] = "bound" \/ l \in HTTPServers
  <2>1. CASE ServeMiekg(h, m)
    BY <2>1 DEF ServeMiekg, Unchanged_Goroutine
  <2>2. CASE BindHTTP(h, m)
    BY <2>2 DEF BindHTTP, Unchanged_Goroutine, HTTPServers
  <2>3. CASE ServeHTTPListener(h, m)
    BY <2>3 DEF ServeHTTPListener, Unchanged_Goroutine
  <2>4. CASE GoroutineEnds(h, m)
    BY <2>4 DEF GoroutineEnds, Unchanged_Goroutine
  <2>5. CASE m = "acme" /\ BindACME(h)
    BY <2>5 DEF BindACME, Unchanged_Goroutine, HTTPServers
  <2> QED
    BY <1>4, <2>1, <2>2, <2>3, <2>4, <2>5 DEF ListenerStep
<1>5. CASE StopStep
  <2>0. stage # "stopped" /\ gen \in Gens
    BY <1>5 DEF Numbered, StopStep, StopACME, StopDoQ, DoQStopped, StopH2, H2Stopped,
                StopH3, DoHStopped, CloseRouter, Shutdown, HandlersDone, MiekgServers
  <2>1. CASE StopACME
    BY <2>0, <2>1 DEF StopACME, Unchanged_Stop
  <2>2. ASSUME NEW m \in MiekgServers, Shutdown(m) \/ HandlersDone(m)
        PROVE  /\ gen' = gen
               /\ srv'[g][l] = "off" <=> srv[g][l] = "off"
               /\ srv'[g][l] = "starting" => srv[g][l] = "starting"
               /\ srv'[g][l] = "bound" => srv[g][l] = "bound" \/ l \in HTTPServers
    BY <2>0, <2>2 DEF Shutdown, HandlersDone, Unchanged_Stop
  <2>3. CASE StopDoQ \/ DoQStopped
    BY <2>0, <2>3 DEF StopDoQ, DoQStopped, Unchanged_Stop
  <2>4. CASE StopH2 \/ H2Stopped
    BY <2>0, <2>4 DEF StopH2, H2Stopped, Unchanged_Stop
  <2>5. CASE StopH3 \/ DoHStopped \/ CloseRouter
    BY <2>0, <2>5 DEF StopH3, DoHStopped, CloseRouter, Unchanged_Stop
  <2> QED
    BY <1>5, <2>0, <2>1, <2>2, <2>3, <2>4, <2>5 DEF StopStep
<1> QED
    BY <1>1, <1>2, <1>3, <1>4, <1>5 DEF Next

\* The state of the goroutines of a new generation.
LEMMA StartEffect ==
    ASSUME TypeOK, NEW on \in Configs, StartServers(on)
    PROVE  /\ gen \in Nat /\ gen' = gen + 1 /\ gen' \in Gens
           /\ stage = "stopped" /\ stage' = "running"
           /\ UNCHANGED <<late, shut, conns, req, cut, crashed>>
           /\ \A g \in Gens, l \in Listeners : g # gen' => srv'[g][l] = srv[g][l]
           /\ \A l \in Listeners : /\ srv'[gen'][l] = "off" <=> l \notin on
                                   /\ srv'[gen'][l] \in {"off", "starting", "serving", "failed"}
           /\ \A l \in Listeners : port'[l] # port[l] =>
                 l = "doq" /\ port'[l] = gen' /\ srv'[gen'][l] = "serving"
<1> DEFINE state(l) == IF l \notin on THEN "off"
                       ELSE IF l # "doq" THEN "starting"
                       ELSE IF DoQListens(on) THEN "serving" ELSE "failed"
           fresh == [l \in Listeners |-> state(l)]
<1>1. gen \in Nat /\ gen' = gen + 1 /\ gen' \in Gens
    BY ServersAssumption DEF TypeOK, StartServers, Gens
<1>2. srv' = [srv EXCEPT ![gen + 1] = fresh]
    BY DEF StartServers
<1>3. /\ \A g \in Gens, l \in Listeners : g # gen' => srv'[g][l] = srv[g][l]
      /\ srv'[gen'] = fresh
    BY <1>1, <1>2 DEF TypeOK
<1>4. \A l \in Listeners : /\ srv'[gen'][l] = "off" <=> l \notin on
                           /\ srv'[gen'][l] \in {"off", "starting", "serving", "failed"}
    BY <1>3
<1>5. \A l \in Listeners : port'[l] # port[l] =>
          l = "doq" /\ port'[l] = gen' /\ srv'[gen'][l] = "serving"
  <2>1. CASE DoQListens(on)
    <3>1. port' = [port EXCEPT !["doq"] = gen + 1] /\ "doq" \in on
      BY <2>1 DEF StartServers, DoQListens
    <3>2. fresh["doq"] = "serving"
      BY <2>1, <3>1 DEF Listeners
    <3> QED
      BY <1>1, <1>3, <3>1, <3>2 DEF TypeOK
  <2>2. CASE ~DoQListens(on)
    BY <2>2 DEF StartServers
  <2> QED
    BY <2>1, <2>2
<1> QED
    BY <1>1, <1>3, <1>4, <1>5 DEF StartServers

\* Every step preserves Numbered.
LEMMA NumberedStep ==
    ASSUME TypeOK, Numbered, [Next]_vars
    PROVE  Numbered'
<1>1. ASSUME NEW on \in Configs, StartServers(on) PROVE Numbered'
  <2>1. /\ gen \in Nat /\ gen' = gen + 1 /\ gen' \in Gens
        /\ \A g \in Gens, l \in Listeners : g # gen' => srv'[g][l] = srv[g][l]
        /\ \A l \in Listeners : srv'[gen'][l] = "off" <=> l \notin on
        /\ \A l \in Listeners : srv'[gen'][l] # "bound"
    BY <1>1, StartEffect
  <2>2. Gens \subseteq Nat /\ "h2" \in Listeners /\ "h3" \in Listeners
    BY ServersAssumption DEF Gens, Listeners
  <2>3. "h2" \in on <=> "h3" \in on
    BY ServersAssumption
  <2> QED
    BY <2>1, <2>2, <2>3 DEF Numbered
<1>2. CASE ~ \E on \in Configs : StartServers(on)
  <2>1. gen' = gen /\ (stage = "stopped" => stage' = "stopped")
    BY <1>2, GoroutineEffect, ServersAssumption DEF Gens, Listeners
  <2>2. \A g \in Gens, l \in Listeners :
            /\ srv'[g][l] = "off" <=> srv[g][l] = "off"
            /\ srv'[g][l] = "bound" => srv[g][l] = "bound" \/ l \in HTTPServers
    BY <1>2, GoroutineEffect
  <2> QED
    BY <2>1, <2>2 DEF Numbered, Listeners
<1> QED
    BY <1>1, <1>2

\* Every step preserves ACMERuns.
LEMMA ACMERunsStep ==
    ASSUME TypeOK, Numbered, ACMERuns, [Next]_vars
    PROVE  ACMERuns'
<1> USE DEF ACMERuns
<1>1. ASSUME NEW on \in Configs, StartServers(on) PROVE ACMERuns'
    BY <1>1 DEF StartServers
<1>2. CASE BeginStop \/ FiveSeconds \/ UNCHANGED vars
    BY <1>2 DEF BeginStop, FiveSeconds, Unchanged_Stop, vars
<1>3. ASSUME NEW h \in Gens, ConnOpens(h) \/ ConnEnds(h) PROVE ACMERuns'
    BY <1>3 DEF ConnOpens, ConnEnds
<1>4. ASSUME NEW r \in Requests,
             Answer(r) \/ \E h \in Gens, m \in Listeners : Arrive(r, h, m)
      PROVE  ACMERuns'
    BY <1>4 DEF Answer, Arrive
<1>5. ASSUME NEW h \in Gens, NEW m \in Listeners, ListenerStep(h, m) PROVE ACMERuns'
    BY <1>5, ListenerEffect
<1>6. CASE StopStep
    BY <1>6 DEF StopStep, StopACME, StopDoQ, DoQStopped, StopH2, H2Stopped, StopH3,
                DoHStopped, CloseRouter, Shutdown, HandlersDone, MiekgServers, Unchanged_Stop
<1> QED
    BY <1>1, <1>2, <1>3, <1>4, <1>5, <1>6 DEF Next

-----------------------------------------------------------------------------
(* Ports and handlers.                                                     *)

\* A goroutine's step changes the state of that goroutine alone, and of no
\* other port than its own.
LEMMA OthersStay ==
    ASSUME TypeOK, NEW h \in Gens, NEW m \in Listeners,
           NEW s, Becomes(h, m, s),
           port' = port \/ Frees(h, m) \/ port' = [port EXCEPT ![m] = 0]
           \/ port' = [port EXCEPT ![m] = h],
           NEW g \in Gens, NEW l \in Listeners
    PROVE  /\ <<g, l>> # <<h, m>> => srv'[g][l] = srv[g][l]
           /\ srv'[h][m] = s
           /\ Holds(g, l)' /\ <<g, l>> # <<h, m>> => Holds(g, l)
<1>1. g # 0 /\ g \in Nat
    BY ServersAssumption DEF Gens
<1>2. Holds(g, l)' /\ <<g, l>> # <<h, m>> => Holds(g, l)
    BY <1>1 DEF TypeOK, Frees, Holds
<1> QED
    BY <1>2 DEF TypeOK, Becomes

\* A port that is given back is not held anymore.
LEMMA FreesEffect ==
    ASSUME TypeOK, NEW h \in Gens, NEW m \in Listeners, Frees(h, m)
    PROVE  /\ ~Holds(h, m)'
           /\ \A g \in Gens, l \in Listeners : Holds(g, l)' => Holds(g, l)
    BY ServersAssumption DEF TypeOK, Frees, Holds, Gens

\* Every step preserves PortServed.
LEMMA PortServedStep ==
    ASSUME TypeOK, Numbered, ACMERuns, PortServed, [Next]_vars
    PROVE  PortServed'
<1> DEFINE Served(g, l) ==
               \/ srv[g][l] = "serving"
               \/ l \in {"h2", "h3"} /\ srv[g][l] = "bound"
               \/ l = "h3" /\ srv[g][l] = "closing"
               \/ l = "doq" /\ <<g, l>> \in cut
<1> SUFFICES ASSUME NEW g \in Gens, NEW l \in Listeners \ {"acme"}, Holds(g, l)'
             PROVE  Served(g, l)'
    BY DEF PortServed
<1>0. /\ Holds(g, l) => Served(g, l)
      /\ g \in Nat /\ g # 0 /\ gen \in Nat /\ l \in Listeners
      /\ stage # "stopped" => gen \in Gens
      /\ MiekgServers \subseteq Listeners
    BY ServersAssumption DEF PortServed, Gens, TypeOK, Numbered, MiekgServers, Listeners
<1>1. ASSUME NEW on \in Configs, StartServers(on) PROVE Served(g, l)'
  <2>1. /\ gen' = gen + 1 /\ cut' = cut
        /\ g # gen' => srv'[g][l] = srv[g][l]
        /\ port'[l] # port[l] => port'[l] = gen' /\ srv'[gen'][l] = "serving"
    BY <1>0, <1>1, StartEffect
  <2>2. port[l] \in 0 .. gen
    BY <1>0 DEF TypeOK
  <2> QED
    BY <1>0, <2>1, <2>2 DEF Holds
<1>2. ASSUME UNCHANGED srv, cut \subseteq cut', Holds(g, l) PROVE Served(g, l)'
    BY <1>0, <1>2
<1>3. CASE BeginStop \/ FiveSeconds \/ UNCHANGED vars
    BY <1>2, <1>3 DEF BeginStop, FiveSeconds, Unchanged_Stop, vars, Holds
<1>4. ASSUME NEW h \in Gens, ConnOpens(h) \/ ConnEnds(h) PROVE Served(g, l)'
  <2>1. Holds(g, l)
    BY <1>4, FreesEffect, <1>0 DEF ConnOpens, ConnEnds, Holds, Listeners
  <2> QED
    BY <1>2, <1>4, <2>1 DEF ConnOpens, ConnEnds
<1>5. ASSUME NEW r \in Requests,
             Answer(r) \/ \E h \in Gens, m \in Listeners : Arrive(r, h, m)
      PROVE  Served(g, l)'
    BY <1>2, <1>5 DEF Answer, Arrive, Holds
<1>6. ASSUME NEW h \in Gens, NEW m \in Listeners, ListenerStep(h, m) PROVE Served(g, l)'
  <2>0. cut' = cut
    BY <1>6, ListenerEffect
  <2>1. CASE ServeMiekg(h, m)
    BY <1>0, <2>0, <2>1, OthersStay DEF ServeMiekg, Holds, TypeOK, MiekgServers
  <2>2. CASE BindHTTP(h, m)
    BY <1>0, <2>0, <2>2, OthersStay DEF BindHTTP, Holds, TypeOK
  <2>3. CASE ServeHTTPListener(h, m)
    <3>1. CASE m = "acme"
      BY <1>0, <2>0, <2>3, <3>1 DEF ServeHTTPListener, Holds, TypeOK, Becomes
    <3>2. CASE m # "acme"
      BY <1>0, <2>0, <2>3, <3>2, OthersStay DEF ServeHTTPListener, Holds, TypeOK
    <3> QED
      BY <3>1, <3>2
  <2>4. CASE GoroutineEnds(h, m)
    BY <1>0, <2>0, <2>4, OthersStay, FreesEffect DEF GoroutineEnds, Holds, MiekgServers
  <2>5. CASE m = "acme" /\ BindACME(h)
    BY <1>0, <2>0, <2>5 DEF BindACME, Holds, TypeOK, Becomes
  <2> QED
    BY <1>6, <2>1, <2>2, <2>3, <2>4, <2>5 DEF ListenerStep
<1>7. CASE StopStep
  <2>0. stage # "stopped" /\ gen \in Gens
    BY <1>0, <1>7 DEF Numbered, StopStep, StopACME, StopDoQ, DoQStopped, StopH2, H2Stopped,
                StopH3, DoHStopped, CloseRouter, Shutdown, HandlersDone, MiekgServers
  <2>1. CASE StopACME
    <3>1. srv'[g][l] = srv[g][l] /\ Holds(g, l) /\ cut \subseteq cut'
      BY <1>0, <2>1 DEF StopACME, Holds, TypeOK
    <3> QED
      BY <1>0, <3>1
  <2>2. ASSUME NEW m \in MiekgServers, Shutdown(m) PROVE Served(g, l)'
    <3>0. m \in Listeners
      BY <1>0
    <3>1. CASE srv[gen][m] = "serving"
      BY <1>0, <2>0, <2>2, <3>0, <3>1, OthersStay, FreesEffect DEF Shutdown
    <3>2. CASE srv[gen][m] # "serving"
      BY <1>2, <2>2, <3>2 DEF Shutdown, Holds
    <3> QED
      BY <3>1, <3>2
  <2>3. ASSUME NEW m \in MiekgServers, HandlersDone(m) PROVE Served(g, l)'
    <3>1. /\ Becomes(gen, m, "closed") /\ srv[gen][m] = "closing" /\ port' = port
          /\ cut' = cut /\ m \in Listeners \ {"h3", "doq"}
      BY <2>3 DEF HandlersDone, MiekgServers, Listeners
    <3>2. <<g, l>> # <<gen, m>>
      BY <1>0, <3>1 DEF Holds, MiekgServers
    <3> QED
      BY <1>0, <2>0, <3>1, <3>2, OthersStay
  <2>4. CASE StopDoQ
    <3>0. "doq" \in Listeners
      BY DEF Listeners
    <3>1. CASE srv[gen]["doq"] # "serving"
      BY <1>2, <2>4, <3>1 DEF StopDoQ, Holds
    <3>2. CASE srv[gen]["doq"] = "serving" /\ Frees(gen, "doq") /\ UNCHANGED cut
      BY <1>0, <2>0, <2>4, <3>0, <3>2, OthersStay, FreesEffect DEF StopDoQ
    <3>3. CASE /\ srv[gen]["doq"] = "serving" /\ cut' = cut \cup {<<gen, "doq">>}
               /\ UNCHANGED port
      BY <1>0, <2>0, <2>4, <3>0, <3>3, OthersStay DEF StopDoQ
    <3> QED
      BY <2>4, <3>1, <3>2, <3>3 DEF StopDoQ
  <2>5. CASE DoQStopped \/ H2Stopped \/ DoHStopped \/ CloseRouter
    BY <1>2, <2>5 DEF DoQStopped, H2Stopped, DoHStopped, CloseRouter, Holds, Unchanged_Stop
  <2>6. CASE StopH2
    <3>0. "h2" \in Listeners
      BY DEF Listeners
    <3>1. CASE srv[gen]["h2"] # "serving"
      BY <1>2, <2>6, <3>1 DEF StopH2, Holds
    <3>2. CASE srv[gen]["h2"] = "serving"
      BY <1>0, <2>0, <2>6, <3>0, <3>2, OthersStay, FreesEffect DEF StopH2
    <3> QED
      BY <3>1, <3>2
  <2>7. CASE StopH3
    <3>0. "h3" \in Listeners
      BY DEF Listeners
    <3>1. CASE srv[gen]["h3"] # "serving"
      BY <1>2, <2>7, <3>1 DEF StopH3, Holds
    <3>2. CASE srv[gen]["h3"] = "serving"
      BY <1>0, <2>0, <2>7, <3>0, <3>2, OthersStay DEF StopH3
    <3> QED
      BY <3>1, <3>2
  <2> QED
    BY <1>7, <2>1, <2>2, <2>3, <2>4, <2>5, <2>6, <2>7 DEF StopStep
<1> QED
    BY <1>1, <1>3, <1>4, <1>5, <1>6, <1>7 DEF Next

\* Where requests come from and go to.
LEMMA HandlersChange ==
    ASSUME TypeOK, [Next]_vars, NEW g \in Gens, NEW l \in Listeners,
           InHandler(g, l)' # {}
    PROVE  \/ InHandler(g, l) # {}
           \/ /\ UNCHANGED <<gen, stage, srv, port, cut, shut>>
              /\ (srv[g][l] = "serving" /\ Holds(g, l)) \/ l = "doq"
<1>1. CASE UNCHANGED req
    BY <1>1 DEF InHandler
<1>2. ASSUME NEW r \in Requests, Answer(r) PROVE InHandler(g, l) # {}
    BY <1>2 DEF Answer, InHandler, TypeOK, Idle
<1>3. ASSUME NEW r \in Requests, NEW h \in Gens, NEW m \in Listeners, Arrive(r, h, m)
      PROVE  \/ InHandler(g, l) # {}
             \/ /\ UNCHANGED <<gen, stage, srv, port, cut, shut>>
                /\ (srv[g][l] = "serving" /\ Holds(g, l)) \/ l = "doq"
  <2>1. req' = [req EXCEPT ![r] = [pc |-> "route", gen |-> h, on |-> m]]
    BY <1>3 DEF Arrive
  <2>2. PICK q \in Requests : req'[q].pc = "route" /\ req'[q].gen = g /\ req'[q].on = l
    BY DEF InHandler
  <2>3. CASE q # r
    BY <2>1, <2>2, <2>3 DEF InHandler, TypeOK
  <2>4. CASE q = r
    <3>1. g = h /\ l = m
      BY <2>1, <2>2, <2>4 DEF TypeOK
    <3> QED
      BY <1>3, <3>1 DEF Arrive
  <2> QED
    BY <2>3, <2>4
<1>4. \/ UNCHANGED req
      \/ \E r \in Requests :
            Answer(r) \/ \E h \in Gens, m \in Listeners : Arrive(r, h, m)
  <2>1. ASSUME NEW on \in Configs, StartServers(on) PROVE UNCHANGED req
    BY <2>1 DEF StartServers
  <2>2. ASSUME NEW h \in Gens, ConnOpens(h) \/ ConnEnds(h) PROVE UNCHANGED req
    BY <2>2 DEF ConnOpens, ConnEnds
  <2>3. ASSUME NEW h \in Gens, NEW m \in Listeners, ListenerStep(h, m)
        PROVE  UNCHANGED req
    BY <2>3 DEF ListenerStep, ServeMiekg, BindHTTP, ServeHTTPListener, GoroutineEnds,
                BindACME, Unchanged_Goroutine
  <2>4. CASE StopStep \/ BeginStop \/ FiveSeconds \/ UNCHANGED vars
    BY <2>4 DEF StopStep, StopACME, StopDoQ, DoQStopped, StopH2, H2Stopped, StopH3,
                DoHStopped, CloseRouter, Shutdown, HandlersDone, Unchanged_Stop,
                BeginStop, FiveSeconds, vars
  <2> QED
    BY <2>1, <2>2, <2>3, <2>4 DEF Next
<1> QED
    BY <1>1, <1>2, <1>3, <1>4

\* What the goroutines of a listener with handlers may do; stopInternal ends
\* one that a dns.Server runs only without handlers.
LEMMA ServingStays ==
    ASSUME TypeOK, Numbered, [Next]_vars, NEW g \in Gens, NEW l \in Listeners
    PROVE  /\ l \in MiekgServers /\ srv[g][l] \in {"serving", "closing"} =>
                 \/ srv'[g][l] \in {"serving", "closing"}
                 \/ InHandler(g, l) = {} /\ UNCHANGED req
           /\ srv[g][l] \notin {"off", "starting", "bound"} =>
                 srv'[g][l] \notin {"off", "starting", "bound"}
<1> USE DEF TypeOK, Becomes
<1>1. ASSUME NEW on \in Configs, StartServers(on)
      PROVE  srv'[g][l] = srv[g][l] \/ srv[g][l] = "off"
  <2>1. gen \in Nat /\ gen' = gen + 1 /\ (g # gen' => srv'[g][l] = srv[g][l])
    BY <1>1, StartEffect
  <2> QED
    BY <2>1 DEF Numbered
<1>2. CASE BeginStop \/ FiveSeconds \/ UNCHANGED vars
    BY <1>2 DEF BeginStop, FiveSeconds, Unchanged_Stop, vars
<1>3. ASSUME NEW h \in Gens, ConnOpens(h) \/ ConnEnds(h) PROVE UNCHANGED srv
    BY <1>3 DEF ConnOpens, ConnEnds
<1>4. ASSUME NEW r \in Requests,
             Answer(r) \/ \E h \in Gens, m \in Listeners : Arrive(r, h, m)
      PROVE  UNCHANGED srv
    BY <1>4 DEF Answer, Arrive
<1>5. ASSUME NEW h \in Gens, NEW m \in Listeners, ListenerStep(h, m)
      PROVE  \/ srv'[g][l] = srv[g][l]
             \/ srv[g][l] \in {"starting", "bound"}
             \/ l \notin MiekgServers /\ srv'[g][l] = "closed"
  <2>1. CASE ServeMiekg(h, m)
    BY <2>1 DEF ServeMiekg
  <2>2. CASE BindHTTP(h, m)
    BY <2>2 DEF BindHTTP
  <2>3. CASE ServeHTTPListener(h, m)
    BY <2>3 DEF ServeHTTPListener
  <2>4. CASE GoroutineEnds(h, m)
    BY <2>4 DEF GoroutineEnds
  <2>5. CASE m = "acme" /\ BindACME(h)
    BY <2>5 DEF BindACME
  <2> QED
    BY <1>5, <2>1, <2>2, <2>3, <2>4, <2>5 DEF ListenerStep
<1>6. CASE StopStep
  <2>0. gen \in Gens
    BY <1>6 DEF Numbered, StopStep, StopACME, StopDoQ, DoQStopped, StopH2, H2Stopped,
                StopH3, DoHStopped, CloseRouter, Shutdown, HandlersDone, MiekgServers
  <2>1. CASE StopACME
    BY <2>0, <2>1 DEF StopACME
  <2>2. ASSUME NEW m \in MiekgServers, Shutdown(m)
        PROVE  srv'[g][l] = srv[g][l] \/ srv'[g][l] = "closing"
    BY <2>0, <2>2 DEF Shutdown
  <2>3. ASSUME NEW m \in MiekgServers, HandlersDone(m)
        PROVE  \/ srv'[g][l] = srv[g][l]
               \/ InHandler(g, l) = {} /\ UNCHANGED req /\ srv'[g][l] = "closed"
    BY <2>0, <2>3 DEF HandlersDone, Unchanged_Stop
  <2>4. CASE StopDoQ \/ DoQStopped \/ StopH2 \/ H2Stopped
    BY <2>0, <2>4 DEF StopDoQ, DoQStopped, StopH2, H2Stopped, Unchanged_Stop
  <2>5. CASE StopH3 \/ DoHStopped \/ CloseRouter
    BY <2>0, <2>5 DEF StopH3, DoHStopped, CloseRouter, Unchanged_Stop
  <2> QED
    BY <1>6, <2>1, <2>2, <2>3, <2>4, <2>5 DEF StopStep
<1> QED
    BY <1>1, <1>2, <1>3, <1>4, <1>5, <1>6 DEF Next

\* Every step preserves HandlersServed.
LEMMA HandlersServedStep ==
    ASSUME TypeOK, Numbered, HandlersServed, [Next]_vars
    PROVE  HandlersServed'
<1> SUFFICES ASSUME NEW g \in Gens, NEW l \in MiekgServers \cup {"h2"},
                    InHandler(g, l)' # {}
             PROVE  /\ l \in MiekgServers => srv'[g][l] \in {"serving", "closing"}
                    /\ l = "h2" => srv'[g][l] \notin {"off", "starting", "bound"}
    BY DEF HandlersServed
<1>0. l \in Listeners /\ l # "doq"
    BY DEF MiekgServers, Listeners
<1>1. CASE InHandler(g, l) # {}
  <2>1. CASE InHandler(g, l) = {} /\ UNCHANGED req
    BY <1>1, <2>1
  <2> QED
    BY <1>0, <1>1, ServingStays DEF HandlersServed
<1>2. CASE InHandler(g, l) = {}
    BY <1>0, <1>2, HandlersChange
<1> QED
    BY <1>1, <1>2

-----------------------------------------------------------------------------
(* What has been stopped stays so.                                         *)

\* When a goroutine begins to serve, and that one which has ended stays so.
LEMMA ServingComes ==
    ASSUME TypeOK, Numbered, [Next]_vars, ~ \E on \in Configs : StartServers(on),
           NEW g \in Gens, NEW l \in Listeners
    PROVE  /\ srv'[g][l] = "serving" =>
                 \/ srv[g][l] = "serving"
                 \/ l \in MiekgServers /\ srv[g][l] = "starting"
                 \/ l \in HTTPServers /\ (l # "acme" => <<g, l>> \notin shut)
           /\ srv[g][l] \in {"off", "closed", "failed"} => srv'[g][l] = srv[g][l]
<1> USE DEF TypeOK, Becomes
<1>1. CASE BeginStop \/ FiveSeconds \/ UNCHANGED vars
    BY <1>1 DEF BeginStop, FiveSeconds, Unchanged_Stop, vars
<1>2. ASSUME NEW h \in Gens, ConnOpens(h) \/ ConnEnds(h) PROVE UNCHANGED srv
    BY <1>2 DEF ConnOpens, ConnEnds
<1>3. ASSUME NEW r \in Requests,
             Answer(r) \/ \E h \in Gens, m \in Listeners : Arrive(r, h, m)
      PROVE  UNCHANGED srv
    BY <1>3 DEF Answer, Arrive
<1>4. ASSUME NEW h \in Gens, NEW m \in Listeners, ListenerStep(h, m)
      PROVE  \/ srv'[g][l] = srv[g][l]
             \/ /\ srv[g][l] \in {"starting", "bound", "closing"}
                /\ srv'[g][l] = "serving" =>
                       \/ l \in MiekgServers /\ srv[g][l] = "starting"
                       \/ l \in HTTPServers /\ (l # "acme" => <<g, l>> \notin shut)
  <2>1. CASE ServeMiekg(h, m)
    BY <2>1 DEF ServeMiekg
  <2>2. CASE BindHTTP(h, m)
    BY <2>2 DEF BindHTTP
  <2>3. CASE ServeHTTPListener(h, m)
    <3>1. m \in HTTPServers /\ srv[h][m] = "bound" /\ (m # "acme" => ServerOf(h, m) = h)
      BY <2>3 DEF ServeHTTPListener, ServerOf
    <3>2. CASE <<ServerOf(h, m), m>> \in shut
      BY <2>3, <3>1, <3>2 DEF ServeHTTPListener
    <3>3. CASE <<ServerOf(h, m), m>> \notin shut
      <4>1. Becomes(h, m, "serving") /\ (m # "acme" => <<h, m>> \notin shut)
        BY <2>3, <3>1, <3>3 DEF ServeHTTPListener
      <4> QED
        BY <3>1, <4>1
    <3> QED
      BY <3>2, <3>3
  <2>4. CASE GoroutineEnds(h, m)
    BY <2>4 DEF GoroutineEnds
  <2>5. CASE m = "acme" /\ BindACME(h)
    BY <2>5 DEF BindACME
  <2> QED
    BY <1>4, <2>1, <2>2, <2>3, <2>4, <2>5 DEF ListenerStep
<1>5. CASE StopStep
  <2>0. gen \in Gens
    BY <1>5 DEF Numbered, StopStep, StopACME, StopDoQ, DoQStopped, StopH2, H2Stopped,
                StopH3, DoHStopped, CloseRouter, Shutdown, HandlersDone, MiekgServers
  <2>1. CASE StopACME
    BY <2>0, <2>1 DEF StopACME
  <2>2. ASSUME NEW m \in MiekgServers, Shutdown(m) \/ HandlersDone(m)
        PROVE  \/ srv'[g][l] = srv[g][l]
               \/ srv[g][l] \in {"serving", "closing"} /\ srv'[g][l] # "serving"
    BY <2>0, <2>2 DEF Shutdown, HandlersDone
  <2>3. CASE StopDoQ \/ DoQStopped \/ StopH2 \/ H2Stopped
    BY <2>0, <2>3 DEF StopDoQ, DoQStopped, StopH2, H2Stopped, Unchanged_Stop
  <2>4. CASE StopH3 \/ DoHStopped \/ CloseRouter
    BY <2>0, <2>4 DEF StopH3, DoHStopped, CloseRouter, Unchanged_Stop
  <2> QED
    BY <1>5, <2>1, <2>2, <2>3, <2>4 DEF StopStep
<1> QED
    BY <1>1, <1>2, <1>3, <1>4, <1>5 DEF Next

\* A history only grows, and so does the set of the servers told to stop.
LEMMA HistoryGrows == ASSUME [Next]_vars PROVE cut \subseteq cut' /\ shut \subseteq shut'
<1>1. ASSUME NEW on \in Configs, StartServers(on) PROVE UNCHANGED <<cut, shut>>
    BY <1>1 DEF StartServers
<1>2. CASE BeginStop \/ FiveSeconds \/ UNCHANGED vars
    BY <1>2 DEF BeginStop, FiveSeconds, Unchanged_Stop, vars
<1>3. ASSUME NEW h \in Gens, ConnOpens(h) \/ ConnEnds(h) PROVE UNCHANGED <<cut, shut>>
    BY <1>3 DEF ConnOpens, ConnEnds
<1>4. ASSUME NEW r \in Requests,
             Answer(r) \/ \E h \in Gens, m \in Listeners : Arrive(r, h, m)
      PROVE  UNCHANGED <<cut, shut>>
    BY <1>4 DEF Answer, Arrive
<1>5. ASSUME NEW h \in Gens, NEW m \in Listeners, ListenerStep(h, m)
      PROVE  UNCHANGED <<cut, shut>>
    BY <1>5 DEF ListenerStep, ServeMiekg, BindHTTP, ServeHTTPListener, GoroutineEnds,
                BindACME, Unchanged_Goroutine
<1>6. CASE StopStep
  <2>1. ASSUME NEW m \in MiekgServers, Shutdown(m) \/ HandlersDone(m)
        PROVE  cut \subseteq cut' /\ shut \subseteq shut'
    BY <2>1 DEF Shutdown, HandlersDone, Unchanged_Stop
  <2>2. CASE StopACME \/ StopDoQ \/ DoQStopped
    BY <2>2 DEF StopACME, StopDoQ, DoQStopped, Unchanged_Stop
  <2>3. CASE StopH2 \/ H2Stopped \/ StopH3
    BY <2>3 DEF StopH2, H2Stopped, StopH3, Unchanged_Stop
  <2>4. CASE DoHStopped \/ CloseRouter
    BY <2>4 DEF DoHStopped, CloseRouter, Unchanged_Stop
  <2> QED
    BY <1>6, <2>1, <2>2, <2>3, <2>4 DEF StopStep
<1> QED
    BY <1>1, <1>2, <1>3, <1>4, <1>5, <1>6 DEF Next

\* The stages of the Stop of a DoHServer are entered by its own steps.
LEMMA DoHStages ==
    ASSUME [Next]_vars, stage' \in {"h2Wait", "h3", "dohWait"}
    PROVE  /\ gen' = gen
           /\ \/ stage' = stage
              \/ StopH2 /\ stage' = "h2Wait"
              \/ H2Stopped /\ stage' = "h3"
              \/ StopH3 /\ stage = "h3"
<1>1. ASSUME NEW on \in Configs PROVE ~StartServers(on)
    BY DEF StartServers
<1>2. CASE BeginStop \/ FiveSeconds \/ UNCHANGED vars
    BY <1>2 DEF BeginStop, FiveSeconds, Unchanged_Stop, vars
<1>3. ASSUME NEW h \in Gens, ConnOpens(h) \/ ConnEnds(h) PROVE UNCHANGED <<gen, stage>>
    BY <1>3 DEF ConnOpens, ConnEnds
<1>4. ASSUME NEW r \in Requests,
             Answer(r) \/ \E h \in Gens, m \in Listeners : Arrive(r, h, m)
      PROVE  UNCHANGED <<gen, stage>>
    BY <1>4 DEF Answer, Arrive
<1>5. ASSUME NEW h \in Gens, NEW m \in Listeners, ListenerStep(h, m)
      PROVE  UNCHANGED <<gen, stage>>
    BY <1>5 DEF ListenerStep, ServeMiekg, BindHTTP, ServeHTTPListener, GoroutineEnds,
                BindACME, Unchanged_Goroutine
<1>6. CASE StopStep
  <2>1. ASSUME NEW m \in MiekgServers, Shutdown(m) \/ HandlersDone(m)
        PROVE  gen' = gen /\ stage' = stage
    <3>1. After(m) \notin {"h2Wait", "h3", "dohWait"}
      BY AfterIs DEF MiekgServers
    <3> QED
      BY <2>1, <3>1 DEF Shutdown, HandlersDone, Unchanged_Stop
  <2>2. CASE StopACME \/ StopDoQ \/ DoQStopped
    BY <2>2, AfterIs DEF StopACME, StopDoQ, DoQStopped, Unchanged_Stop
  <2>3. CASE StopH2 \/ H2Stopped \/ StopH3 \/ DoHStopped \/ CloseRouter
    BY <2>3 DEF StopH2, H2Stopped, StopH3, DoHStopped, CloseRouter, Unchanged_Stop
  <2> QED
    BY <1>6, <2>1, <2>2, <2>3 DEF StopStep
<1> QED
    BY <1>1, <1>2, <1>3, <1>4, <1>5, <1>6 DEF Next

\* Every step preserves H2Told.
LEMMA H2ToldStep ==
    ASSUME TypeOK, Numbered, HandlersServed, H2Told, [Next]_vars
    PROVE  H2Told'
<1>1. SUFFICES ASSUME stage' \in {"h2Wait", "h3", "dohWait"},
                      NEW g \in Gens, g = gen, gen' = gen
               PROVE  /\ <<g, "h2">> \in shut' /\ srv'[g]["h2"] # "serving"
                      /\ stage' \in {"h3", "dohWait"} =>
                            InHandler(g, "h2")' = {} \/ <<g, "h2">> \in cut'
  <2>1. CASE stage' \notin {"h2Wait", "h3", "dohWait"}
    BY <2>1 DEF H2Told
  <2>2. CASE stage' \in {"h2Wait", "h3", "dohWait"}
    <3>1. gen' = gen /\ gen \in Gens
      BY <2>2, DoHStages DEF Numbered, StopH2, H2Stopped
    <3> QED
      BY <1>1, <2>2, <3>1 DEF H2Told
  <2> QED
    BY <2>1, <2>2
<1>2. /\ "h2" \in Listeners /\ cut \subseteq cut' /\ shut \subseteq shut'
      /\ "h2" \notin MiekgServers
    BY HistoryGrows DEF Listeners, MiekgServers
<1>3. ASSUME NEW on \in Configs PROVE ~StartServers(on)
    BY <1>1 DEF StartServers
<1>4. CASE stage \in {"h2Wait", "h3", "dohWait"}
  <2>1. <<g, "h2">> \in shut /\ srv[g]["h2"] # "serving"
    BY <1>1, <1>4 DEF H2Told
  <2>2. srv'[g]["h2"] # "serving"
    BY <1>2, <1>3, <2>1, ServingComes
  <2>3. ASSUME stage' \in {"h3", "dohWait"}, InHandler(g, "h2")' # {}
        PROVE  <<g, "h2">> \in cut'
    <3>1. InHandler(g, "h2") # {}
      BY <1>2, <2>1, <2>3, HandlersChange
    <3>2. CASE stage \in {"h3", "dohWait"}
      BY <1>1, <1>2, <3>1, <3>2 DEF H2Told
    <3>3. CASE stage = "h2Wait"
      BY <1>1, <2>3, <3>1, <3>3, DoHStages DEF H2Stopped, StopH2
    <3> QED
      BY <1>4, <3>2, <3>3
  <2> QED
    BY <1>2, <2>1, <2>2, <2>3
<1>5. CASE stage \notin {"h2Wait", "h3", "dohWait"}
  <2>1. StopH2 /\ stage' = "h2Wait" /\ stage = "h2"
    BY <1>1, <1>5, DoHStages DEF H2Stopped, StopH2
  <2>2. srv'[g]["h2"] # "serving"
    BY <1>1, <1>2, <2>1 DEF StopH2, Becomes, TypeOK
  <2> QED
    BY <1>1, <2>1, <2>2 DEF StopH2
<1> QED
    BY <1>4, <1>5

\* Only the goroutine of a running ACME server binds its port.
LEMMA ACMEPort ==
    ASSUME TypeOK, Numbered, ACMERuns, [Next]_vars, NEW g \in Gens,
           Holds(g, "acme")', ~Holds(g, "acme")
    PROVE  g = gen /\ stage \in {"running", "acme"}
<1>0. /\ "acme" \in Listeners /\ "doq" \in Listeners /\ "h2" \in Listeners
      /\ "acme" \notin MiekgServers /\ MiekgServers \subseteq Listeners
      /\ g \in Nat /\ g # 0
      /\ stage # "stopped" => gen \in Gens
    BY ServersAssumption DEF Listeners, MiekgServers, Gens, Numbered
<1>1. ASSUME NEW on \in Configs, StartServers(on) PROVE FALSE
    BY <1>0, <1>1, StartEffect DEF Holds
<1>2. CASE BeginStop \/ FiveSeconds \/ UNCHANGED vars
    BY <1>2 DEF BeginStop, FiveSeconds, Unchanged_Stop, vars, Holds
<1>3. ASSUME NEW h \in Gens, ConnOpens(h) \/ ConnEnds(h) PROVE FALSE
    BY <1>0, <1>3, FreesEffect DEF ConnOpens, ConnEnds, Holds
<1>4. ASSUME NEW r \in Requests,
             Answer(r) \/ \E h \in Gens, m \in Listeners : Arrive(r, h, m)
      PROVE  FALSE
    BY <1>4 DEF Answer, Arrive, Holds
<1>5. ASSUME NEW h \in Gens, NEW m \in Listeners, ListenerStep(h, m)
      PROVE  g = gen /\ stage \in {"running", "acme"}
  <2>1. m = "acme"
    BY <1>0, <1>5, ListenerEffect DEF Holds, TypeOK
  <2>2. CASE ServeHTTPListener(h, m)
    BY <1>0, <2>1, <2>2 DEF ServeHTTPListener, Holds, TypeOK
  <2>3. CASE GoroutineEnds(h, m)
    BY <1>0, <2>1, <2>3 DEF GoroutineEnds, Holds
  <2>4. CASE BindACME(h)
    BY <1>0, <2>4 DEF BindACME, Holds, TypeOK, ACMERuns
  <2> QED
    BY <1>0, <1>5, <2>1, <2>2, <2>3, <2>4 DEF ListenerStep, ServeMiekg, BindHTTP
<1>6. CASE StopStep
  <2>0. gen \in Gens
    BY <1>0, <1>6 DEF StopStep, StopACME, StopDoQ, DoQStopped, StopH2, H2Stopped, StopH3,
                      DoHStopped, CloseRouter, Shutdown, HandlersDone, MiekgServers
  <2>1. ASSUME NEW m \in MiekgServers, Shutdown(m) \/ HandlersDone(m) PROVE FALSE
    BY <1>0, <2>0, <2>1, FreesEffect DEF Shutdown, HandlersDone, Holds
  <2>2. CASE StopACME
    BY <1>0, <2>2 DEF StopACME, Holds, TypeOK
  <2>3. CASE StopDoQ \/ StopH2
    BY <1>0, <2>0, <2>3, FreesEffect DEF StopDoQ, StopH2, Holds
  <2>4. CASE DoQStopped \/ H2Stopped \/ StopH3 \/ DoHStopped \/ CloseRouter
    BY <2>4 DEF DoQStopped, H2Stopped, StopH3, DoHStopped, CloseRouter, Unchanged_Stop, Holds
  <2> QED
    BY <1>6, <2>1, <2>2, <2>3, <2>4 DEF StopStep
<1> QED
    BY <1>1, <1>2, <1>3, <1>4, <1>5, <1>6 DEF Next

\* What StopDone says of one listener.
Done(g, l) ==
    /\ l = "acme" => ~Holds(g, "acme")
    /\ l = "doq" => srv[g]["doq"] # "serving"
    /\ l \in MiekgServers \cup {"h2", "h3"} => srv[g][l] \in {"off", "closed", "failed"}
    /\ l \in MiekgServers \cup {"h2"} => InHandler(g, l) = {}

LEMMA StopDoneIs ==
    StopDone <=> \A g \in Gens, l \in Listeners : Stopped(g, l) => Done(g, l)
<1>1. /\ "acme" \in Listeners /\ "doq" \in Listeners
      /\ MiekgServers \cup {"h2", "h3"} \subseteq Listeners
      /\ "acme" \notin MiekgServers \cup {"h2", "h3"}
      /\ "doq" \notin MiekgServers \cup {"h2", "h3"}
    BY DEF Listeners, MiekgServers
<1>2. ASSUME StopDone, NEW g \in Gens, NEW l \in Listeners, Stopped(g, l)
      PROVE  Done(g, l)
    BY <1>2 DEF StopDone, Done
<1>3. ASSUME \A g \in Gens, l \in Listeners : Stopped(g, l) => Done(g, l)
      PROVE  StopDone
    BY <1>1, <1>3 DEF StopDone, Done
<1> QED
    BY <1>2, <1>3

\* What is done stays done.
LEMMA DoneStays ==
    ASSUME TypeOK, Numbered, ACMERuns, [Next]_vars, NEW g \in Gens, NEW l \in Listeners,
           StopOver(g, l), StopOver(g, l)', Done(g, l)
    PROVE  Done(g, l)'
<1>0. /\ "acme" \in Listeners /\ "doq" \notin MiekgServers \cup HTTPServers
      /\ "doq" \notin MiekgServers \cup {"h2"}
    BY DEF Listeners, MiekgServers, HTTPServers
<1>1. srv[g][l] \in {"off", "closed", "failed"} => srv'[g][l] = srv[g][l]
  <2>1. ASSUME NEW on \in Configs, StartServers(on) PROVE srv'[g][l] = srv[g][l]
    BY <2>1, StartEffect, StartStep
  <2> QED
    BY <2>1, ServingComes
<1>2. l = "doq" => srv'[g]["doq"] # "serving"
  <2>1. ASSUME NEW on \in Configs, StartServers(on) PROVE srv'[g][l] = srv[g][l]
    BY <2>1, StartEffect, StartStep
  <2> QED
    BY <1>0, <2>1, ServingComes DEF Done
<1>3. l = "acme" => ~Holds(g, "acme")'
  <2>1. l = "acme" => ~(g = gen /\ stage \in {"running", "acme"})
    BY PendingIs, ServersAssumption DEF StopOver, Gens, TypeOK
  <2> QED
    BY <2>1, ACMEPort DEF Done
<1>4. l \in MiekgServers \cup {"h2"} => InHandler(g, l)' = {}
    BY <1>0, HandlersChange DEF Done
<1> QED
    BY <1>1, <1>2, <1>3, <1>4 DEF Done

\* The step that ends the Stop of a listener has done its work, or its history
\* says that it has not.
LEMMA DoneComes ==
    ASSUME TypeOK, Numbered, HandlersServed, H2Told, [Next]_vars,
           NEW g \in Gens, NEW l \in Listeners,
           ~StopOver(g, l), StopOver(g, l)', <<g, l>> \notin cut'
    PROVE  Done(g, l)'
<1>0. /\ gen \in Nat /\ MiekgServers \subseteq Listeners
      /\ "acme" \notin MiekgServers \cup {"h2", "h3"}
      /\ "doq" \notin MiekgServers \cup {"h2", "h3"}
      /\ "h2" \notin MiekgServers /\ "h3" \notin MiekgServers
      /\ MiekgServers = {"udp", "tcp", "dot"}
    BY DEF TypeOK, MiekgServers, Listeners
<1>1. ASSUME NEW on \in Configs PROVE ~StartServers(on)
  <2>1. ASSUME StartServers(on) PROVE FALSE
    BY <2>1, StartEffect, StartStep
  <2> QED
    BY <2>1
<1>2. ~UNCHANGED <<gen, stage>>
    BY DEF StopOver
<1>3. ~(gen' = gen /\ stage' = stage)
    BY <1>2
<1>4. StopStep
  <2>1. CASE BeginStop \/ FiveSeconds \/ UNCHANGED vars
    BY <1>0, <1>2, <2>1, StageStep DEF BeginStop, FiveSeconds, Unchanged_Stop, vars
  <2>2. ASSUME NEW h \in Gens, ConnOpens(h) \/ ConnEnds(h) PROVE FALSE
    BY <1>2, <2>2 DEF ConnOpens, ConnEnds
  <2>3. ASSUME NEW r \in Requests,
               Answer(r) \/ \E h \in Gens, m \in Listeners : Arrive(r, h, m)
        PROVE  FALSE
    BY <1>2, <2>3 DEF Answer, Arrive
  <2>4. ASSUME NEW h \in Gens, NEW m \in Listeners, ListenerStep(h, m) PROVE FALSE
    BY <1>2, <2>4, ListenerEffect
  <2> QED
    BY <1>1, <2>1, <2>2, <2>3, <2>4 DEF Next
<1>5. CASE StopACME
  <2>1. g = gen /\ l = "acme"
    BY <1>0, <1>5, StageStep DEF StopACME, Unchanged_Stop
  <2>2. ~Holds(g, "acme")'
    BY <1>5, <2>1 DEF StopACME, Holds, TypeOK, Gens
  <2> QED
    BY <1>0, <2>1, <2>2 DEF Done
<1>6. ASSUME NEW m \in MiekgServers, Shutdown(m) PROVE Done(g, l)'
  <2>1. srv[gen][m] \notin {"serving", "closing"} /\ stage = m /\ stage' = After(m)
        /\ UNCHANGED <<gen, srv, port, req>>
        /\ (srv[gen][m] = "starting" => cut' = cut \cup {<<gen, m>>})
    BY <1>3, <1>6 DEF Shutdown, Unchanged_Stop
  <2>2. g = gen /\ l = m
    <3>1. CASE m = "udp"
      BY <1>0, <2>1, <3>1, StageStep
    <3>2. CASE m = "tcp"
      BY <1>0, <2>1, <3>2, StageStep
    <3>3. CASE m = "dot"
      <4>1. stage' = After("dot") /\ stage = "dot"
        BY <2>1, <3>3
      <4> QED
        BY <1>0, <2>1, <3>3, <4>1, StageStep
    <3> QED
      BY <1>0, <3>1, <3>2, <3>3
  <2>3. srv[g][l] \in {"off", "closed", "failed"}
    BY <1>0, <2>1, <2>2 DEF TypeOK, Numbered, GoroutineStates, HTTPServers
  <2>4. InHandler(g, l) = {}
    BY <1>0, <2>3, <2>2 DEF HandlersServed
  <2>5. InHandler(g, l)' = {}
    BY <2>1, <2>4 DEF InHandler
  <2> QED
    BY <1>0, <2>1, <2>2, <2>3, <2>5 DEF Done
<1>7. ASSUME NEW m \in MiekgServers, HandlersDone(m) PROVE Done(g, l)'
  <2>1. stage = m /\ stage' = After(m) /\ UNCHANGED <<gen, req>>
        /\ Becomes(gen, m, "closed") /\ InHandler(gen, m) = {}
    BY <1>7 DEF HandlersDone, Unchanged_Stop
  <2>2. g = gen /\ l = m
    <3>1. CASE m = "udp"
      BY <1>0, <2>1, <3>1, StageStep
    <3>2. CASE m = "tcp"
      BY <1>0, <2>1, <3>2, StageStep
    <3>3. CASE m = "dot"
      BY <1>0, <2>1, <3>3, StageStep
    <3> QED
      BY <1>0, <3>1, <3>2, <3>3
  <2>3. srv'[g][l] = "closed"
    BY <2>1, <2>2 DEF Becomes, TypeOK
  <2>4. InHandler(g, l)' = {}
    BY <2>1, <2>2 DEF InHandler
  <2> QED
    BY <1>0, <2>2, <2>3, <2>4 DEF Done
<1>8. CASE StopDoQ
  <2>1. g = gen /\ l = "doq"
    BY <1>0, <1>8, AfterIs, StageStep DEF StopDoQ, Unchanged_Stop
  <2>2. srv'[g]["doq"] # "serving"
    BY <1>8, <2>1 DEF StopDoQ, Becomes, TypeOK
  <2> QED
    BY <1>0, <2>1, <2>2 DEF Done
<1>9. CASE DoQStopped \/ H2Stopped \/ StopH3 \/ CloseRouter
    BY <1>0, <1>9, AfterIs, StageStep DEF DoQStopped, H2Stopped, StopH3, CloseRouter,
                                          Unchanged_Stop
<1>10. CASE StopH2
  <2>1. stage = "h2" /\ UNCHANGED <<gen, req>> /\ (stage' = "router" \/ stage' = "h2Wait")
    BY <1>10 DEF StopH2, Unchanged_Stop
  <2>2. stage' = "router" /\ g = gen /\ l \in {"h2", "h3"}
    BY <1>0, <2>1, StageStep
  <2>3. srv[gen]["h2"] = "off" /\ srv' = srv
    BY <1>10, <2>2 DEF StopH2
  <2>4. srv'[g][l] = "off"
    BY <2>2, <2>3 DEF Numbered
  <2>5. InHandler(g, "h2") = {}
    BY <2>2, <2>3 DEF HandlersServed
  <2>6. l = "h2" => InHandler(g, l)' = {}
    BY <2>1, <2>5 DEF InHandler
  <2> QED
    BY <1>0, <2>2, <2>4, <2>6 DEF Done
<1>11. CASE DoHStopped
  <2>1. stage = "dohWait" /\ stage' = "router" /\ UNCHANGED <<gen, srv, req>>
    BY <1>11 DEF DoHStopped, Unchanged_Stop
  <2>2. g = gen /\ l \in {"h2", "h3"}
    BY <1>0, <2>1, StageStep
  <2>3. ~AtWork(l)
    BY <1>11, <2>2 DEF DoHStopped, DoHGoroutines
  <2>4. srv'[g][l] \in {"off", "closed", "failed"}
    BY <2>1, <2>2, <2>3 DEF AtWork, TypeOK, GoroutineStates
  <2>5. l = "h2" => InHandler(g, l)' = {}
    <3>1. l = "h2" => InHandler(g, l) = {}
      BY <2>1, <2>2, HistoryGrows DEF H2Told
    <3> QED
      BY <2>1, <3>1 DEF InHandler
  <2> QED
    BY <1>0, <2>2, <2>4, <2>5 DEF Done
<1> QED
    BY <1>4, <1>5, <1>6, <1>7, <1>8, <1>9, <1>10, <1>11 DEF StopStep

\* Every step preserves StopDone.
LEMMA StopDoneStep ==
    ASSUME TypeOK, Numbered, ACMERuns, HandlersServed, H2Told, StopDone, [Next]_vars
    PROVE  StopDone'
<1>1. ASSUME NEW g \in Gens, NEW l \in Listeners, StopOver(g, l)', <<g, l>> \notin cut'
      PROVE  Done(g, l)'
  <2>1. CASE StopOver(g, l)
    <3>1. Done(g, l)
      BY <1>1, <2>1, HistoryGrows, StopDoneIs DEF Stopped
    <3> QED
      BY <1>1, <2>1, <3>1, DoneStays
  <2>2. CASE ~StopOver(g, l)
    BY <1>1, <2>2, DoneComes
  <2> QED
    BY <2>1, <2>2
<1>2. \A g \in Gens, l \in Listeners : Stopped(g, l)' => Done(g, l)'
    BY <1>1 DEF Stopped
<1>3. (\A g \in Gens, l \in Listeners : Stopped(g, l) => Done(g, l))' => StopDone'
    BY StopDoneIs, PTL
<1> QED
    BY <1>2, <1>3

-----------------------------------------------------------------------------
(* The theorems.                                                           *)

\* Nothing has been started, and nothing stopped.
LEMMA InitCore == Init => Core
<1> SUFFICES ASSUME Init PROVE Core
    OBVIOUS
<1>1. /\ gen = 0 /\ stage = "stopped" /\ MaxStarts \in Nat /\ 0 \in 0 .. MaxStarts
      /\ 1 .. 0 = {} /\ 0 \in 0 .. 0 /\ Gens \subseteq Nat \ {0}
    BY ServersAssumption DEF Init, Gens
<1>2. TypeOK
    BY <1>1 DEF Init, TypeOK, Stages, GoroutineStates, Request, Idle
<1>3. Numbered /\ ACMERuns /\ H2Told
    BY <1>1 DEF Init, Numbered, ACMERuns, H2Told, Listeners
<1>4. PortServed /\ HandlersServed
    BY <1>1 DEF Init, PortServed, HandlersServed, Holds, InHandler, Idle
<1>5. StopDone
  <2>1. \A g \in Gens : ~(g < gen) /\ g # gen
    BY <1>1
  <2>2. \A g \in Gens, l \in Listeners : ~StopOver(g, l)
    BY <2>1 DEF StopOver
  <2> QED
    BY <2>2, StopDoneIs DEF Stopped
<1> QED
    BY <1>2, <1>3, <1>4, <1>5 DEF Core

\* Core is inductive.
LEMMA CoreInvariant == Spec => []Core
<1>1. Init => Core
    BY InitCore
<1>2. Core /\ [Next]_vars => Core'
  <2> SUFFICES ASSUME Core, [Next]_vars PROVE Core'
    OBVIOUS
  <2>1. /\ TypeOK /\ Numbered /\ ACMERuns /\ PortServed
        /\ HandlersServed /\ H2Told /\ StopDone
    BY DEF Core
  <2>2. TypeOK' /\ Numbered' /\ ACMERuns'
    BY <2>1, TypeStep, NumberedStep, ACMERunsStep
  <2>3. PortServed' /\ HandlersServed'
    BY <2>1, PortServedStep, HandlersServedStep
  <2>4. H2Told' /\ StopDone'
    BY <2>1, H2ToldStep, StopDoneStep
  <2> QED
    BY <2>2, <2>3, <2>4 DEF Core
<1> QED
    BY <1>1, <1>2, PTL DEF Spec

\* A generation whose router is closed was stopped, every listener of it.
LEMMA ClosedIsStopped ==
    ASSUME TypeOK, NEW g \in Gens, g <= gen, RouterClosed(g), NEW l \in Listeners
    PROVE  StopOver(g, l)
<1>1. "stopped" \notin Pending[l]
    BY PendingIs DEF Listeners, Stages
<1> QED
    BY <1>1, ServersAssumption DEF RouterClosed, StopOver, TypeOK, Gens

\* PortInv holds in every reachable state (PortInv of the run servers): a
\* generation that was stopped holds no port, except where its Stop could not
\* know better (dnsserver.go:66-81, doqserver.go:104-124, dohserver.go:152-180).
THEOREM PortInvariant == Spec => []PortInv
<1>1. Core => PortsReleased
  <2> SUFFICES ASSUME Core, NEW l \in Listeners, port[l] # 0, RouterClosed(port[l]),
                      <<port[l], l>> \notin cut
               PROVE  FALSE
    BY DEF PortsReleased
  <2>1. TypeOK /\ PortServed /\ StopDone
    BY DEF Core
  <2>2. port[l] \in Gens /\ port[l] <= gen
    BY <2>1, ServersAssumption DEF TypeOK, Gens
  <2>3. PICK g \in Gens : g = port[l]
    BY <2>2
  <2>4. Done(g, l)
    BY <2>1, <2>2, <2>3, ClosedIsStopped, StopDoneIs DEF Stopped
  <2>5. CASE l = "acme"
    BY <2>3, <2>4, <2>5 DEF Done, Holds
  <2>6. CASE l # "acme"
    BY <2>1, <2>3, <2>4, <2>6 DEF Done, Holds, PortServed, Listeners, MiekgServers
  <2> QED
    BY <2>5, <2>6
<1>2. Core /\ PortsReleased => PortInv
    BY DEF Core, PortInv
<1> QED
    BY <1>1, <1>2, CoreInvariant, PTL

\* The variables have their types in every reachable state.
THEOREM TypeCorrect == Spec => []TypeOK
<1>1. Core => TypeOK
    BY DEF Core
<1> QED
    BY <1>1, CoreInvariant, PTL

\* No DNS, DoT or HTTP/2 request is with a handler whose router is closed,
\* unless the Stop of its server was cut short (manager.go:392-425).
THEOREM HandlersBeforeRouterHolds == Spec => []HandlersBeforeRouter
<1>1. Core => HandlersBeforeRouter
  <2> SUFFICES ASSUME Core, NEW r \in Requests, req[r].pc = "route",
                      RouterClosed(req[r].gen), req[r].on \in {"udp", "tcp", "dot", "h2"},
                      <<req[r].gen, req[r].on>> \notin cut
               PROVE  FALSE
    BY DEF HandlersBeforeRouter
  <2>1. TypeOK /\ Numbered /\ HandlersServed /\ StopDone
    BY DEF Core
  <2>2. req[r] \in Request /\ req[r].pc = "route"
    BY <2>1 DEF TypeOK
  <2>3. PICK g \in Gens, l \in MiekgServers \cup {"h2"} : g = req[r].gen /\ l = req[r].on
    BY <2>2 DEF Request, MiekgServers
  <2>4. InHandler(g, l) # {} /\ l \in Listeners
    BY <2>2, <2>3 DEF InHandler, MiekgServers, Listeners
  <2>5. srv[g][l] # "off"
    BY <2>1, <2>3, <2>4 DEF HandlersServed
  <2>6. g <= gen
    BY <2>1, <2>4, <2>5, StartedGens, ServersAssumption DEF TypeOK, Gens
  <2>7. Done(g, l)
    BY <2>1, <2>3, <2>4, <2>6, ClosedIsStopped, StopDoneIs DEF Stopped
  <2> QED
    BY <2>3, <2>4, <2>7 DEF Done
<1> QED
    BY <1>1, CoreInvariant, PTL

-----------------------------------------------------------------------------
(* The replies.                                                            *)

\* What Route returns for a request.
LEMMA ResultFields ==
    ASSUME NEW result \in RouteResults, result # Failed
    PROVE  result.length \in Nat /\ result.packs \in BOOLEAN
<1>1. result \in Responses
  BY DEF RouteResults
<1>2. result.length \in Lengths /\ result.packs \in BOOLEAN
  BY <1>1 DEF Responses
<1> QED
  BY <1>2, RepliesAssumption

LEMMA QueryFields ==
    ASSUME NEW q \in Queries
    PROVE  q.question \in BOOLEAN /\ q.udpSize \in Nat
<1>1. q.question \in BOOLEAN /\ q.udpSize \in UDPSizes
  BY DEF Queries
<1> QED
  BY <1>1, RepliesAssumption

\* The limits.
LEMMA Limits ==
    /\ EmptyLength \in Nat /\ MinMsgSize \in Nat /\ MaxDatagram \in Nat
    /\ MaxDNSMessageSize \in Nat
    /\ EmptyLength <= MinMsgSize /\ MinMsgSize <= MaxDatagram
    /\ MaxDatagram <= MaxDNSMessageSize
  BY DEF EmptyLength, MinMsgSize, MaxDatagram, MaxDNSMessageSize

\* A length that the prefix of DoQ holds is what it announces.
LEMMA PrefixHolds ==
    ASSUME NEW n \in Nat, n <= MaxDNSMessageSize
    PROVE  n % TwoBytes = n
  BY DEF MaxDNSMessageSize, TwoBytes

\* An error is answered, on every listener.
LEMMA ErrorAnswers ==
    ASSUME NEW l, NEW q, NEW result, result = Failed \/ ~q.question, NEW id,
           (id = "zero") <=> (l = "doq")
    PROVE  Answered(l, q, result, Message("servfail", EmptyLength, EmptyLength, FALSE, id))
<1> DEFINE m == Message("servfail", EmptyLength, EmptyLength, FALSE, id)
<1>1. /\ m.kind = "message" /\ m.rcode = "servfail" /\ m.length = EmptyLength
      /\ m.announced = EmptyLength /\ m.id = id
  BY DEF Message
<1> HIDE DEF m
<1>2. Answered(l, q, result, m)
  BY <1>1, Limits DEF Answered
<1> QED
  BY <1>2 DEF m

\* So is a response that is sent whole.
LEMMA WholeAnswers ==
    ASSUME NEW l, NEW q, NEW result, NEW id, (id = "zero") <=> (l = "doq"),
           l = "udp" => result.length <= MinMsgSize \/ result.length <= q.udpSize,
           l \in {"tcp", "dot", "doq"} => result.length <= MaxDNSMessageSize
    PROVE  Answered(l, q, result,
                    Message(result.rcode, result.length, result.length, FALSE, id))
<1> DEFINE m == Message(result.rcode, result.length, result.length, FALSE, id)
<1>1. /\ m.kind = "message" /\ m.rcode = result.rcode /\ m.length = result.length
      /\ m.announced = result.length /\ m.id = id
  BY DEF Message
<1> HIDE DEF m
<1>2. Answered(l, q, result, m)
  BY <1>1 DEF Answered
<1> QED
  BY <1>2 DEF m

\* And one that is cut.
LEMMA CutAnswers ==
    ASSUME NEW l, NEW q, NEW result, NEW rcode, NEW length, NEW id,
           rcode = result.rcode \/ l = "doq", (id = "zero") <=> (l = "doq"),
           q.question = TRUE, result # Failed,
           l = "udp" => length <= MinMsgSize \/ length <= q.udpSize,
           l \in {"tcp", "dot", "doq"} => length <= MaxDNSMessageSize
    PROVE  Answered(l, q, result, Message(rcode, length, length, TRUE, id))
<1> DEFINE m == Message(rcode, length, length, TRUE, id)
<1>1. /\ m.kind = "message" /\ m.rcode = rcode /\ m.length = length
      /\ m.announced = length /\ m.tc = TRUE /\ m.id = id
  BY DEF Message
<1> HIDE DEF m
<1>2. Answered(l, q, result, m)
  BY <1>1 DEF Answered
<1> QED
  BY <1>2 DEF m

\* The named reasons for which there is no message.
LEMMA NoMessage ==
    ASSUME NEW l, NEW q, NEW result, NEW reply \in {Silence, HTTPError},
           \/ ~q.question
           \/ result # Failed /\ ~result.packs
           \/ l \in {"tcp", "dot"} /\ result.length > MaxDNSMessageSize
           \/ l = "udp" /\ result.length > MaxDatagram /\ q.udpSize > MaxDatagram
    PROVE  Answered(l, q, result, reply)
<1>1. Silence.kind = "none" /\ HTTPError.kind = "status"
  BY DEF Silence, HTTPError
<1>2. reply.kind # "message"
  BY <1>1
<1> QED
  BY <1>2 DEF Answered

\* What each handler writes, for every length.
LEMMA UDPAnswers ==
    ASSUME NEW q \in Queries, NEW result \in RouteResults
    PROVE  Answered("udp", q, result, ServeUDP(q, result))
<1>1. CASE ~q.question \/ result = Failed
  <2>1. ServeUDP(q, result) = Message("servfail", EmptyLength, EmptyLength, FALSE, "own")
    BY <1>1 DEF ServeUDP, ServFail, Routed
  <2> QED
    BY <1>1, <2>1, ErrorAnswers
<1>2. CASE q.question /\ result # Failed
  <2> DEFINE size == UDPResponseSize(q)
             reply == Truncate(result, size)
  <2>1. /\ q.udpSize \in Nat /\ result.length \in Nat /\ result.packs \in BOOLEAN
    BY <1>2, ResultFields, QueryFields
  <2>2. size \in Nat /\ (size <= MinMsgSize \/ size = q.udpSize)
    BY <2>1, Limits DEF UDPResponseSize
  <2> HIDE DEF size
  <2>3. CASE result.length > size
    <3>1. reply = Message(result.rcode, size, size, TRUE, "own")
      BY <2>3 DEF Truncate
    <3>2. reply.length = size
      BY <3>1 DEF Message
    <3>3. CASE result.packs /\ ~(size > MaxDatagram)
      <4>1. ServeUDP(q, result) = reply
        BY <1>2, <3>2, <3>3 DEF ServeUDP, Routed, size
      <4>2. q.question = TRUE /\ (size <= MinMsgSize \/ size <= q.udpSize)
        BY <1>2, <2>1, <2>2, QueryFields
      <4>3. Answered("udp", q, result, Message(result.rcode, size, size, TRUE, "own"))
        BY <1>2, <4>2, CutAnswers
      <4> QED
        BY <3>1, <4>1, <4>3
    <3>4. CASE ~result.packs \/ size > MaxDatagram
      <4>1. ServeUDP(q, result) = Silence
        BY <1>2, <3>2, <3>4 DEF ServeUDP, Routed, size
      <4>2. ~result.packs \/ (result.length > MaxDatagram /\ q.udpSize > MaxDatagram)
        BY <2>1, <2>2, <2>3, <3>4, Limits
      <4> QED
        BY <1>2, <4>1, <4>2, Limits, NoMessage
    <3> QED
      BY <2>1, <3>3, <3>4
  <2>4. CASE ~(result.length > size)
    <3>1. reply = Message(result.rcode, result.length, result.length, FALSE, "own")
      BY <2>4 DEF Truncate, Whole
    <3>2. reply.length = result.length
      BY <3>1 DEF Message
    <3>3. CASE result.packs /\ ~(result.length > MaxDatagram)
      <4>1. ServeUDP(q, result) = reply
        BY <1>2, <3>2, <3>3 DEF ServeUDP, Routed, size
      <4>2. result.length <= MinMsgSize \/ result.length <= q.udpSize
        BY <2>1, <2>2, <2>4, Limits
      <4> QED
        BY <3>1, <4>1, <4>2, WholeAnswers
    <3>4. CASE ~result.packs \/ result.length > MaxDatagram
      <4>1. ServeUDP(q, result) = Silence
        BY <1>2, <3>2, <3>4 DEF ServeUDP, Routed, size
      <4>2. ~result.packs \/ (result.length > MaxDatagram /\ q.udpSize > MaxDatagram)
        BY <2>1, <2>2, <2>4, <3>4, Limits
      <4> QED
        BY <1>2, <4>1, <4>2, Limits, NoMessage
    <3> QED
      BY <2>1, <3>3, <3>4
  <2> QED
    BY <2>3, <2>4
<1> QED
  BY <1>1, <1>2

LEMMA TCPAnswers ==
    ASSUME NEW l \in {"tcp", "dot"}, NEW q \in Queries, NEW result \in RouteResults
    PROVE  Answered(l, q, result, ServeTCP(q, result))
<1>1. CASE ~q.question \/ result = Failed
  <2>1. ServeTCP(q, result) = Message("servfail", EmptyLength, EmptyLength, FALSE, "own")
    BY <1>1 DEF ServeTCP, ServFail, Routed
  <2> QED
    BY <1>1, <2>1, ErrorAnswers
<1>2. CASE q.question /\ result # Failed
  <2>1. result.length \in Nat /\ result.packs \in BOOLEAN
    BY <1>2, ResultFields
  <2>2. CASE ~result.packs \/ result.length > MaxDNSMessageSize
    <3>1. ServeTCP(q, result) = Silence
      BY <1>2, <2>2 DEF ServeTCP, Routed
    <3> QED
      BY <1>2, <2>2, <3>1, Limits, NoMessage
  <2>3. CASE result.packs /\ ~(result.length > MaxDNSMessageSize)
    <3>1. ServeTCP(q, result)
            = Message(result.rcode, result.length, result.length, FALSE, "own")
      BY <1>2, <2>3 DEF ServeTCP, Whole, Routed
    <3>2. result.length <= MaxDNSMessageSize
      BY <2>1, <2>3, Limits
    <3> QED
      BY <3>1, <3>2, WholeAnswers
  <2> QED
    BY <2>1, <2>2, <2>3, Limits
<1> QED
  BY <1>1, <1>2

LEMMA DoQAnswers ==
    ASSUME NEW q \in Queries, NEW result \in RouteResults
    PROVE  Answered("doq", q, result, HandleQuicStream(q, result))
<1>1. CASE ~q.question \/ (result # Failed /\ ~result.packs)
  <2>1. HandleQuicStream(q, result) = Silence
    BY <1>1 DEF HandleQuicStream, Routed
  <2> QED
    BY <1>1, <2>1, Limits, NoMessage
<1>2. CASE q.question /\ result = Failed
  <2>1. EmptyLength % TwoBytes = EmptyLength
    BY PrefixHolds, Limits
  <2>2. HandleQuicStream(q, result) = Message("servfail", EmptyLength, EmptyLength, FALSE, "zero")
    BY <1>2, <2>1 DEF HandleQuicStream, Routed, Prefixed
  <2> QED
    BY <1>2, <2>2, ErrorAnswers
<1>3. CASE q.question /\ result # Failed /\ result.packs
  <2>1. result.length \in Nat
    BY <1>3, ResultFields
  <2>2. CASE result.length > MaxDNSMessageSize
    <3>1. EmptyLength % TwoBytes = EmptyLength
      BY PrefixHolds, Limits
    <3>2. HandleQuicStream(q, result) = Message("noerror", EmptyLength, EmptyLength, TRUE, "zero")
      BY <1>3, <2>2, <3>1
      DEF HandleQuicStream, Routed, Prefixed
    <3>3. q.question = TRUE /\ EmptyLength <= MaxDNSMessageSize
      BY <1>3, QueryFields, Limits
    <3>4. Answered("doq", q, result, Message("noerror", EmptyLength, EmptyLength, TRUE, "zero"))
      BY <1>3, <3>3, CutAnswers
    <3> QED
      BY <3>2, <3>4
  <2>3. CASE ~(result.length > MaxDNSMessageSize)
    <3>1. result.length <= MaxDNSMessageSize /\ result.length % TwoBytes = result.length
      BY <2>1, <2>3, Limits, PrefixHolds
    <3>2. HandleQuicStream(q, result)
            = Message(result.rcode, result.length, result.length, FALSE, "zero")
      BY <1>3, <2>3, <3>1 DEF HandleQuicStream, Routed, Prefixed
    <3> QED
      BY <3>1, <3>2, WholeAnswers
  <2> QED
    BY <2>2, <2>3
<1>4. q.question \in BOOLEAN /\ (result # Failed => result.packs \in BOOLEAN)
  BY QueryFields, ResultFields
<1> QED
  BY <1>1, <1>2, <1>3, <1>4

LEMMA HTTPAnswers ==
    ASSUME NEW l \in {"h2", "h3"}, NEW q \in Queries, NEW result \in RouteResults
    PROVE  Answered(l, q, result, ServeHTTP(q, result))
<1>1. CASE ~q.question \/ (result # Failed /\ ~result.packs)
  <2>1. ServeHTTP(q, result) = HTTPError
    BY <1>1 DEF ServeHTTP, Routed
  <2> QED
    BY <1>1, <2>1, Limits, NoMessage
<1>2. CASE q.question /\ result = Failed
  <2>1. ServeHTTP(q, result) = Message("servfail", EmptyLength, EmptyLength, FALSE, "own")
    BY <1>2 DEF ServeHTTP, ServFail, Routed
  <2> QED
    BY <1>2, <2>1, ErrorAnswers
<1>3. CASE q.question /\ result # Failed /\ result.packs
  <2>1. ServeHTTP(q, result)
          = Message(result.rcode, result.length, result.length, FALSE, "own")
    BY <1>3 DEF ServeHTTP, Whole, Routed
  <2> QED
    BY <2>1, WholeAnswers
<1>4. q.question \in BOOLEAN /\ (result # Failed => result.packs \in BOOLEAN)
  BY QueryFields, ResultFields
<1> QED
  BY <1>1, <1>2, <1>3, <1>4

\* For responses of every length, and clients that advertise any size: what is
\* announced is what is written, it fits, it is the whole response or says that
\* it is not, and silence has one of the named reasons (dnsserver.go:87-126,
\* doqserver.go:189-227, dohserver.go:265-285).
THEOREM RepliesFitHolds == Spec => []RepliesFit
<1>1. ASSUME TypeOK, NEW r \in Requests, NEW q \in Queries, NEW result \in RouteResults,
             req[r].pc = "route"
      PROVE  Answered(req[r].on, q, result, ReplyOf(req[r].on, q, result))
  <2> DEFINE l == req[r].on
  <2>1. l \in {"udp", "tcp", "dot", "doq", "h2", "h3"}
    <3>1. req[r] \in Request /\ req[r].pc = "route"
      BY <1>1 DEF TypeOK
    <3> QED
      BY <3>1 DEF Request, Listeners
  <2> HIDE DEF l
  <2>2. CASE l = "udp"
    <3>1. ReplyOf("udp", q, result) = ServeUDP(q, result)
      BY Zenon DEF ReplyOf
    <3> QED
      BY <2>2, <3>1, UDPAnswers DEF l
  <2>3. CASE l \in {"tcp", "dot"}
    <3>1. ReplyOf(l, q, result) = ServeTCP(q, result)
      BY <2>3, Zenon DEF ReplyOf
    <3> QED
      BY <2>3, <3>1, TCPAnswers DEF l
  <2>4. CASE l = "doq"
    <3>1. ReplyOf("doq", q, result) = HandleQuicStream(q, result)
      BY Zenon DEF ReplyOf
    <3> QED
      BY <2>4, <3>1, DoQAnswers DEF l
  <2>5. CASE l \in {"h2", "h3"}
    <3>1. ReplyOf(l, q, result) = ServeHTTP(q, result)
      BY <2>5, Zenon DEF ReplyOf
    <3> QED
      BY <2>5, <3>1, HTTPAnswers DEF l
  <2> QED
    BY <2>1, <2>2, <2>3, <2>4, <2>5
<1>2. TypeOK => RepliesFit
    BY <1>1 DEF RepliesFit
<1> QED
    BY <1>2, TypeCorrect, PTL
=============================================================================
