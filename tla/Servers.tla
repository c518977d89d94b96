------------------------------- MODULE Servers -------------------------------
(***************************************************************************)
(* The servers (internal/server) and the goroutines that serve them, over  *)
(* the restarts that startInternal and stopInternal of the service manager *)
(* do with m.mu held.  A restart is a generation: it has servers of its    *)
(* own and a router of its own, and wants the same ports as the one        *)
(* before.                                                                 *)
(*                                                                         *)
(* A listener is named for its protocol: "udp" and "tcp" of the DNSServer, *)
(* "dot", "doq", "h2" and "h3" of the DoHServer, and "acme" for the HTTP   *)
(* server on port 80.  What the libraries promise is external: a           *)
(* dns.Server that has not begun to listen cannot be shut down, and its    *)
(* Shutdown waits for its handlers; an http.Server that is shut down       *)
(* before it serves never does; an http3.Server drops its connections on   *)
(* Close; a quic.Listener leaves them alone on Close, and whether it can   *)
(* give its socket back while one is open is not known.                    *)
(***************************************************************************)
EXTENDS Replies, FiniteSets

CONSTANTS Configs,     \* the listeners that a configuration may ask for
          Requests,    \* requests on their way at a time
          MaxStarts    \* bound: calls of startInternal

Listeners == {"acme", "udp", "tcp", "dot", "doq", "h2", "h3"}

\* A DoHServer has both of its servers, or is not started.
ASSUME ServersAssumption ==
    /\ Configs \subseteq SUBSET Listeners
    /\ \A on \in Configs : "h2" \in on <=> "h3" \in on
    /\ MaxStarts \in Nat \ {0}

VARIABLES gen,      \* calls of startInternal so far
          stage,    \* where stopInternal is, "running" or "stopped"
          late,     \* the five seconds of a Stop are over
          srv,      \* srv[g][l]: where the listener's goroutine is
          shut,     \* HTTP servers that were told to stop
          port,     \* port[l]: the generation that holds the port, or 0
          conns,    \* generations with an open DoQ connection
          acme,     \* m.ACMEServer: nil (0) or its generation
          req,      \* the requests
          cut,      \* history: listeners whose Stop did not do all its work
          crashed   \* a nil dereference ended the process

vars == <<gen, stage, late, srv, shut, port, conns, acme, req, cut, crashed>>

Gens == 1 .. MaxStarts

\* "bound": the socket is open, the server does not serve it yet; "closing":
\* told to stop; "failed": the port was taken.
GoroutineStates ==
    {"off", "starting", "bound", "serving", "closing", "closed", "failed"}

\* By the library that serves them, and what stopInternal goes through.
MiekgServers == {"udp", "tcp", "dot"}
HTTPServers  == {"acme", "h2", "h3"}
Stages == {"running", "acme", "udp", "tcp", "dot", "doq", "doqWait", "h2",
           "h2Wait", "h3", "dohWait", "router", "stopped"}

Idle == [pc |-> "idle"]
Request == [pc : {"idle"}] \cup
           [pc : {"route"}, gen : Gens, on : Listeners \ {"acme"}]

TypeOK ==
    /\ gen \in 0 .. MaxStarts /\ stage \in Stages /\ late \in BOOLEAN
    /\ srv \in [Gens -> [Listeners -> GoroutineStates]]
    /\ shut \subseteq Gens \X HTTPServers
    /\ port \in [Listeners -> 0 .. gen]
    /\ conns \subseteq 1 .. gen
    /\ acme \in 0 .. gen
    /\ req \in [Requests -> Request]
    /\ cut \subseteq Gens \X Listeners
    /\ crashed \in BOOLEAN

Init ==
    /\ gen = 0 /\ stage = "stopped" /\ late = FALSE
    /\ srv = [g \in Gens |-> [l \in Listeners |-> "off"]]
    /\ shut = {} /\ conns = {} /\ acme = 0 /\ cut = {} /\ crashed = FALSE
    /\ port = [l \in Listeners |-> 0]
    /\ req = [r \in Requests |-> Idle]

Becomes(g, l, s) == srv' = [srv EXCEPT ![g][l] = s]
Holds(g, l) == port[l] = g
Frees(g, l) == port' = IF Holds(g, l) THEN [port EXCEPT ![l] = 0] ELSE port

\* The router of generation g is closed.
RouterClosed(g) == g < gen \/ stage = "stopped"

\* Requests in the handler of a listener.
InHandler(g, l) ==
    {r \in Requests : req[r].pc = "route" /\ req[r].gen = g /\ req[r].on = l}

-----------------------------------------------------------------------------
(* startInternal: everything but DoQ comes up in a goroutine.               *)

\* DoQServer.Start listens itself, so that Stop finds the listener.
DoQListens(on) == "doq" \in on /\ port["doq"] = 0

StartServers(on) ==
    /\ stage = "stopped" /\ gen < MaxStarts
    /\ gen' = gen + 1 /\ stage' = "running"
    /\ LET g == gen + 1
           state(l) == IF l \notin on THEN "off"
                       ELSE IF l # "doq" THEN "starting"
                       ELSE IF DoQListens(on) THEN "serving" ELSE "failed"
       IN /\ srv' = [srv EXCEPT ![g] = [l \in Listeners |-> state(l)]]
          /\ port' = IF DoQListens(on)
                     THEN [port EXCEPT !["doq"] = g] ELSE port
          /\ acme' = IF "acme" \in on THEN g ELSE 0
    /\ UNCHANGED <<late, shut, conns, req, cut, crashed>>

-----------------------------------------------------------------------------
(* The goroutines of the listeners.                                        *)

Unchanged_Goroutine == UNCHANGED <<gen, stage, late, conns, acme, req, cut>>

\* dns.Server.ListenAndServe: it listens and has started in one step.
ServeMiekg(g, l) ==
    /\ l \in MiekgServers /\ srv[g][l] = "starting"
    /\ IF port[l] = 0 THEN Becomes(g, l, "serving") /\ port' = [port EXCEPT ![l] = g]
       ELSE Becomes(g, l, "failed") /\ UNCHANGED port
    /\ Unchanged_Goroutine /\ UNCHANGED <<shut, crashed>>

\* ListenAndServeTLS looks for a shutdown first, ListenUDP knows of none.
BindHTTP(g, l) ==
    /\ l \in {"h2", "h3"} /\ srv[g][l] = "starting"
    /\ IF l = "h2" /\ <<g, l>> \in shut THEN Becomes(g, l, "closed") /\ UNCHANGED port
       ELSE IF port[l] = 0
       THEN Becomes(g, l, "bound") /\ port' = [port EXCEPT ![l] = g]
       ELSE Becomes(g, l, "failed") /\ UNCHANGED port
    /\ Unchanged_Goroutine /\ UNCHANGED <<shut, crashed>>

\* The goroutine reads m.ACMEServer, which need not be the server it was made
\* for, without m.mu.  Generation g is that of the server it finds.
BindACME(g) ==
    /\ srv[g]["acme"] = "starting"
    /\ crashed' = (acme = 0)
    /\ IF acme # 0 /\ port["acme"] = 0
       THEN Becomes(g, "acme", "bound") /\ port' = [port EXCEPT !["acme"] = acme]
       ELSE Becomes(g, "acme", "failed") /\ UNCHANGED port
    /\ Unchanged_Goroutine /\ UNCHANGED shut

\* The server whose listener goroutine g of l serves.
ServerOf(g, l) == IF l = "acme" THEN port["acme"] ELSE g

\* Serve: a server that was shut down returns at once, and the socket is
\* closed on the way out.
ServeHTTPListener(g, l) ==
    /\ l \in HTTPServers /\ srv[g][l] = "bound"
    /\ IF <<ServerOf(g, l), l>> \in shut
       THEN Becomes(g, l, "closed") /\ port' = [port EXCEPT ![l] = 0]
       ELSE Becomes(g, l, "serving") /\ UNCHANGED port
    /\ Unchanged_Goroutine /\ UNCHANGED <<shut, crashed>>

\* Serve or Accept has returned: the goroutine ends, that of h3 closes its
\* socket before.
GoroutineEnds(g, l) ==
    /\ l \notin MiekgServers /\ srv[g][l] = "closing"
    /\ Becomes(g, l, "closed")
    /\ IF l = "h3" THEN Frees(g, l) ELSE UNCHANGED port
    /\ Unchanged_Goroutine /\ UNCHANGED <<shut, crashed>>

-----------------------------------------------------------------------------
(* Requests.                                                               *)

\* A listener hands a request to a handler.  A DoQ connection outlives its
\* listener.
Arrive(r, g, l) ==
    /\ req[r].pc = "idle" /\ l # "acme"
    /\ \/ srv[g][l] = "serving" /\ Holds(g, l)
       \/ l = "doq" /\ g \in conns
    /\ req' = [req EXCEPT ![r] = [pc |-> "route", gen |-> g, on |-> l]]
    /\ UNCHANGED <<gen, stage, late, srv, shut, port, conns, acme, cut, crashed>>

\* The reply of a listener's handler.
ReplyOf(l, q, result) ==
    CASE l = "udp"           -> ServeUDP(q, result)
      [] l \in {"tcp", "dot"} -> ServeTCP(q, result)
      [] l = "doq"           -> HandleQuicStream(q, result)
      [] l \in {"h2", "h3"}  -> ServeHTTP(q, result)

\* Route returns, at the latest when the ten seconds of its context are over,
\* and the handler ends with the reply to it.
Answer(r) ==
    /\ req[r].pc = "route"
    /\ req' = [req EXCEPT ![r] = Idle]
    /\ UNCHANGED <<gen, stage, late, srv, shut, port, conns, acme, cut, crashed>>

\* A client opens a DoQ connection and closes it, or it times out; the last
\* thing a closed listener waits for, if anything.
ConnOpens(g) ==
    /\ srv[g]["doq"] = "serving" /\ g \notin conns
    /\ conns' = conns \cup {g}
    /\ UNCHANGED <<gen, stage, late, srv, shut, port, acme, req, cut, crashed>>

ConnEnds(g) ==
    /\ g \in conns /\ InHandler(g, "doq") = {}
    /\ conns' = conns \ {g}
    /\ IF srv[g]["doq"] # "serving" THEN Frees(g, "doq") ELSE UNCHANGED port
    /\ UNCHANGED <<gen, stage, late, srv, shut, acme, req, cut, crashed>>

-----------------------------------------------------------------------------
(* stopInternal, one server after the other.                               *)

Unchanged_Stop == UNCHANGED <<gen, conns, req, crashed>>

\* The stage after the one of a listener that is done with.
After(l) ==
    CASE l = "acme" -> "udp" [] l = "udp" -> "tcp" [] l = "tcp" -> "dot"
      [] l = "dot"  -> "doq" [] l = "doq" -> "h2"

BeginStop ==
    /\ stage = "running"
    /\ stage' = "acme"
    /\ Unchanged_Stop /\ UNCHANGED <<late, srv, shut, port, acme, cut>>

\* ACMEServer.Shutdown, and m.ACMEServer = nil.
StopACME ==
    /\ stage = "acme"
    /\ LET serving == {g \in Gens : srv[g]["acme"] = "serving"}
       IN /\ srv' = [g \in Gens |-> IF g \in serving
                        THEN [srv[g] EXCEPT !["acme"] = "closing"] ELSE srv[g]]
          /\ port' = IF serving # {} THEN [port EXCEPT !["acme"] = 0] ELSE port
          /\ cut' = IF Holds(gen, "acme") /\ serving = {}
                    THEN cut \cup {<<gen, "acme">>} ELSE cut
    /\ shut' = IF acme # 0 THEN shut \cup {<<acme, "acme">>} ELSE shut
    /\ acme' = 0
    /\ stage' = After("acme")
    /\ Unchanged_Stop /\ UNCHANGED late

\* Mutant: DNSServer.Stop returns when UDP cannot be shut down.
Shutdown_FirstError(l) ==
    /\ l \in MiekgServers /\ stage = l /\ srv[gen][l] # "closing"
    /\ IF srv[gen][l] = "serving"
       THEN Becomes(gen, l, "closing") /\ Frees(gen, l) /\ UNCHANGED <<stage, cut>>
       ELSE /\ stage' = IF l = "udp" THEN "dot" ELSE After(l)
            /\ cut' = IF srv[gen][l] = "starting" THEN cut \cup {<<gen, l>>} ELSE cut
            /\ UNCHANGED <<srv, port>>
    /\ Unchanged_Stop /\ UNCHANGED <<late, shut, acme>>

\* dns.Server.Shutdown: an error if the server has not started, be it that
\* its goroutine is not that far; else the socket is closed and the handlers
\* are waited for.
Shutdown(l) ==
    /\ l \in MiekgServers /\ stage = l /\ srv[gen][l] # "closing"
    /\ IF srv[gen][l] = "serving"
       THEN Becomes(gen, l, "closing") /\ Frees(gen, l) /\ UNCHANGED <<stage, cut>>
       ELSE /\ stage' = After(l)
            /\ cut' = IF srv[gen][l] = "starting" THEN cut \cup {<<gen, l>>} ELSE cut
            /\ UNCHANGED <<srv, port>>
    /\ Unchanged_Stop /\ UNCHANGED <<late, shut, acme>>

HandlersDone(l) ==
    /\ l \in MiekgServers /\ stage = l /\ srv[gen][l] = "closing"
    /\ InHandler(gen, l) = {}
    /\ Becomes(gen, l, "closed") /\ stage' = After(l)
    /\ Unchanged_Stop /\ UNCHANGED <<late, shut, port, acme, cut>>

\* DoQServer.Stop closes the listener Start has made.  The socket is free
\* unless a connection keeps it open.
StopDoQ ==
    /\ stage = "doq"
    /\ IF srv[gen]["doq"] = "serving"
       THEN /\ Becomes(gen, "doq", "closing") /\ stage' = "doqWait"
            /\ \/ Frees(gen, "doq") /\ UNCHANGED cut
               \/ gen \in conns /\ cut' = cut \cup {<<gen, "doq">>} /\ UNCHANGED port
       ELSE stage' = After("doq") /\ UNCHANGED <<srv, port, cut>>
    /\ Unchanged_Stop /\ UNCHANGED <<late, shut, acme>>

\* Mutant: the connections are in the wait group, and there is no timeout.
DoQStopped_AwaitsConns ==
    /\ stage = "doqWait"
    /\ srv[gen]["doq"] # "closing" /\ gen \notin conns
    /\ stage' = After("doq") /\ late' = FALSE
    /\ Unchanged_Stop /\ UNCHANGED <<srv, shut, port, acme, cut>>

\* The accept loop has ended, or five seconds are over.
DoQStopped ==
    /\ stage = "doqWait"
    /\ srv[gen]["doq"] # "closing" \/ late
    /\ stage' = After("doq") /\ late' = FALSE
    /\ Unchanged_Stop /\ UNCHANGED <<srv, shut, port, acme, cut>>

\* DoHServer.Stop: http2Server.Shutdown closes the listeners it serves ...
StopH2 ==
    /\ stage = "h2"
    /\ IF srv[gen]["h2"] = "off"
       THEN stage' = "router" /\ UNCHANGED <<srv, port, shut>>
       ELSE /\ stage' = "h2Wait" /\ shut' = shut \cup {<<gen, "h2">>}
            /\ IF srv[gen]["h2"] = "serving"
               THEN Becomes(gen, "h2", "closing") /\ Frees(gen, "h2")
               ELSE UNCHANGED <<srv, port>>
    /\ Unchanged_Stop /\ UNCHANGED <<late, acme, cut>>

\* Mutant: http2Server.Close, which waits for nobody.
H2Stopped_AtOnce ==
    /\ stage = "h2Wait"
    /\ stage' = "h3"
    /\ Unchanged_Stop /\ UNCHANGED <<late, srv, shut, port, acme, cut>>

\* ... and waits for its handlers as long as the context lasts.
H2Stopped ==
    /\ stage = "h2Wait"
    /\ InHandler(gen, "h2") = {} \/ late
    /\ stage' = "h3"
    /\ cut' = IF InHandler(gen, "h2") = {} THEN cut ELSE cut \cup {<<gen, "h2">>}
    /\ Unchanged_Stop /\ UNCHANGED <<late, srv, shut, port, acme>>

StopH3 ==
    /\ stage = "h3"
    /\ stage' = "dohWait" /\ shut' = shut \cup {<<gen, "h3">>}
    /\ IF srv[gen]["h3"] = "serving" THEN Becomes(gen, "h3", "closing") ELSE UNCHANGED srv
    /\ Unchanged_Stop /\ UNCHANGED <<late, port, acme, cut>>

\* Mutant: the wait group counts the goroutine of HTTP/2 only.
DoHGoroutines_H2 == {"h2"}

\* The goroutines in the wait group of the DoHServer.
DoHGoroutines == {"h2", "h3"}

AtWork(l) == srv[gen][l] \in {"starting", "bound", "serving", "closing"}

\* The goroutines have returned, or the context, of which the shutdown of
\* http2Server has had its part, is over.
DoHStopped ==
    /\ stage = "dohWait"
    /\ \/ \A l \in DoHGoroutines : ~AtWork(l)
       \/ late
    /\ stage' = "router" /\ late' = FALSE
    /\ cut' = IF late THEN cut \cup {<<gen, l>> : l \in {m \in {"h2", "h3"} : AtWork(m)}}
              ELSE cut
    /\ Unchanged_Stop /\ UNCHANGED <<srv, shut, port, acme>>

\* Five seconds after the Stop of DoQ or DoH began to wait.
FiveSeconds ==
    /\ stage \in {"doqWait", "h2Wait", "dohWait"} /\ ~late
    /\ late' = TRUE
    /\ UNCHANGED <<gen, stage, srv, shut, port, conns, acme, req, cut, crashed>>

\* Router.Close and QueryLog.Close.
CloseRouter ==
    /\ stage = "router"
    /\ stage' = "stopped"
    /\ Unchanged_Stop /\ UNCHANGED <<late, srv, shut, port, acme, cut>>

-----------------------------------------------------------------------------
StopStep ==
    \/ StopACME \/ StopDoQ \/ DoQStopped \/ StopH2 \/ H2Stopped \/ StopH3
    \/ DoHStopped \/ CloseRouter
    \/ \E l \in MiekgServers : Shutdown(l) \/ HandlersDone(l)

ListenerStep(g, l) ==
    \/ ServeMiekg(g, l) \/ BindHTTP(g, l) \/ ServeHTTPListener(g, l)
    \/ GoroutineEnds(g, l)
    \/ l = "acme" /\ BindACME(g)

Next ==
    /\ ~crashed
    /\ \/ \E on \in Configs : StartServers(on)
       \/ BeginStop \/ StopStep \/ FiveSeconds
       \/ \E g \in Gens : \/ ConnOpens(g) \/ ConnEnds(g)
                          \/ \E l \in Listeners : ListenerStep(g, l)
       \/ \E r \in Requests : \/ Answer(r)
                              \/ \E g \in Gens, l \in Listeners :
                                    Arrive(r, g, l)

Spec == Init /\ [][Next]_vars

\* Goroutines that can run do, Route returns, timers fire.  Nobody is made to
\* restart or to stop the servers, or to close a DoQ connection.
Fairness ==
    /\ WF_vars(~crashed /\ StopStep) /\ WF_vars(~crashed /\ FiveSeconds)
    /\ WF_vars(~crashed /\ \E g \in Gens, l \in Listeners : ListenerStep(g, l))
    /\ \A r \in Requests : WF_vars(~crashed /\ Answer(r))

FairSpec == Spec /\ Fairness

-----------------------------------------------------------------------------
(* Properties.                                                             *)

\* A generation that was stopped holds no port that the next one needs, except
\* where the code could not know better: the dns.Server had not begun to
\* listen, a wait timed out, a connection kept the socket open
\* (dnsserver.go:66-81, doqserver.go:104-124, dohserver.go:152-180).
PortsReleased ==
    \A l \in Listeners :
        port[l] # 0 /\ RouterClosed(port[l]) => <<port[l], l>> \in cut

\* Generations are started one after the other, a DoHServer as a whole.
Numbered ==
    /\ stage # "stopped" => gen \in Gens
    /\ \A g \in Gens, l \in Listeners : g > gen => srv[g][l] = "off"
    /\ \A g \in Gens : srv[g]["h2"] = "off" <=> srv[g]["h3"] = "off"
    /\ \A g \in Gens, l \in Listeners : srv[g][l] = "bound" => l \in HTTPServers

\* m.ACMEServer is not nil only until its Stop.
ACMERuns == acme # 0 => acme = gen /\ stage \in {"running", "acme"}

\* Who holds a port serves it, or is about to begin or to end.
PortServed ==
    \A g \in Gens, l \in Listeners \ {"acme"} : Holds(g, l) =>
        \/ srv[g][l] = "serving"
        \/ l \in {"h2", "h3"} /\ srv[g][l] = "bound"
        \/ l = "h3" /\ srv[g][l] = "closing"
        \/ l = "doq" /\ <<g, l>> \in cut

\* Handlers are there only once the listener has served.
HandlersServed ==
    \A g \in Gens :
        /\ \A l \in MiekgServers :
              InHandler(g, l) # {} => srv[g][l] \in {"serving", "closing"}
        /\ InHandler(g, "h2") # {} => srv[g]["h2"] \notin {"off", "starting", "bound"}

\* The server of HTTP/2 that was told to stop does not serve anymore, even if
\* its goroutine is late, and after its wait it has no handlers.
H2Told ==
    /\ stage \in {"h2Wait", "h3", "dohWait"} =>
          <<gen, "h2">> \in shut /\ srv[gen]["h2"] # "serving"
    /\ stage \in {"h3", "dohWait"} =>
          InHandler(gen, "h2") = {} \/ <<gen, "h2">> \in cut

\* The stages at which the Stop of a listener is not over yet.
Pending ==
    LET upTo(l) == CASE l = "acme" -> {"running", "acme"}
                     [] l = "udp"  -> {"running", "acme", "udp"}
                     [] l = "tcp"  -> {"running", "acme", "udp", "tcp"}
                     [] l = "dot"  -> {"running", "acme", "udp", "tcp", "dot"}
                     [] l = "doq"  -> {"running", "acme", "udp", "tcp", "dot", "doq"}
                     [] l \in {"h2", "h3"} -> Stages \ {"router", "stopped"}
    IN [l \in Listeners |-> upTo(l)]

StopOver(g, l) == 1 <= g /\ (g < gen \/ (g = gen /\ stage \notin Pending[l]))

\* What a Stop that did all its work leaves behind: an ACME server without its
\* port, a DoQ server that does not listen, and of the others a goroutine that
\* has ended and no handlers.
Stopped(g, l) == StopOver(g, l) /\ <<g, l>> \notin cut

StopDone ==
    \A g \in Gens :
        /\ Stopped(g, "acme") => ~Holds(g, "acme")
        /\ Stopped(g, "doq") => srv[g]["doq"] # "serving"
        /\ \A l \in MiekgServers \cup {"h2", "h3"} :
              Stopped(g, l) => srv[g][l] \in {"off", "closed", "failed"}
        /\ \A l \in MiekgServers \cup {"h2"} :
              Stopped(g, l) => InHandler(g, l) = {}

\* The invariant that implies the safety properties, and is inductive.
PortInv ==
    /\ TypeOK /\ PortsReleased /\ Numbered /\ ACMERuns /\ PortServed
    /\ HandlersServed /\ H2Told /\ StopDone

\* No DNS, DoT or HTTP/2 request is with a handler whose router is closed:
\* the servers are stopped before the router, and their Stop waits
\* (manager.go:392-425).  DoQ and HTTP/3 handlers are not waited for.
HandlersBeforeRouter ==
    \A r \in Requests :
        req[r].pc = "route" /\ RouterClosed(req[r].gen)
        /\ req[r].on \in {"udp", "tcp", "dot", "h2"}
            => <<req[r].gen, req[r].on>> \in cut

\* What a request gets from listener l (dnsserver.go:87-126, doqserver.go:189-227,
\* dohserver.go:265-285).
Answered(l, q, result, reply) ==
    /\ reply.kind = "message" =>
         \* Its length is the one that precedes it, also in the two bytes of a
         \* prefix, and fits the transport; HTTP has no limit of its own.
         /\ reply.announced = reply.length
         /\ l = "udp" => reply.length <= MinMsgSize \/ reply.length <= q.udpSize
         /\ l \in {"tcp", "dot", "doq"} => reply.length <= MaxDNSMessageSize
         \* It is what Route returned, or says that it is cut or an error.
         /\ \/ reply.rcode = "servfail" /\ (result = Failed \/ ~q.question)
            \/ /\ reply.tc /\ q.question /\ result # Failed
               /\ reply.rcode = result.rcode \/ l = "doq"
            \/ reply.length = result.length /\ reply.rcode = result.rcode
         \* RFC 9250 wants the ID zero, everyone else that of the request.
         /\ reply.id = "zero" <=> l = "doq"
    \* A request that was routed gets a message, but for what cannot be packed,
    \* or is too long for TCP and TLS, or for one packet.
    /\ q.question /\ reply.kind # "message" =>
         \/ result # Failed /\ ~result.packs
         \/ l \in {"tcp", "dot"} /\ result.length > MaxDNSMessageSize
         \/ l = "udp" /\ result.length > MaxDatagram /\ q.udpSize > MaxDatagram

\* Whatever listener a request is with, and whatever Route returns for it, the
\* client can read the reply, is not told a part for the whole, and is left
\* without one for the named reasons only (doqserver.go:205-220).
RepliesFit ==
    \A r \in Requests, q \in Queries, result \in RouteResults :
        req[r].pc = "route" =>
            Answered(req[r].on, q, result, ReplyOf(req[r].on, q, result))

\* Every listener of the running configuration has its port, but for those
\* that an earlier generation may have held it against.
AllUp ==
    \A g \in Gens, l \in Listeners : g = gen /\ srv[g][l] # "off" =>
        Holds(g, l) \/ \E h \in 1 .. g - 1 : <<h, l>> \in cut

\* Servers that are left to run come up, all of them, also after a restart
\* (manager.go:343-376).
ListenersComeUp == <>[](stage = "running" /\ ~crashed) => <>[]AllUp

\* stopInternal returns, whatever the listeners and their handlers do; the
\* manager's lock is free again.
StopReturns == stage = "acme" ~> stage = "stopped" \/ crashed

\* dnsserver.go:67-68: a listener that is not shut down keeps the port, and a
\* later reload cannot bind it again; Stop is there to prevent that.
StopFreesPort ==
    \A l \in MiekgServers : ~(port[l] # 0 /\ RouterClosed(port[l]))

\* manager.go:72-73: reading the fields without the lock races with Reload and
\* dereferences nil; nothing does.
NoNilServer == ~crashed
=============================================================================
