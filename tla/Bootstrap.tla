----------------------------- MODULE Bootstrap ------------------------------
(***************************************************************************)
(* The Bootstrapper (internal/resolver/bootstrap.go): it resolves the host *)
(* names of the upstreams themselves.  Concurrent LookupIP calls for one   *)
(* host share one flight; the flight runs in a goroutine of its own, with  *)
(* a context detached from the caller that began it; results are cached,   *)
(* and an expired entry may serve as a fallback for a grace period.        *)
(*                                                                         *)
(* One action per atomic step: a load, a LoadOrStore, a select, a store.   *)
(* Nothing holds a lock across two of them.  Literal IP addresses, which   *)
(* LookupIP returns as they are, touch no state and are left out.          *)
(***************************************************************************)
EXTENDS Naturals, FiniteSets

CONSTANTS Hosts, Callers,
          NServers,        \* configured bootstrap servers, 0: the system's
          CacheTTL,        \* cacheTTL, 5 min
          StaleTTL,        \* staleTTL, 1 h
          AttemptTimeout,  \* what one server may take, 4 s
          LookupTimeout,   \* what a flight may take, 15 s
          MaxTime,         \* bound: ticks of the cache's clock
          MaxLookups       \* bound: calls of LookupIP

ASSUME BootstrapAssumption ==
    /\ Hosts # {} /\ NServers \in Nat
    /\ CacheTTL \in Nat \ {0} /\ StaleTTL \in Nat
    /\ AttemptTimeout \in Nat \ {0} /\ LookupTimeout \in Nat \ {0}
    /\ MaxTime \in Nat /\ MaxLookups \in Nat

VARIABLES now,       \* time.Now(), in the unit of the two TTLs
          cache,     \* cache[h]: expiry and the flight that stored it
          pending,   \* pending[h]: the registered flight, or NoFlight
          flight,    \* flight[f]: the state of a flight's goroutine
          counter,   \* the round-robin counter over the servers
          lookups,   \* calls of LookupIP so far
          caller     \* caller[c]: the state of a caller's goroutine

vars == <<now, cache, pending, flight, counter, lookups, caller>>

Flights  == 1 .. MaxLookups
NoFlight == 0
NoEntry  == [expiry |-> 0, by |-> NoFlight]
NTries   == IF NServers = 0 THEN 1 ELSE NServers
Servers  == 0 .. NTries - 1
AnyHost  == CHOOSE h \in Hosts : TRUE

Entries == [expiry : Nat, by : Flights \cup {NoFlight}]

FlightStates ==
    [host  : Hosts,
     phase : {"unused", "begin", "resolve", "close", "unregister", "gone"},
     start : Nat,              \* startIdx
     tries : 0 .. NTries,      \* the loop's i
     asked : SUBSET Servers,
     spent : Nat,              \* seconds of LookupTimeout used up
     res   : {"none", "ip", "err"}]

\* pc: where the caller is in LookupIP; out: how its last call ended.
CallerStates ==
    [pc    : {"idle", "join", "wait", "failed"},
     host  : Hosts,
     stale : Entries,
     fl    : Flights \cup {NoFlight},
     ctx   : BOOLEAN,          \* its context has ended
     out   : {"none", "ok", "stale", "error"}]

TypeOK ==
    /\ now \in Nat
    /\ cache \in [Hosts -> Entries]
    /\ pending \in [Hosts -> Flights \cup {NoFlight}]
    /\ flight \in [Flights -> FlightStates]
    /\ counter \in Nat
    /\ lookups \in 0 .. MaxLookups
    /\ caller \in [Callers -> CallerStates]

Init ==
    /\ now = 0
    /\ cache = [h \in Hosts |-> NoEntry]
    /\ pending = [h \in Hosts |-> NoFlight]
    /\ flight = [f \in Flights |->
         [host |-> AnyHost, phase |-> "unused", start |-> 0, tries |-> 0,
          asked |-> {}, spent |-> 0, res |-> "none"]]
    /\ counter = 0
    /\ lookups = 0
    /\ caller = [c \in Callers |->
         [pc |-> "idle", host |-> AnyHost, stale |-> NoEntry, fl |-> NoFlight,
          ctx |-> FALSE, out |-> "none"]]

-----------------------------------------------------------------------------
(* LookupIP and lookupOnce, in the caller's goroutine.                     *)

At(c, pc) == caller[c].pc = pc

\* A call returns an address: its locals are gone.
Succeed(c) ==
    caller' = [caller EXCEPT ![c] =
         [pc |-> "idle", host |-> AnyHost, stale |-> NoEntry, fl |-> NoFlight,
          ctx |-> FALSE, out |-> "ok"]]

\* It returns after lookupOnce failed; the flight and the context are kept
\* for the properties.
EndFailed(c, o) ==
    caller' = [caller EXCEPT ![c].pc = "idle", ![c].stale = NoEntry,
                             ![c].out = o]

\* The cache has an entry that has not expired.
Hit(c, h) ==
    /\ At(c, "idle") /\ lookups < MaxLookups
    /\ now < cache[h].expiry
    /\ lookups' = lookups + 1
    /\ Succeed(c)
    /\ UNCHANGED <<now, cache, pending, flight, counter>>

\* It has none, or an expired one, which the call remembers.
Miss(c, h) ==
    /\ At(c, "idle") /\ lookups < MaxLookups
    /\ now >= cache[h].expiry
    /\ lookups' = lookups + 1
    /\ caller' = [caller EXCEPT ![c] =
         [pc |-> "join", host |-> h, stale |-> cache[h], fl |-> NoFlight,
          ctx |-> FALSE, out |-> "none"]]
    /\ UNCHANGED <<now, cache, pending, flight, counter>>

\* pending.LoadOrStore stored: the caller leads, and starts the goroutine.
Lead(c, f) ==
    LET h == caller[c].host IN
    /\ At(c, "join")
    /\ pending[h] = NoFlight
    /\ flight[f].phase = "unused"
    /\ \A g \in 1 .. f - 1 : flight[g].phase # "unused"
    /\ pending' = [pending EXCEPT ![h] = f]
    /\ flight' = [flight EXCEPT ![f].host = h, ![f].phase = "begin"]
    /\ caller' = [caller EXCEPT ![c].pc = "wait", ![c].fl = f]
    /\ UNCHANGED <<now, cache, counter, lookups>>

\* pending.LoadOrStore loaded: the caller waits for that flight.
Follow(c) ==
    LET h == caller[c].host IN
    /\ At(c, "join")
    /\ pending[h] # NoFlight
    /\ caller' = [caller EXCEPT ![c].pc = "wait", ![c].fl = pending[h]]
    /\ UNCHANGED <<now, cache, pending, flight, counter, lookups>>

\* close(fl.done) has run.
Closed(f) == flight[f].phase \in {"unregister", "gone"}

\* select took <-done.
Receive(c) ==
    /\ At(c, "wait") /\ Closed(caller[c].fl)
    /\ IF flight[caller[c].fl].res = "ip"
       THEN Succeed(c)
       ELSE caller' = [caller EXCEPT ![c].pc = "failed"]
    /\ UNCHANGED <<now, cache, pending, flight, counter, lookups>>

\* Mutant: a caller that gives up takes the flight off the pending map.
Abandon_Unregisters(c) ==
    /\ At(c, "wait") /\ caller[c].ctx
    /\ caller' = [caller EXCEPT ![c].pc = "failed"]
    /\ pending' = [pending EXCEPT ![caller[c].host] = NoFlight]
    /\ UNCHANGED <<now, cache, flight, counter, lookups>>

\* select took <-ctx.Done().
Abandon(c) ==
    /\ At(c, "wait") /\ caller[c].ctx
    /\ caller' = [caller EXCEPT ![c].pc = "failed"]
    /\ UNCHANGED <<now, cache, pending, flight, counter, lookups>>

InGrace(e) == e # NoEntry /\ now < e.expiry + StaleTTL

\* lookupOnce returned an error: fall back on the expired entry.
UseStale(c) ==
    /\ At(c, "failed") /\ InGrace(caller[c].stale)
    /\ EndFailed(c, "stale")
    /\ UNCHANGED <<now, cache, pending, flight, counter, lookups>>

\* No entry to fall back on: whatever the cache now holds is deleted.
Fail(c) ==
    /\ At(c, "failed") /\ ~InGrace(caller[c].stale)
    /\ cache' = [cache EXCEPT ![caller[c].host] = NoEntry]
    /\ EndFailed(c, "error")
    /\ UNCHANGED <<now, pending, flight, counter, lookups>>

-----------------------------------------------------------------------------
(* The goroutine of a flight: resolveHost, then the deferred calls.        *)

In(f, phase) == flight[f].phase = phase

\* lookupWithRetry takes its start index; the system's resolver needs none.
Begin(f) ==
    /\ In(f, "begin")
    /\ counter' = IF NServers = 0 THEN counter ELSE counter + 1
    /\ flight' = [flight EXCEPT ![f].phase = "resolve", ![f].start = counter']
    /\ UNCHANGED <<now, cache, pending, lookups, caller>>

\* Mutant: the flight inherits the context of the caller that leads it.
LookupCtxDone_Inherited(f) ==
    \E c \in Callers : caller[c].fl = f /\ caller[c].ctx

\* lookupCtx has ended: it is detached from the caller and has a timeout.
LookupCtxDone(f) == flight[f].spent >= LookupTimeout

\* Mutant: the servers are tried over and over until the time is up.
Trying_Unbounded(f) == In(f, "resolve") /\ ~LookupCtxDone(f)

Trying(f) ==
    In(f, "resolve") /\ flight[f].tries < NTries /\ ~LookupCtxDone(f)

Target(f) == (flight[f].start + flight[f].tries) % NTries

\* A server answers with an address, which is cached before anybody hears.
Resolved(f) ==
    /\ Trying(f)
    /\ flight' = [flight EXCEPT ![f].phase = "close", ![f].res = "ip"]
    /\ cache' = [cache EXCEPT ![flight[f].host] =
         [expiry |-> now + CacheTTL, by |-> f]]
    /\ UNCHANGED <<now, pending, counter, lookups, caller>>

\* A server fails or has no address, after some time: the next one is tried.
TryFails(f, time) ==
    /\ Trying(f)
    /\ flight' = [flight EXCEPT ![f].tries = @ + 1,
                                ![f].asked = @ \cup {Target(f)},
                                ![f].spent = @ + time]
    /\ UNCHANGED <<now, cache, pending, counter, lookups, caller>>

\* All servers were tried, or lookupCtx ended and fails the rest of the tries.
Unresolved(f) ==
    /\ In(f, "resolve")
    /\ flight[f].tries = NTries \/ LookupCtxDone(f)
    /\ flight' = [flight EXCEPT ![f].phase = "close", ![f].res = "err"]
    /\ UNCHANGED <<now, cache, pending, counter, lookups, caller>>

\* Mutant: done is closed on success only.
Close_OnSuccess(f) ==
    /\ In(f, "close") /\ flight[f].res = "ip"
    /\ flight' = [flight EXCEPT ![f].phase = "unregister"]
    /\ UNCHANGED <<now, cache, pending, counter, lookups, caller>>

\* defer close(fl.done)
Close(f) ==
    /\ In(f, "close")
    /\ flight' = [flight EXCEPT ![f].phase = "unregister"]
    /\ UNCHANGED <<now, cache, pending, counter, lookups, caller>>

\* Mutant: a failed flight stays registered.
Unregister_OnSuccess(f) ==
    /\ In(f, "unregister")
    /\ pending' = IF flight[f].res = "ip"
                  THEN [pending EXCEPT ![flight[f].host] = NoFlight]
                  ELSE pending
    /\ flight' = [flight EXCEPT ![f].phase = "gone"]
    /\ UNCHANGED <<now, cache, counter, lookups, caller>>

\* defer b.pending.Delete(host)
Unregister(f) ==
    /\ In(f, "unregister")
    /\ pending' = [pending EXCEPT ![flight[f].host] = NoFlight]
    /\ flight' = [flight EXCEPT ![f].phase = "gone"]
    /\ UNCHANGED <<now, cache, counter, lookups, caller>>

-----------------------------------------------------------------------------
(* Time and contexts.                                                      *)

CtxEnds(c) ==
    /\ ~At(c, "idle") /\ ~caller[c].ctx
    /\ caller' = [caller EXCEPT ![c].ctx = TRUE]
    /\ UNCHANGED <<now, cache, pending, flight, counter, lookups>>

Tick ==
    /\ now < MaxTime
    /\ now' = now + 1
    /\ UNCHANGED <<cache, pending, flight, counter, lookups, caller>>

-----------------------------------------------------------------------------
CallerStep(c) ==
    \/ \E f \in Flights : Lead(c, f)
    \/ Follow(c) \/ Receive(c) \/ Abandon(c) \/ UseStale(c) \/ Fail(c)

FlightStep(f) ==
    \/ Begin(f) \/ Resolved(f) \/ Unresolved(f) \/ Close(f) \/ Unregister(f)
    \/ \E time \in 0 .. AttemptTimeout : TryFails(f, time)

Next ==
    \/ \E c \in Callers : CallerStep(c) \/ CtxEnds(c)
    \/ \E c \in Callers, h \in Hosts : Hit(c, h) \/ Miss(c, h)
    \/ \E f \in Flights : FlightStep(f)
    \/ Tick

Spec == Init /\ [][Next]_vars

\* Goroutines are scheduled (a flight takes a bounded number of steps, so one
\* condition does for all of them) and every attempt ends within its timeout; that a
\* caller's context ever ends, or that a server ever answers, is not assumed.
Fairness ==
    /\ \A c \in Callers : WF_vars(CallerStep(c))
    /\ WF_vars(\E f \in Flights : FlightStep(f))

FairSpec == Spec /\ Fairness

-----------------------------------------------------------------------------
(* Properties.                                                             *)

Working(f) == flight[f].phase \notin {"unused", "gone"}

\* Concurrent lookups of one host share a flight (bootstrap.go:133-137): no
\* host has two, whoever cancels, fails or finishes in between.
SingleFlight ==
    \A f, g \in Flights :
        Working(f) /\ Working(g) /\ flight[f].host = flight[g].host => f = g

\* The flight of a caller has asked every server, or had no time left for it.
AskedAll(f) ==
    flight[f].asked = Servers \/ flight[f].spent >= LookupTimeout

\* A call fails, or falls back on an old address, only for a reason of its own
\* (bootstrap.go:149-151, 185-216): its own context ended, or the shared
\* flight really asked every server.  The cancellation of another caller, the
\* leader included, is never the reason.
ErrorIsEarned ==
    \A c \in Callers :
        caller[c].out \in {"error", "stale"} =>
            caller[c].ctx \/ AskedAll(caller[c].fl)

\* The address of an older flight never replaces that of a newer one in the
\* cache (bootstrap.go:136-163).
NewerEntryKept ==
    [][\A h \in Hosts : cache'[h] # NoEntry => cache'[h].by >= cache[h].by]_vars

\* Flights are begun in the order of their numbers.
InOrder ==
    \A f, g \in Flights : f < g /\ flight[g].phase # "unused"
                              => flight[f].phase # "unused"

\* The pending map holds the flights that are at work, and nothing else.
Registered ==
    /\ \A f \in Flights : Working(f) => pending[flight[f].host] = f
    /\ \A h \in Hosts : pending[h] # NoFlight =>
           Working(pending[h]) /\ flight[pending[h]].host = h

\* No entry of the cache is newer than a flight that may still replace it.
CacheBehind ==
    \A f \in Flights :
        /\ flight[f].phase = "unused" => \A h \in Hosts : cache[h].by < f
        /\ Working(f) => cache[flight[f].host].by <= f

\* A flight asks the servers in turn, and fails after the last one.
AsksInTurn ==
    \A f \in Flights :
        /\ flight[f].asked =
               {(flight[f].start + i) % NTries : i \in 0 .. flight[f].tries - 1}
        /\ flight[f].res = "err" => AskedAll(f)
        /\ flight[f].phase \in {"unused", "begin"} => flight[f].tries = 0
        /\ flight[f].phase \in {"unused", "begin", "resolve"} =>
               flight[f].res = "none"
        /\ Closed(f) \/ In(f, "close") => flight[f].res # "none"

\* What the flight of a caller has done by the time the caller relies on it.
CallersKnow ==
    \A c \in Callers :
        /\ caller[c].pc = "wait" =>
               caller[c].fl # NoFlight /\ flight[caller[c].fl].phase # "unused"
        /\ caller[c].pc # "idle" => caller[c].out \notin {"error", "stale"}
        /\ caller[c].pc = "failed" \/ caller[c].out \in {"error", "stale"} =>
               caller[c].ctx \/ (caller[c].fl # NoFlight /\
                                  flight[caller[c].fl].res = "err")

\* The invariant that implies the safety properties, and is inductive.
FlightInv ==
    TypeOK /\ InOrder /\ Registered /\ CacheBehind /\ AsksInTurn /\ CallersKnow

\* Every call returns, whatever the servers do (bootstrap.go:140-171).
EveryLookupReturns ==
    \A c \in Callers : ~At(c, "idle") ~> At(c, "idle")

\* A flight leaves the pending map (bootstrap.go:154): a finished one must not
\* answer the lookups of later callers for ever.
PendingDrains ==
    \A h \in Hosts : pending[h] # NoFlight ~> pending[h] = NoFlight

\* bootstrap.go:42-44 and 109: expired entries are kept as a fallback for the
\* grace period, so no entry leaves the cache before the period is over.
EntryKeptForGrace ==
    [][\A h \in Hosts :
         cache[h] # NoEntry /\ cache'[h] = NoEntry => ~InGrace(cache[h])]_vars
=============================================================================
