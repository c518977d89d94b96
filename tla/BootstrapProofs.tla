-------------------------- MODULE BootstrapProofs ---------------------------
(***************************************************************************)
(* Proofs about Bootstrap, for any number of hosts, callers, servers and   *)
(* lookups.  FlightInv is inductive; SingleFlight, ErrorIsEarned and       *)
(* NewerEntryKept follow from it.  One lemma per conjunct of FlightInv     *)
(* says that every step preserves it.  The last part proves what is safety *)
(* in the liveness properties: the steps of a flight are counted, and the  *)
(* flight of a waiting caller can go on.                                   *)
(***************************************************************************)
EXTENDS Bootstrap, Integers, TLAPS

-----------------------------------------------------------------------------
(* Arithmetic: the round robin over the servers.                           *)

\* A remainder is the index of a server.
LEMMA ModuloRange ==
    \A a \in Nat : \A n \in Nat \ {0} : a % n \in 0 .. n - 1
    OBVIOUS

\* Euclidean division of a by n.
LEMMA Division ==
    ASSUME NEW a \in Int, NEW n \in Int, n > 0
    PROVE  a = n * (a \div n) + (a % n) /\ a \div n \in Int
    BY SMT

\* Quotient and remainder are unique.
LEMMA Remainder ==
    ASSUME NEW a \in Int, NEW n \in Int, n > 0,
           NEW q \in Int, NEW r \in Int, 0 <= r, r < n, a = n * q + r
    PROVE  a % n = r
    BY SMT

\* n successive numbers, taken modulo n, are all the numbers below n: a flight
\* that makes all its tries asks every server, wherever it starts.
LEMMA ModuloWraps ==
    ASSUME NEW n \in Nat \ {0}, NEW a \in Nat
    PROVE  {(a + i) % n : i \in 0 .. n - 1} = 0 .. n - 1
<1> DEFINE r == a % n
<1>1. r \in 0 .. n - 1
    BY ModuloRange
<1>2. \A i \in 0 .. n - 1 : (a + i) % n = IF r + i < n THEN r + i ELSE r + i - n
  <2> SUFFICES ASSUME NEW i \in 0 .. n - 1
               PROVE (a + i) % n = IF r + i < n THEN r + i ELSE r + i - n
    OBVIOUS
  <2> DEFINE q == a \div n
  <2>1. a = n * q + r /\ q \in Int /\ r \in Int
    BY <1>1, Division
  <2> HIDE DEF q, r
  <2>2. n * (q + 1) = n * q + n
    BY <2>1
  <2>3. CASE r + i < n
    <3>1. a + i = n * q + (r + i)
      BY <2>1
    <3> QED
      BY <3>1, <2>1, <2>3, <1>1, Remainder
  <2>4. CASE r + i >= n
    <3>1. a + i = n * (q + 1) + (r + i - n)
      BY <2>1, <2>2
    <3>2. q + 1 \in Int /\ r + i - n \in Int /\ 0 <= r + i - n /\ r + i - n < n
      BY <2>1, <2>4, <1>1
    <3>3. (a + i) % n = r + i - n
      BY ONLY <3>1, <3>2, n \in Int, a + i \in Int, n > 0, Remainder
    <3> QED
      BY <3>3, <2>1, <2>4
  <2> QED
    BY <2>1, <2>3, <2>4
<1>3. \A j \in 0 .. n - 1 : \E i \in 0 .. n - 1 : (a + i) % n = j
  <2> HIDE DEF r
  <2> TAKE j \in 0 .. n - 1
  <2>1. CASE j >= r
    <3>1. j - r \in 0 .. n - 1 /\ r + (j - r) = j
      BY <1>1, <2>1
    <3>2. (a + (j - r)) % n = j
      BY <1>2, <2>1, <3>1
    <3> QED
      BY <3>1, <3>2
  <2>2. CASE j < r
    <3>1. j - r + n \in 0 .. n - 1
      BY <1>1, <2>2
    <3>2. ~(r + (j - r + n) < n) /\ r + (j - r + n) - n = j
      BY <1>1, <2>2
    <3> QED
      BY <1>2, <3>1, <3>2
  <2> QED
    BY <1>1, <2>1, <2>2
<1>4. \A i \in 0 .. n - 1 : (a + i) % n \in 0 .. n - 1
    BY ModuloRange
<1> QED
    BY <1>3, <1>4

-----------------------------------------------------------------------------
(* Type correctness.                                                       *)

\* The initial state is of the right type.
LEMMA InitType == Init => TypeOK
<1> SUFFICES ASSUME Init PROVE TypeOK
    OBVIOUS
<1> USE BootstrapAssumption DEF Init
<1>1. AnyHost \in Hosts
    BY DEF AnyHost
<1>2. NTries \in Nat \ {0}
    BY DEF NTries
<1>3. NoEntry \in Entries
    BY DEF NoEntry, Entries
<1>4. flight \in [Flights -> FlightStates]
    BY <1>1, <1>2 DEF FlightStates, Flights
<1>5. caller \in [Callers -> CallerStates]
    BY <1>1, <1>3 DEF CallerStates
<1>6. cache \in [Hosts -> Entries] /\ pending \in [Hosts -> Flights \cup {NoFlight}]
    BY <1>3
<1>7. now \in Nat /\ counter \in Nat /\ lookups \in 0 .. MaxLookups
    OBVIOUS
<1> HIDE DEF Init
<1> QED
    BY <1>4, <1>5, <1>6, <1>7 DEF TypeOK

\* A flight makes at least one try.
LEMMA NTriesType == NTries \in Nat \ {0}
    BY BootstrapAssumption DEF NTries

\* The steps of a caller preserve the types.
LEMMA CallerTypes ==
    ASSUME TypeOK, NEW c \in Callers, CallerStep(c)
    PROVE  TypeOK'
<1> USE DEF TypeOK
<1>0. caller[c] \in CallerStates /\ caller[c].host \in Hosts
    BY DEF CallerStates
<1>1. NoEntry \in Entries /\ AnyHost \in Hosts
    BY BootstrapAssumption DEF NoEntry, Entries, AnyHost
<1>2. ASSUME Succeed(c) PROVE caller' \in [Callers -> CallerStates]
    BY <1>1, <1>2 DEF Succeed, CallerStates
<1>3. ASSUME NEW o \in {"stale", "error"}, EndFailed(c, o)
      PROVE  caller' \in [Callers -> CallerStates]
    BY <1>0, <1>1, <1>3 DEF EndFailed, CallerStates
<1>4. ASSUME NEW f \in Flights, Lead(c, f) PROVE TypeOK'
  <2>1. flight' \in [Flights -> FlightStates]
    BY <1>0, <1>4 DEF Lead, FlightStates
  <2>2. caller' \in [Callers -> CallerStates]
    BY <1>0, <1>4 DEF Lead, CallerStates
  <2> QED
    BY <1>4, <2>1, <2>2, <1>0 DEF Lead
<1>5. CASE Follow(c)
  <2>1. caller' \in [Callers -> CallerStates]
    BY <1>0, <1>5 DEF Follow, CallerStates
  <2> QED
    BY <1>5, <2>1 DEF Follow
<1>6. CASE Receive(c)
  <2>1. caller' \in [Callers -> CallerStates]
    BY <1>0, <1>2, <1>6 DEF Receive, CallerStates
  <2> QED
    BY <1>6, <2>1 DEF Receive
<1>7. CASE Abandon(c)
  <2>1. caller' \in [Callers -> CallerStates]
    BY <1>0, <1>7 DEF Abandon, CallerStates
  <2> QED
    BY <1>7, <2>1 DEF Abandon
<1>8. CASE UseStale(c)
    BY <1>3, <1>8 DEF UseStale
<1>9. CASE Fail(c)
    BY <1>1, <1>3, <1>9 DEF Fail
<1> QED
    BY <1>4, <1>5, <1>6, <1>7, <1>8, <1>9 DEF CallerStep

\* The steps of a flight preserve the types.
LEMMA FlightTypes ==
    ASSUME TypeOK, NEW f \in Flights, FlightStep(f)
    PROVE  TypeOK'
<1> USE DEF TypeOK
<1>0. flight[f] \in FlightStates /\ flight[f].host \in Hosts
    BY DEF FlightStates
<1>1. CASE Begin(f)
  <2>1. counter' \in Nat
    BY <1>1 DEF Begin
  <2>2. flight' \in [Flights -> FlightStates]
    BY <1>0, <1>1, <2>1 DEF Begin, FlightStates
  <2> QED
    BY <1>1, <2>1, <2>2 DEF Begin
<1>2. CASE Resolved(f)
  <2>1. flight' \in [Flights -> FlightStates]
    BY <1>0, <1>2 DEF Resolved, FlightStates
  <2>2. cache' \in [Hosts -> Entries]
    BY <1>0, <1>2, BootstrapAssumption DEF Resolved, Entries
  <2> QED
    BY <1>2, <2>1, <2>2 DEF Resolved
<1>3. ASSUME NEW time \in 0 .. AttemptTimeout, TryFails(f, time)
      PROVE  TypeOK'
  <2>0. flight[f].start + flight[f].tries \in Nat
    BY <1>0, NTriesType DEF FlightStates
  <2>1. Target(f) \in Servers
    BY <2>0, NTriesType, ModuloRange DEF Target, Servers
  <2>2. flight[f].tries + 1 \in 0 .. NTries
    BY <1>0, <1>3, NTriesType DEF TryFails, Trying, FlightStates
  <2>3. flight[f].spent + time \in Nat
    BY <1>0, BootstrapAssumption DEF FlightStates
  <2>4. flight' \in [Flights -> FlightStates]
    BY <1>0, <1>3, <2>1, <2>2, <2>3 DEF TryFails, FlightStates
  <2> QED
    BY <1>3, <2>4 DEF TryFails
<1>4. CASE Unresolved(f)
  <2>1. flight' \in [Flights -> FlightStates]
    BY <1>0, <1>4 DEF Unresolved, FlightStates
  <2> QED
    BY <1>4, <2>1 DEF Unresolved
<1>5. CASE Close(f)
  <2>1. flight' \in [Flights -> FlightStates]
    BY <1>0, <1>5 DEF Close, FlightStates
  <2> QED
    BY <1>5, <2>1 DEF Close
<1>6. CASE Unregister(f)
  <2>1. flight' \in [Flights -> FlightStates]
    BY <1>0, <1>6 DEF Unregister, FlightStates
  <2> QED
    BY <1>0, <1>6, <2>1 DEF Unregister
<1> QED
    BY <1>1, <1>2, <1>3, <1>4, <1>5, <1>6 DEF FlightStep

\* Every step preserves the types.
LEMMA NextType ==
    ASSUME TypeOK, [Next]_vars
    PROVE  TypeOK'
<1> USE DEF TypeOK
<1>0. NoEntry \in Entries /\ AnyHost \in Hosts
    BY BootstrapAssumption DEF NoEntry, Entries, AnyHost
<1>1. ASSUME NEW c \in Callers, CtxEnds(c) PROVE TypeOK'
  <2>1. caller' \in [Callers -> CallerStates]
    BY <1>1 DEF CtxEnds, CallerStates
  <2> QED
    BY <1>1, <2>1 DEF CtxEnds
<1>2. ASSUME NEW c \in Callers, NEW h \in Hosts, Hit(c, h) PROVE TypeOK'
  <2>1. caller' \in [Callers -> CallerStates]
    BY <1>0, <1>2 DEF Hit, Succeed, CallerStates
  <2> QED
    BY <1>2, <2>1, BootstrapAssumption DEF Hit
<1>3. ASSUME NEW c \in Callers, NEW h \in Hosts, Miss(c, h) PROVE TypeOK'
  <2>1. caller' \in [Callers -> CallerStates]
    BY <1>3 DEF Miss, CallerStates
  <2> QED
    BY <1>3, <2>1, BootstrapAssumption DEF Miss
<1>4. CASE Tick
    BY <1>4 DEF Tick
<1>5. CASE UNCHANGED vars
    BY <1>5 DEF vars
<1> QED
    BY <1>1, <1>2, <1>3, <1>4, <1>5, CallerTypes, FlightTypes DEF Next

\* The variables keep their types in every reachable state (bootstrap.go:13-46).
THEOREM TypeCorrect == Spec => []TypeOK
    BY InitType, NextType, PTL DEF Spec

-----------------------------------------------------------------------------
\* What a leader does to the flights.
LEMMA LeadEffect ==
    ASSUME TypeOK, NEW c \in Callers, NEW f \in Flights, Lead(c, f)
    PROVE  /\ \A g \in Flights \ {f} : flight'[g] = flight[g]
           /\ flight'[f].host = caller[c].host
           /\ flight'[f].phase = "begin"
           /\ flight'[f].start = flight[f].start
           /\ flight'[f].tries = flight[f].tries
           /\ flight'[f].asked = flight[f].asked
           /\ flight'[f].res = flight[f].res
           /\ caller[c].host \in Hosts
    BY DEF Lead, TypeOK, FlightStates, CallerStates

\* What a step of a flight changes.
LEMMA FlightEffect ==
    ASSUME TypeOK, NEW f \in Flights, FlightStep(f)
    PROVE  /\ \A g \in Flights \ {f} : flight'[g] = flight[g]
           /\ flight'[f].host = flight[f].host
           /\ flight[f].phase # "unused" /\ flight'[f].phase # "unused"
           /\ flight[f].phase # "gone"
           /\ flight'[f].phase = "gone" <=> Unregister(f)
           /\ UNCHANGED <<now, lookups, caller>>
<1>0. flight \in [Flights -> FlightStates]
    BY DEF TypeOK
<1>1. CASE Begin(f)
    BY <1>0, <1>1 DEF Begin, In, FlightStates, Unregister
<1>2. CASE Resolved(f)
    BY <1>0, <1>2 DEF Resolved, Trying, In, FlightStates, Unregister
<1>3. ASSUME NEW time \in 0 .. AttemptTimeout, TryFails(f, time)
      PROVE  flight[f].phase = "resolve" /\ flight'[f].phase = "resolve"
             /\ (\A g \in Flights \ {f} : flight'[g] = flight[g])
             /\ flight'[f].host = flight[f].host
             /\ UNCHANGED <<now, lookups, caller>>
    BY <1>0, <1>3 DEF TryFails, Trying, In, FlightStates
<1>4. CASE Unresolved(f)
    BY <1>0, <1>4 DEF Unresolved, In, FlightStates, Unregister
<1>5. CASE Close(f)
    BY <1>0, <1>5 DEF Close, In, FlightStates, Unregister
<1>6. CASE Unregister(f)
    BY <1>0, <1>6 DEF In, FlightStates, Unregister
<1> QED
    BY <1>1, <1>2, <1>3, <1>4, <1>5, <1>6 DEF FlightStep, Unregister, In

\* Every other step leaves the flights and the pending map alone.
LEMMA OtherSteps ==
    ASSUME [Next]_vars
    PROVE  \/ \E c \in Callers, f \in Flights : Lead(c, f)
           \/ \E f \in Flights : FlightStep(f)
           \/ UNCHANGED <<pending, flight>>
    BY DEF Next, CallerStep, Follow, Receive, Abandon, UseStale, Fail, CtxEnds,
           Hit, Miss, Tick, vars

\* Every step preserves InOrder: a leader takes the next number.
LEMMA InOrderStep ==
    ASSUME TypeOK, InOrder, [Next]_vars
    PROVE  InOrder'
<1>1. ASSUME NEW c \in Callers, NEW f \in Flights, Lead(c, f) PROVE InOrder'
  <2>1. \A g \in Flights : g < f => flight[g].phase # "unused"
    BY <1>1 DEF Lead, Flights
  <2>2. /\ \A g \in Flights \ {f} : flight'[g] = flight[g]
        /\ flight'[f].phase = "begin"
    BY <1>1, LeadEffect
  <2> QED
    BY <2>1, <2>2 DEF InOrder
<1>2. ASSUME NEW f \in Flights, FlightStep(f) PROVE InOrder'
    BY <1>2, FlightEffect DEF InOrder
<1>3. CASE UNCHANGED <<pending, flight>>
    BY <1>3 DEF InOrder
<1> QED
    BY <1>1, <1>2, <1>3, OtherSteps

\* Every step preserves Registered: only LoadOrStore and the deferred Delete
\* touch the pending map.
LEMMA RegisteredStep ==
    ASSUME TypeOK, Registered, [Next]_vars
    PROVE  Registered'
<1> USE DEF Registered, Working
<1>0. /\ pending \in [Hosts -> Flights \cup {NoFlight}]
      /\ \A f \in Flights : f # NoFlight /\ flight[f].host \in Hosts
    BY DEF TypeOK, Flights, NoFlight, FlightStates
<1>1. ASSUME NEW c \in Callers, NEW f \in Flights, Lead(c, f)
      PROVE  Registered'
  <2>1. /\ pending' = [pending EXCEPT ![caller[c].host] = f]
        /\ pending[caller[c].host] = NoFlight
        /\ flight[f].phase = "unused"
    BY <1>1 DEF Lead
  <2>2. /\ \A g \in Flights \ {f} : flight'[g] = flight[g]
        /\ flight'[f].phase = "begin"
        /\ flight'[f].host = caller[c].host
        /\ caller[c].host \in Hosts
    BY <1>1, LeadEffect
  <2>3. ASSUME NEW g \in Flights, Working(g)'
        PROVE  pending'[flight'[g].host] = g
    BY <1>0, <2>1, <2>2, <2>3
  <2>4. ASSUME NEW h \in Hosts, pending'[h] # NoFlight
        PROVE  Working(pending[h])' /\ flight'[pending'[h]].host = h
    BY <1>0, <2>1, <2>2, <2>4
  <2> QED
    BY <2>3, <2>4
<1>2. ASSUME NEW f \in Flights, FlightStep(f), ~Unregister(f)
      PROVE  Registered'
  <2>1. UNCHANGED pending
    BY <1>2 DEF FlightStep, Begin, Resolved, TryFails, Unresolved, Close
  <2> QED
    BY <1>0, <1>2, <2>1, FlightEffect
<1>3. ASSUME NEW f \in Flights, FlightStep(f), Unregister(f)
      PROVE  Registered'
  <2>1. pending' = [pending EXCEPT ![flight[f].host] = NoFlight]
    BY <1>3 DEF Unregister
  <2> QED
    BY <1>0, <1>3, <2>1, FlightEffect
<1>4. CASE UNCHANGED <<pending, flight>>
    BY <1>4
<1> QED
    BY <1>1, <1>2, <1>3, <1>4, OtherSteps

\* Every step preserves CacheBehind: only one flight of a host is at work, and
\* it is the newest.
LEMMA CacheBehindStep ==
    ASSUME TypeOK, InOrder, Registered, CacheBehind, [Next]_vars
    PROVE  CacheBehind'
<1> USE DEF CacheBehind, Working
<1>0. /\ cache \in [Hosts -> Entries]
      /\ \A f \in Flights : f \in Nat /\ f > 0 /\ flight[f].host \in Hosts
      /\ \A h \in Hosts : cache[h].by \in Nat
    BY BootstrapAssumption DEF TypeOK, Flights, NoFlight, FlightStates, Entries
<1>1. ASSUME NEW c \in Callers, NEW f \in Flights, Lead(c, f)
      PROVE  CacheBehind'
  <2>1. UNCHANGED cache /\ flight[f].phase = "unused"
    BY <1>1 DEF Lead
  <2>2. /\ \A g \in Flights \ {f} : flight'[g] = flight[g]
        /\ flight'[f].phase = "begin"
        /\ flight'[f].host = caller[c].host
        /\ caller[c].host \in Hosts
    BY <1>1, LeadEffect
  <2>3. cache[caller[c].host].by < f
    BY <2>1, <2>2
  <2> QED
    BY <1>0, <2>1, <2>2, <2>3
<1>2. ASSUME NEW f \in Flights, Resolved(f)
      PROVE  CacheBehind'
  <2>1. /\ \A g \in Flights \ {f} : flight'[g] = flight[g]
        /\ flight'[f].host = flight[f].host
        /\ flight[f].phase = "resolve" /\ flight'[f].phase = "close"
    BY <1>2 DEF Resolved, Trying, In, TypeOK, FlightStates
  <2>2. /\ \A h \in Hosts \ {flight[f].host} : cache'[h] = cache[h]
        /\ cache'[flight[f].host].by = f
    BY <1>0, <1>2 DEF Resolved
  <2>3. ASSUME NEW g \in Flights, flight'[g].phase = "unused", NEW h \in Hosts
        PROVE  cache'[h].by < g
    <3>1. f < g
      BY <1>0, <2>1, <2>3 DEF InOrder
    <3> QED
      BY <2>1, <2>2, <2>3, <3>1
  <2>4. ASSUME NEW g \in Flights, Working(g)'
        PROVE  cache'[flight'[g].host].by <= g
    <3>1. CASE g = f
      BY <1>0, <2>1, <2>2, <3>1
    <3>2. CASE g # f
      <4>1. flight[g].host # flight[f].host
        BY <2>1, <2>4, <3>2 DEF Registered
      <4> QED
        BY <1>0, <2>1, <2>2, <2>4, <3>2, <4>1
    <3> QED
      BY <3>1, <3>2
  <2> QED
    BY <2>3, <2>4
<1>3. ASSUME NEW f \in Flights, FlightStep(f), ~Resolved(f)
      PROVE  CacheBehind'
  <2>1. UNCHANGED cache
    BY <1>3 DEF FlightStep, Begin, TryFails, Unresolved, Close, Unregister
  <2> QED
    BY <1>0, <1>3, <2>1, FlightEffect
<1>4. ASSUME NEW c \in Callers, Fail(c)
      PROVE  CacheBehind'
  <2>1. /\ cache' = [cache EXCEPT ![caller[c].host] = NoEntry]
        /\ UNCHANGED flight
    BY <1>4 DEF Fail
  <2>2. \A h \in Hosts : cache'[h] = cache[h] \/ cache'[h].by = 0
    BY <1>0, <2>1 DEF NoEntry, NoFlight
  <2> QED
    BY <1>0, <2>1, <2>2
<1>5. CASE UNCHANGED <<cache, flight>>
    BY <1>5
<1> QED
    BY <1>1, <1>2, <1>3, <1>4, <1>5
    DEF Next, CallerStep, Follow, Receive, Abandon, UseStale, CtxEnds, Hit,
        Miss, Tick, vars

\* Every step preserves AsksInTurn.
LEMMA AsksInTurnStep ==
    ASSUME TypeOK, AsksInTurn, [Next]_vars
    PROVE  AsksInTurn'
<1> USE DEF AsksInTurn
<1> DEFINE Turns(f) ==
               {(flight[f].start + i) % NTries : i \in 0 .. flight[f].tries - 1}
<1>0. flight \in [Flights -> FlightStates]
    BY DEF TypeOK
<1>1. ASSUME NEW c \in Callers, NEW f \in Flights, Lead(c, f)
      PROVE  AsksInTurn'
  <2>1. flight[f].phase = "unused"
    BY <1>1 DEF Lead
  <2>2. flight[f].res = "none" /\ flight[f].tries = 0
    BY <2>1
  <2> QED
    BY <1>0, <1>1, <2>1, <2>2, LeadEffect DEF AskedAll, Closed, In
<1>2. ASSUME NEW f \in Flights, Begin(f)
      PROVE  AsksInTurn'
    BY <1>0, <1>2 DEF Begin, AskedAll, Closed, In, FlightStates
<1>3. ASSUME NEW f \in Flights, Resolved(f)
      PROVE  AsksInTurn'
    BY <1>0, <1>3 DEF Resolved, Trying, AskedAll, Closed, In, FlightStates
<1>4. ASSUME NEW f \in Flights, NEW time \in 0 .. AttemptTimeout,
             TryFails(f, time)
      PROVE  AsksInTurn'
  <2>1. /\ \A g \in Flights \ {f} : flight'[g] = flight[g]
        /\ flight[f].phase = "resolve" /\ flight'[f].phase = "resolve"
        /\ flight'[f].res = flight[f].res
        /\ flight'[f].start = flight[f].start
        /\ flight'[f].tries = flight[f].tries + 1
        /\ flight'[f].asked = flight[f].asked \cup {Target(f)}
        /\ flight[f].tries \in Nat
    BY <1>0, <1>4, NTriesType DEF TryFails, Trying, In, FlightStates
  <2>2. 0 .. flight'[f].tries - 1 = (0 .. flight[f].tries - 1) \cup {flight[f].tries}
    BY <2>1
  <2>3. flight'[f].asked = Turns(f)'
    BY <2>1, <2>2 DEF Target
  <2> QED
    BY <2>1, <2>3 DEF AskedAll, Closed, In
<1>5. ASSUME NEW f \in Flights, Unresolved(f)
      PROVE  AsksInTurn'
  <2>1. AskedAll(f)
    <3>1. CASE flight[f].tries = NTries
      <4>1. flight[f].start \in Nat
        BY <1>0 DEF FlightStates
      <4> QED
        BY <3>1, <4>1, NTriesType, ModuloWraps DEF AskedAll, Servers
    <3>2. CASE LookupCtxDone(f)
      BY <3>2 DEF LookupCtxDone, AskedAll
    <3> QED
      BY <1>5, <3>1, <3>2 DEF Unresolved
  <2>2. /\ \A g \in Flights \ {f} : flight'[g] = flight[g]
        /\ flight'[f].phase = "close" /\ flight'[f].res = "err"
        /\ flight'[f].start = flight[f].start
        /\ flight'[f].tries = flight[f].tries
        /\ flight'[f].asked = flight[f].asked
        /\ flight'[f].spent = flight[f].spent
    BY <1>0, <1>5 DEF Unresolved, In, FlightStates
  <2> QED
    BY <2>1, <2>2 DEF AskedAll, Closed, In
<1>6. ASSUME NEW f \in Flights, Close(f) \/ Unregister(f)
      PROVE  AsksInTurn'
    BY <1>0, <1>6 DEF Close, Unregister, AskedAll, Closed, In, FlightStates
<1>7. CASE UNCHANGED flight
    BY <1>7 DEF AskedAll, Closed, In
<1> QED
    BY <1>1, <1>2, <1>3, <1>4, <1>5, <1>6, <1>7, OtherSteps DEF FlightStep

\* A flight never comes to be unused again, nor takes an error back.
LEMMA FlightsKeep ==
    ASSUME TypeOK, AsksInTurn, [Next]_vars, NEW f \in Flights
    PROVE  /\ flight[f].phase # "unused" => flight'[f].phase # "unused"
           /\ flight[f].res = "err" => flight'[f].res = "err"
<1>0. flight \in [Flights -> FlightStates]
    BY DEF TypeOK
<1>1. ASSUME NEW c \in Callers, NEW g \in Flights, Lead(c, g)
      PROVE  /\ flight[f].phase # "unused" => flight'[f].phase # "unused"
             /\ flight[f].res = "err" => flight'[f].res = "err"
    BY <1>1, LeadEffect
<1>2. ASSUME NEW g \in Flights, FlightStep(g)
      PROVE  /\ flight[f].phase # "unused" => flight'[f].phase # "unused"
             /\ flight[f].res = "err" => flight'[f].res = "err"
  <2>1. CASE Resolved(g)
    <3>1. flight[g].phase = "resolve"
      BY <2>1 DEF Resolved, Trying, In
    <3>2. flight[g].res = "none"
      BY <3>1 DEF AsksInTurn
    <3> QED
      BY <1>2, <3>2, FlightEffect
  <2>2. CASE ~Resolved(g)
    <3>1. flight'[g].res = flight[g].res \/ flight'[g].res = "err"
      BY <1>0, <1>2, <2>2
      DEF FlightStep, Begin, TryFails, Unresolved, Close, Unregister, FlightStates
    <3> QED
      BY <1>2, <3>1, FlightEffect
  <2> QED
    BY <2>1, <2>2
<1>3. CASE UNCHANGED flight
    BY <1>3
<1> QED
    BY <1>1, <1>2, <1>3, OtherSteps

\* Every step preserves CallersKnow.
LEMMA CallersKnowStep ==
    ASSUME TypeOK, Registered, AsksInTurn, CallersKnow, [Next]_vars
    PROVE  CallersKnow'
<1> USE DEF CallersKnow
<1>0. /\ caller \in [Callers -> CallerStates]
      /\ pending \in [Hosts -> Flights \cup {NoFlight}]
      /\ \A c \in Callers : caller[c].fl \in Flights \cup {NoFlight}
      /\ \A c \in Callers : caller[c].host \in Hosts
      /\ \A f \in Flights : f # NoFlight
    BY DEF TypeOK, CallerStates, Flights, NoFlight
<1>1. \A f \in Flights :
        /\ flight[f].phase # "unused" => flight'[f].phase # "unused"
        /\ flight[f].res = "err" => flight'[f].res = "err"
    BY FlightsKeep
<1>2. CASE UNCHANGED caller
    BY <1>0, <1>1, <1>2
<1>3. ASSUME NEW c \in Callers, NEW f \in Flights, Lead(c, f)
      PROVE  CallersKnow'
  <2>1. flight'[f].phase = "begin"
    BY <1>3, LeadEffect
  <2>2. /\ \A d \in Callers \ {c} : caller'[d] = caller[d]
        /\ caller[c].pc = "join" /\ caller'[c].pc = "wait"
        /\ caller'[c].fl = f /\ caller'[c].out = caller[c].out
    BY <1>0, <1>3 DEF Lead, At, CallerStates
  <2> QED
    BY <1>0, <1>1, <2>1, <2>2
<1>4. ASSUME NEW c \in Callers, Follow(c)
      PROVE  CallersKnow'
  <2>1. /\ \A d \in Callers \ {c} : caller'[d] = caller[d]
        /\ caller[c].pc = "join" /\ caller'[c].pc = "wait"
        /\ caller'[c].fl = pending[caller[c].host]
        /\ caller'[c].out = caller[c].out
        /\ pending[caller[c].host] # NoFlight
        /\ UNCHANGED flight
    BY <1>0, <1>4 DEF Follow, At, CallerStates
  <2>2. flight[caller'[c].fl].phase # "unused"
    BY <1>0, <2>1 DEF Registered, Working
  <2> QED
    BY <1>0, <2>1, <2>2
<1>5. ASSUME NEW c \in Callers, Succeed(c)
      PROVE  CallersKnow'
  <2>1. /\ \A d \in Callers \ {c} : caller'[d] = caller[d]
        /\ caller'[c].pc = "idle" /\ caller'[c].out = "ok"
    BY <1>0, <1>5 DEF Succeed
  <2> QED
    BY <1>0, <1>1, <2>1
<1>6. ASSUME NEW c \in Callers, Receive(c), ~Succeed(c)
      PROVE  CallersKnow'
  <2>1. /\ \A d \in Callers \ {c} : caller'[d] = caller[d]
        /\ caller[c].pc = "wait" /\ caller'[c].pc = "failed"
        /\ caller'[c].fl = caller[c].fl
        /\ caller'[c].out = caller[c].out
        /\ UNCHANGED flight
        /\ Closed(caller[c].fl) /\ flight[caller[c].fl].res # "ip"
    BY <1>0, <1>6 DEF Receive, At, CallerStates
  <2>2. caller[c].fl \in Flights /\ caller[c].fl # NoFlight
    BY <1>0, <2>1
  <2>3. flight[caller[c].fl].res = "err"
    BY <2>1, <2>2 DEF AsksInTurn, TypeOK, FlightStates
  <2> QED
    BY <1>0, <2>1, <2>2, <2>3
<1>7. ASSUME NEW c \in Callers, Abandon(c)
      PROVE  CallersKnow'
  <2>1. /\ \A d \in Callers \ {c} : caller'[d] = caller[d]
        /\ caller[c].pc = "wait" /\ caller'[c].pc = "failed"
        /\ caller[c].ctx /\ caller'[c].ctx = caller[c].ctx
        /\ caller'[c].out = caller[c].out
        /\ UNCHANGED flight
    BY <1>0, <1>7 DEF Abandon, At, CallerStates
  <2> QED
    BY <1>0, <2>1
<1>8. ASSUME NEW c \in Callers, UseStale(c) \/ Fail(c)
      PROVE  CallersKnow'
  <2>1. /\ \A d \in Callers \ {c} : caller'[d] = caller[d]
        /\ caller[c].pc = "failed" /\ caller'[c].pc = "idle"
        /\ caller'[c].ctx = caller[c].ctx /\ caller'[c].fl = caller[c].fl
        /\ UNCHANGED flight
    BY <1>0, <1>8 DEF UseStale, Fail, EndFailed, At, CallerStates
  <2> QED
    BY <1>0, <2>1
<1>9. ASSUME NEW c \in Callers, NEW h \in Hosts, Miss(c, h)
      PROVE  CallersKnow'
  <2>1. /\ \A d \in Callers \ {c} : caller'[d] = caller[d]
        /\ caller'[c].pc = "join" /\ caller'[c].out = "none"
    BY <1>0, <1>9 DEF Miss
  <2> QED
    BY <1>0, <1>1, <2>1
<1>10. ASSUME NEW c \in Callers, CtxEnds(c)
       PROVE  CallersKnow'
  <2>1. /\ \A d \in Callers \ {c} : caller'[d] = caller[d]
        /\ caller'[c].pc = caller[c].pc /\ caller'[c].out = caller[c].out
        /\ caller'[c].fl = caller[c].fl /\ caller'[c].ctx
        /\ UNCHANGED flight
    BY <1>0, <1>10 DEF CtxEnds, At, CallerStates
  <2> QED
    BY <1>0, <2>1
<1>11. ASSUME NEW f \in Flights, FlightStep(f)
       PROVE  CallersKnow'
    BY <1>2, <1>11, FlightEffect
<1> QED
    BY <1>2, <1>3, <1>4, <1>5, <1>6, <1>7, <1>8, <1>9, <1>10, <1>11
    DEF Next, CallerStep, Hit, Tick, vars

-----------------------------------------------------------------------------
\* Flights are registered while they work, ask their servers in turn and never
\* lag behind the cache (bootstrap.go:133-216): FlightInv holds at first and
\* every step preserves it.
THEOREM FlightInvariant == Spec => []FlightInv
<1>1. Init => FlightInv
  <2> SUFFICES ASSUME Init PROVE FlightInv
    OBVIOUS
  <2>1. TypeOK
    BY InitType
  <2>2. /\ \A f \in Flights : /\ flight[f].phase = "unused" /\ flight[f].tries = 0
                              /\ flight[f].asked = {} /\ flight[f].res = "none"
        /\ \A h \in Hosts : pending[h] = NoFlight /\ cache[h].by = 0
        /\ \A c \in Callers : caller[c].pc = "idle" /\ caller[c].out = "none"
    BY DEF Init, NoEntry, NoFlight
  <2>3. InOrder /\ Registered
    BY <2>2 DEF InOrder, Registered, Working
  <2>4. CacheBehind
    BY <2>2 DEF CacheBehind, Working, Flights
  <2>5. AsksInTurn
    BY <2>2 DEF AsksInTurn, Closed, In
  <2>6. CallersKnow
    BY <2>2 DEF CallersKnow
  <2> QED
    BY <2>1, <2>3, <2>4, <2>5, <2>6 DEF FlightInv
<1>2. FlightInv /\ [Next]_vars => FlightInv'
    BY NextType, InOrderStep, RegisteredStep, CacheBehindStep, AsksInTurnStep,
       CallersKnowStep DEF FlightInv
<1> QED
    BY <1>1, <1>2, PTL DEF Spec

\* Concurrent lookups of a host share one flight, for any number of callers,
\* hosts, servers and lookups (bootstrap.go:133-137).
THEOREM SingleFlightHolds == Spec => []SingleFlight
<1>1. FlightInv => SingleFlight
    BY DEF FlightInv, Registered, SingleFlight, Working
<1> QED
    BY <1>1, FlightInvariant, PTL

\* A lookup that fails was cancelled itself, or every server was asked or the
\* time was up (bootstrap.go:149-151, 185-216).
THEOREM ErrorIsEarnedHolds == Spec => []ErrorIsEarned
<1>1. FlightInv => ErrorIsEarned
  <2> SUFFICES ASSUME FlightInv, NEW c \in Callers,
                      caller[c].out \in {"error", "stale"}, ~caller[c].ctx
               PROVE  AskedAll(caller[c].fl)
    BY DEF ErrorIsEarned
  <2>1. caller[c].fl \in Flights /\ flight[caller[c].fl].res = "err"
    BY DEF FlightInv, CallersKnow, TypeOK, CallerStates
  <2> QED
    BY <2>1 DEF FlightInv, AsksInTurn
<1> QED
    BY <1>1, FlightInvariant, PTL

\* No step puts the address of an older flight in the place of a newer one
\* (bootstrap.go:136-163).
THEOREM NewerEntryKeptHolds == Spec => NewerEntryKept
<1>1. FlightInv /\ [Next]_vars =>
        [\A h \in Hosts : cache'[h] # NoEntry => cache'[h].by >= cache[h].by]_vars
  <2> SUFFICES ASSUME FlightInv, [Next]_vars, NEW h \in Hosts, cache'[h] # NoEntry
               PROVE  cache'[h].by >= cache[h].by
    OBVIOUS
  <2>0. /\ cache \in [Hosts -> Entries] /\ cache[h].by \in Nat
        /\ \A f \in Flights : flight[f].host \in Hosts /\ f \in Nat
    <3>1. cache \in [Hosts -> Entries]
      BY DEF FlightInv, TypeOK
    <3>2. \A e \in Entries : e.by \in Nat
      BY BootstrapAssumption DEF Entries, Flights, NoFlight
    <3>3. cache[h] \in Entries
      BY <3>1
    <3>4. \A f \in Flights : f \in Nat
      BY BootstrapAssumption DEF Flights
    <3>5. \A f \in Flights : flight[f].host \in Hosts
      BY DEF FlightInv, TypeOK, FlightStates
    <3> QED
      BY <3>1, <3>2, <3>3, <3>4, <3>5
  <2>1. ASSUME NEW f \in Flights, Resolved(f)
        PROVE  cache'[h].by >= cache[h].by
    <3>1. flight[f].phase = "resolve"
      BY <2>1 DEF Resolved, Trying, In
    <3>2. cache[flight[f].host].by <= f
      BY <3>1 DEF FlightInv, CacheBehind, Working
    <3>3. cache' = [cache EXCEPT ![flight[f].host] =
                      [expiry |-> now + CacheTTL, by |-> f]]
      BY <2>1 DEF Resolved
    <3> QED
      BY <2>0, <3>2, <3>3
  <2>2. ASSUME NEW c \in Callers, Fail(c)
        PROVE  cache'[h].by >= cache[h].by
    BY <2>0, <2>2 DEF Fail
  <2>3. CASE UNCHANGED cache
    BY <2>0, <2>3
  <2> QED
    BY <2>1, <2>2, <2>3
    DEF Next, CallerStep, FlightStep, Lead, Follow, Receive, Abandon, UseStale,
        Begin, TryFails, Unresolved, Close, Unregister, CtxEnds, Hit, Miss,
        Tick, vars
<1> QED
    BY <1>1, FlightInvariant, PTL DEF Spec, NewerEntryKept
-----------------------------------------------------------------------------
(* What is safety in the end of the flights.                               *)

\* The steps a flight has left, whatever the servers do.
FlightLeft(f) ==
    CASE flight[f].phase = "unused"     -> NTries + 5
      [] flight[f].phase = "begin"      -> NTries + 4
      [] flight[f].phase = "resolve"    -> NTries + 3 - flight[f].tries
      [] flight[f].phase = "close"      -> 2
      [] flight[f].phase = "unregister" -> 1
      [] flight[f].phase = "gone"       -> 0

\* A flight goes on with every step that changes it: it neither begins again
\* nor asks a server without end (bootstrap.go:146-163, 194-216).
FlightsAdvance ==
    \A f \in Flights : flight'[f] # flight[f] => FlightLeft(f)' < FlightLeft(f)

\* A caller waits for a flight that is closed, or whose goroutine can make a
\* step that waits for nobody but a server (bootstrap.go:140-163): whoever
\* else has given up, a waiter is never left behind.
NobodyIsForgotten ==
    \A c \in Callers : At(c, "wait") =>
        LET f == caller[c].fl IN
        \/ Closed(f)
        \/ /\ pending[flight[f].host] = f
           /\ \/ In(f, "begin") \/ In(f, "close")
              \/ Trying(f)
              \/ In(f, "resolve") /\ (flight[f].tries = NTries \/ LookupCtxDone(f))

\* The phases of a flight and its tries.
LEMMA PhasesOf ==
    ASSUME TypeOK, NEW f \in Flights
    PROVE  /\ flight[f].phase \in {"unused", "begin", "resolve", "close",
                                   "unregister", "gone"}
           /\ flight[f].tries \in 0 .. NTries
           /\ NTries \in Nat
           /\ FlightLeft(f) \in 0 .. NTries + 5
<1>1. /\ flight[f].phase \in {"unused", "begin", "resolve", "close",
                              "unregister", "gone"}
      /\ flight[f].tries \in 0 .. NTries
    BY DEF TypeOK, FlightStates
<1>2. NTries \in Nat
    BY NTriesType
<1> QED
    BY <1>1, <1>2 DEF FlightLeft

\* Each step of a flight uses up one of those it has left.
LEMMA StepAdvances ==
    ASSUME TypeOK, AsksInTurn, NEW f \in Flights, FlightStep(f)
    PROVE  FlightLeft(f)' < FlightLeft(f)
<1>0. /\ flight \in [Flights -> FlightStates] /\ NTries \in Nat
      /\ flight[f] \in FlightStates /\ flight[f].tries \in 0 .. NTries
    BY PhasesOf DEF TypeOK
<1>1. CASE Begin(f)
  <2>1. /\ flight[f].phase = "begin" /\ flight'[f].phase = "resolve"
        /\ flight'[f].tries = 0
    BY <1>0, <1>1 DEF Begin, In, FlightStates, AsksInTurn
  <2> QED
    BY <1>0, <2>1 DEF FlightLeft
<1>2. CASE Resolved(f) \/ Unresolved(f)
  <2>1. flight[f].phase = "resolve" /\ flight'[f].phase = "close"
    BY <1>0, <1>2 DEF Resolved, Unresolved, Trying, In, FlightStates
  <2> QED
    BY <1>0, <2>1 DEF FlightLeft
<1>3. ASSUME NEW time \in 0 .. AttemptTimeout, TryFails(f, time)
      PROVE  FlightLeft(f)' < FlightLeft(f)
  <2>1. /\ flight[f].phase = "resolve" /\ flight'[f].phase = "resolve"
        /\ flight'[f].tries = flight[f].tries + 1
    BY <1>0, <1>3 DEF TryFails, Trying, In, FlightStates
  <2> QED
    BY <1>0, <2>1 DEF FlightLeft
<1>4. CASE Close(f) \/ Unregister(f)
  <2>1. \/ flight[f].phase = "close" /\ flight'[f].phase = "unregister"
        \/ flight[f].phase = "unregister" /\ flight'[f].phase = "gone"
    BY <1>0, <1>4 DEF Close, Unregister, In, FlightStates
  <2> QED
    BY <1>0, <2>1 DEF FlightLeft
<1> QED
    BY <1>1, <1>2, <1>3, <1>4 DEF FlightStep

\* A flight is over after one step for each server and five more
\* (bootstrap.go:133-216), though its callers come and go.
THEOREM FlightsAdvanceHolds ==
    Spec => [](\A f \in Flights : FlightLeft(f) \in 0 .. NTries + 5)
            /\ [][FlightsAdvance]_vars
<1>1. FlightInv => \A f \in Flights : FlightLeft(f) \in 0 .. NTries + 5
    BY PhasesOf DEF FlightInv
<1>2. FlightInv /\ [Next]_vars => [FlightsAdvance]_vars
  <2> SUFFICES ASSUME FlightInv, [Next]_vars, NEW f \in Flights,
                      flight'[f] # flight[f]
               PROVE  FlightLeft(f)' < FlightLeft(f)
    BY DEF FlightsAdvance
  <2>0. TypeOK /\ AsksInTurn
    BY DEF FlightInv
  <2>1. ASSUME NEW c \in Callers, NEW g \in Flights, Lead(c, g)
        PROVE  FlightLeft(f)' < FlightLeft(f)
    <3>1. f = g /\ flight'[f].phase = "begin"
      BY <2>0, <2>1, LeadEffect
    <3>2. flight[f].phase = "unused"
      BY <2>1, <3>1 DEF Lead
    <3>3. NTries \in Nat
      BY NTriesType
    <3> QED
      BY <3>1, <3>2, <3>3 DEF FlightLeft
  <2>2. ASSUME NEW g \in Flights, FlightStep(g)
        PROVE  FlightLeft(f)' < FlightLeft(f)
    <3>1. f = g
      BY <2>0, <2>2, FlightEffect
    <3> QED
      BY <2>0, <2>2, <3>1, StepAdvances
  <2> QED
    BY <2>1, <2>2, OtherSteps
<1> QED
    BY <1>1, <1>2, FlightInvariant, PTL DEF Spec

\* No waiting caller is forgotten (bootstrap.go:140-163).
THEOREM NobodyIsForgottenHolds == Spec => []NobodyIsForgotten
<1>1. FlightInv => NobodyIsForgotten
  <2> SUFFICES ASSUME FlightInv, NEW c \in Callers, At(c, "wait"),
                      ~Closed(caller[c].fl)
               PROVE  LET f == caller[c].fl IN
                      /\ pending[flight[f].host] = f
                      /\ \/ In(f, "begin") \/ In(f, "close")
                         \/ Trying(f)
                         \/ In(f, "resolve") /\ (flight[f].tries = NTries \/ LookupCtxDone(f))
    BY DEF NobodyIsForgotten
  <2> DEFINE f == caller[c].fl
  <2>1. f \in Flights /\ flight[f].phase # "unused"
    BY DEF FlightInv, CallersKnow, At, TypeOK, CallerStates
  <2>2. flight[f].phase \in {"begin", "resolve", "close"}
    BY <2>1, PhasesOf DEF FlightInv, Closed
  <2>3. pending[flight[f].host] = f
    BY <2>1, <2>2 DEF FlightInv, Registered, Working
  <2>4. flight[f].tries \in 0 .. NTries /\ NTries \in Nat
    BY <2>1, PhasesOf DEF FlightInv
  <2>5. flight[f].tries = NTries \/ flight[f].tries < NTries
    BY <2>4
  <2> QED
    BY <2>2, <2>3, <2>5 DEF In, Trying
<1> QED
    BY <1>1, FlightInvariant, PTL
==============================================================================
