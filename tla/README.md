# A TLA+ model of DNS_automatic_traffic_splitting

The program is a DNS forwarder that splits traffic: it serves DNS, DoT, DoQ and DoH, decides for every name
whether the domestic ("CN") or the overseas group of upstreams may be asked, races the upstreams of a group,
and is configured at run time through a web interface. This directory holds TLA+ modules that model the parts
of it in which goroutines, timers, caches, failures and restarts meet, the TLC configurations that check them,
and proofs that TLAPS checks.

Line numbers are those of the sources under `src/`; `PROJECT.json` maps every definition to the lines it models.

## 1. The system

| Part | State | Operations | Interacts with |
|---|---|---|---|
| upstream race, `internal/client/resolver.go` | a channel of answers, best negative answer, timer | `RaceResolve` | called by the router; calls the clients |
| clients, `internal/client/{udp,tcp,dot,doh,doq}.go` | TCP, DoT: a pool of connections; DoH: an `http.Client` and a QUIC transport; UDP, DoQ: nothing between requests | `Resolve`, `Close` | ask the bootstrapper for the address of their upstream |
| bootstrapper, `internal/resolver/bootstrap.go` | cache of addresses, pending flights, round-robin counter | `LookupIP` | called by all clients at once |
| router, `internal/router/router.go`, `geodata.go` | tables of the configuration, two groups of clients, geo databases | `Route` | called by the servers; two races; writes the query log |
| service manager, `internal/manager/manager.go` | configuration, geo databases, servers, stop channel | `Start`, `Stop`, `Reload`, `reloadCurrent`, `runAutoUpdate` | owns all of the above; called by `main`, the web interface and its own goroutine |
| web interface, `internal/web/server.go` | sessions | pages, statistics, configuration, hosts, logs | reads and reloads the configuration |
| query log, `internal/querylog/querylog.go` | ring buffer, counters, write queue, file | `AddLog`, `Close`, `Clear`, `GetLogs`, `GetStats` | every request adds to it; a reload replaces it |
| configuration, downloads, `internal/config`, `internal/util/download.go` | files | `LoadConfig`, `Save`, `DownloadFile` | web interface, manager |
| servers, `internal/server` | listeners | `Start`, `Stop`, one goroutine per request | started and stopped by the manager |

What is hard here: the answers of a race arrive in any order and its losers go on after it has returned; lookups
are shared between callers that may be cancelled; a pooled connection may carry a late answer of somebody else;
a reload replaces every component while requests are on their way, and so does an update of the geo databases
in a goroutine of its own, while `Stop` may come at any time; the listeners bind their ports in goroutines that a
`Stop` may overtake, and the next generation wants the same ports; the process may be killed between any two writes; the query log persists asynchronously, prunes,
and has to come back after a crash. `PROJECT.json` lists each of these hazards at its line, with the properties
that would show it going wrong or the reason why none does yet.

What makes each part correct, in short:

* race: a NOERROR answer wins, the first of them; a negative answer is a fallback; an error is the last resort;
  the call and its goroutines end;
* bootstrapper: one flight per host; nobody fails because somebody else gave up; results do not go backwards;
* router: a name that a rule pins to one group is never sent to the other; of two races the better answer is used;
  NODATA is made up only for names whose origin exists;
* pool: slots are neither lost nor made, a connection has one owner, a request reads its own answer;
* manager: what runs is the current configuration, and the one a restart would load; a bad configuration does not take
  the service down; the update goroutine ends;
* files: whole at any time, whatever fails or is killed, and the three of a configuration saved together;
* servers: a stopped generation gives its ports back, no handler is left with a closed router, `Stop` returns, listeners
  come up; a client can read what a handler writes, and is not told a part for the whole;
* query log: ring, counters and file agree with what was logged; `Close` flushes; IDs are unique; the pages of
  the log view show every entry once.

## 2. The modules

| Module | Models | Role |
|---|---|---|
| `UpstreamRace` | what a race promises | abstract specification |
| `RaceResolve` | `RaceResolve`: goroutines, channel, loop, timer, context | implements `UpstreamRace` |
| `Router` | `Route`, `routeInternal`, the existence check | composes two instances of `UpstreamRace` |
| `Bootstrap` | `LookupIP`, `lookupOnce`, the flight, the retry loop | |
| `ConnPool`, `MCConnPool` | `resolvePipeline`, `Close` of the pooled clients | `MCConnPool` gives the requests their message IDs |
| `ServiceManager` | the manager, `main`, the web handlers that save and reload, the files, a process that is killed | |
| `Replies` | what each request handler writes, for responses of any length and those that cannot be packed | operators, used by `Servers` |
| `Servers` | the listeners and their goroutines over restarts, `startInternal` and `stopInternal` step by step | extends `Replies` |
| `QueryLog` | the query log with its file, over reloads and crashes | |
| `RaceProofs`, `BootstrapProofs`, `RouterProofs`, `PoolProofs`, `ManagerProofs`, `ServersProofs`, `QueryLogProofs` | | theorems about `RaceResolve`, `Bootstrap`, `Router`, `ConnPool`, `ServiceManager`, `Servers`, `QueryLog` |
| `BoundedSets` | | induction up to a bound, multiples and bounded sets of numbers: lemmas used in `RouterProofs` and `QueryLogProofs` |

Definitions keep the names of the code where they can. `Mutant` comments mark variants of a definition with a
plausible bug; each property is violated when its variant is put in the definition's place, so none holds by the
shape of the model.

### UpstreamRace and RaceResolve

`UpstreamRace` has three variables: who was heard, whether time is up, and the verdict. A NOERROR answer that was
heard may decide the race at once, another response only when nobody is left who could do better or when time is
up. `RaceResolve` is the code: `Answer` is the return of a client's `Resolve`, `Send` the send on the buffered
channel `results`, and the loop's cases are `ReceiveError`, `ReceiveSuccess`, `ReceiveNegative`, `OnTimer`,
`OnCtxDone` and `Exhausted`. `sent` is the channel with its history; what the loop has received is its prefix of
length `taken`. Under the mapping of `Heard` (an answer is heard when it is in the channel) every behaviour of
`RaceResolve` is one of `UpstreamRace`, which is checked and proved. `Failed` stands for any error: the errors differ in their text only.

When the timer fires while a NOERROR answer is queued, `select` may take either. The model has both, and
`NegativeIsFallback` allows a negative result once the timer has fired.

### Bootstrap

One action per atomic step of `LookupIP` (`Hit`, `Miss`), of `lookupOnce` (`Lead`, `Follow`, `Receive`, `Abandon`),
of the fallback (`UseStale`, `Fail`) and of the flight's goroutine (`Begin`, `Resolved`, `TryFails`, `Unresolved`,
`Close`, `Unregister`, the last two being the deferred calls in the order they run). The clock of the cache ticks
by itself; the seconds of a flight are counted in `spent`, as 15 s for all servers against 4 s for each decide
whether the last servers are asked at all. The counter is not bounded: that 2^64 lookups wrap it is left out.

### Router

A name is the number of underscore labels before its origin, which is all that `matchNames` looks at; the tables are
chosen in the initial state, so all conflicts between two entries (`MaxEntries = 2`) are covered. The two races of
`routeInternal` are instances of `UpstreamRace` that move only while the call listens; the second `routeInternal` of
the existence check starts them afresh. What kind of error a reply has, TTLs and the log entry are left out.

### ConnPool

The pool is the sequence in the channel `c.pool`, an empty slot being `Nil`. `tcp.go` and `dot.go` have the same
code; the map names the lines of the first, and of the second for `Exchange` and `CloseStep`. The deferred function
of `resolvePipeline` is two actions, `CheckClosed` and `PutBack`, because `Close` may run between them. `Respond` is
the upstream; it answers in any order, so that an answer may come too late.

### ServiceManager

`Start`, `Reload` and `reloadCurrent` hold `m.mu` from beginning to end and are one action each; `Stop` is two, since
it closes the stop channel before it takes the lock. A configuration is its three files: `config.yaml`, of which the geo
database counts, `hosts.txt` and `rule.txt`. `Serve` and `ServeNothing` are the two ends of `startInternal`, which fails
if the geo database cannot be loaded; the listeners start in goroutines and cannot make it fail. `FileLost` is the world:
a database may be deleted or damaged at any time.

A handler reads the current configuration and makes a new one of it (`Post`), saves it (`Save`: for each of the three
files the temporary file is written, then renamed, all of it with `saveMu` held; `SaveFails` wherever it is), and reloads
it (`Reload`). `Install` is `DownloadFile`, whose steps nobody else sees: the new file under its name if it passed the
verification, or no trace. `Killed` ends the process at any point; the next one begins from the files with
`LoadConfig`, or not at all if one of them is torn. A kill is the end of the process, not of the machine: what was
written is there. `disturbed` marks that posts overlapped or one was not carried out; only then may the running
configuration differ from the saved one, and it does: two posts that save in one order may reload in the other, and a
configuration that fails to start is on disk already.

### Servers and Replies

One level below: the restart that `ServiceManager` has as one action is here `BeginStop`, the stages of `stopInternal`
in their order, and `StartServers` as the next generation. Each listener has a goroutine (`srv`) and competes for a port.
The stages call what the code calls: `Shutdown` and `HandlersDone` are `dns.Server.Shutdown`, which does nothing to a
server that has not begun to listen; `StopDoQ` and `DoQStopped` are `DoQServer.Stop`; `StopH2`, `H2Stopped`, `StopH3` and
`DoHStopped` are `DoHServer.Stop`, whose one context of five seconds (`FiveSeconds`) serves both waits. The ACME goroutine reads
`m.ACMEServer` when it gets to it. A request is with a handler from `Arrive` to `Answer`; the reply is the operator of its
listener in `Replies`, evaluated for every kind of request and every result of `Route`: an error, or a response of some
length, which may not be possible to pack. `RepliesFit` says that the length announced is the length written, that UDP, TCP,
DoT and DoQ can carry it, that a reply is the whole response or says that it is not, and that a routed request is left
without a message for named reasons only: what cannot be packed (silence, or HTTP 500), more than 65535 bytes over TCP
and DoT, more than 65507 over UDP to a client that advertises more. HTTP has no limit: dohserver.go:28-29 has 65535 as
the longest message over TCP and HTTP, but `ServeHTTP` compares nothing with it, and `Content-Length` can announce more.

What miekg/dns, net/http, http3 and quic-go do is taken from how the code uses them and their documentation, and listed at
the head of `Servers`; where it is not certain (whether a closed `quic.Listener` gives its socket back while a connection is
open) both are possible. `cut` is a history variable: the listeners whose `Stop` could not do all its work, because the
server had not begun to listen, a wait timed out, or a connection kept the socket. The properties say that nothing else goes wrong.

### QueryLog

`AddLog` is one action up to the unlock, then `Check` (`l.closed`), `Offer` (the send or its default) and
`WriteDirectly`; the writer's two selects are `Take`, `HearStop` and `EndWriter`. A reload is `Close`, `CloseReturns`
and `Reopen`; requests keep the logger they began with. All lines have one length, so sizes are numbers of lines.

File operations fail. `AppendToFile` may fail to prune, write nothing, or write a part of its line: then the file is `torn`, and the
next line goes on where the part ends, so that the two are one line that does not parse (`Garbled`). `Pruned` has the three ends of
a pruning: the line that is cut goes, if its newline is among the 1024 bytes that `pruneLogFile` reads, or its rest stays, or all
of it. `NewLogger` may read a part of the file, or none: its count is then too low and it gives IDs of the file again. `FromPart` is
a page whose scan fails on the way.

`due`, `counted` and `mixed` are history variables of the properties. `due` are the entries that `Close` promises to flush.
`counted` says that the count was taken from a whole file, read to its end or pruned, and that no other logger touched the file since:
then `CountMatchesFile` holds, and without it nothing can. `mixed` says that a logger began without the whole file, or that an old
one touched it: from then on IDs may be given twice.

`GetLogs` changes nothing and is an operator: `FromFile`, with the early end of the scan and the total that comes from the
counter, and `FromMemory`, which it falls back to. A search is the set of IDs that it matches; none matches a line that does not
parse. Without a search the total is the count, and the pages hold all lines if it is right; a search counts what it finds.

## 3. The runs

| Run | Module | Shows | Bounds | States |
|---|---|---|---|---|
| `race` | `RaceResolve` | who wins; what the loop knows; the call and its goroutines end; refinement of `UpstreamRace` | 3 upstreams | 22 k |
| `bootstrap` | `Bootstrap` | one flight, earned errors, no older result over a newer one, the inductive invariant; lookups return, flights leave the pending map | 2 callers, 3 lookups, 2 servers | 370 k |
| `router` | `Router` | pinned names, the better of two races, NODATA, termination | 1 upstream a group, 1 label, 2 table entries | 827 k |
| `pool` | `MCConnPool` | slots, ownership, no mixed-up answers, `Close`, termination | 3 requests, 2 slots, 2 message IDs | 75 k |
| `manager` | `ServiceManager` | reloads, rollback, updates, stop; files, saves, restarts | 2 databases, 2 posts at once, 1 update, 1 kill | 1.2 M |
| `servers` | `Servers` | ports, handlers and routers, replies, listeners come up, `Stop` returns | 2 generations, 4 pairs of listeners, 1 request, 6 lengths, 3 advertised sizes | 116 k |
| `querylog` | `QueryLog` | ring, counters, flush, count, IDs, pages, end of `Close` | 2 clients, 3 entries, 2 loggers, 1 event | 770 k |

Each run also checks the inductive invariant of its module (`RaceInv`, `FlightInv`, `RouterInv`, `PoolInv`, `ManagerInv`,
`PortInv`, `LogInv`), on which the proofs of section 4 rest.

The bounds are the smallest in which each conflict occurs: two callers lead, follow and repeat; a third lookup finds
the entry the first one left expired; three requests on two slots make one wait; a second post overlaps the first
one and an update; a kill may come between any two steps of a save, and of two saves that follow each other; two generations
compete for a port, and listeners meet only through the order of `stopInternal` and the deadline the two of the
`DoHServer` share, which is why they come in pairs; the lengths of responses lie at the limits: 512, 1232 and 65535 bytes,
which fit, and the first above 1232, 65507 and 65535, which do not; three entries fill the writer's hand, the queue of one and overflow it, wrap
a ring of two and prune a file of two lines. `MaxEvents` bounds crashes, file operations that fail and clearings of the log
together: one in the run, so a torn line meets the next entry, a pruning and a reload, and a restart after a crash reads a whole file;
two of them together, as a torn line and a crash, are left to the proofs, which hold for any number. `PagesShowAll` is
evaluated for pages of one entry, with and without a search, and for scans that fail anywhere; the proofs have every size. One host in `Bootstrap` is enough for interleavings, as flights of different hosts
share only the counter, whose value each flight takes as its own start; that the cache's clock ticks once there is
enough for an entry to expire. The end of its grace period is beyond that bound: there only a lookup that
found no entry fails, and one with an outdated entry is covered by the proofs, which hold for any number of ticks.

Five further runs show where the code and what is said of it part; each has an entry under `findings`:

* `bootstrap_grace`: a lookup whose own context ended deletes the entry its flight stored meanwhile (bootstrap.go:126),
  though expired entries, let alone fresh ones, are to be kept for a grace period (lines 42 and 109);
* `manager_stop`: `runAutoUpdate` restarts the services after `Stop` has returned (manager.go:286-292), which
  closing the channel was meant to prevent (manager.go:59-61). In `main` the process exits next, so it is short-lived;
* `servers_leak`: a listener that `Stop` finds before it has bound comes up afterwards, serves on with a closed router and
  keeps its port from the next generation, which only logs that it could not bind (dnsserver.go:44-81); the comment at
  lines 67-68 names just this as what `Stop` has to prevent;
* `servers_acme`: the goroutine of the ACME server reads `m.ACMEServer` without the lock (manager.go:345) and may find
  nil, which the comment at manager.go:72-73 warns of;
* `querylog_order`: two requests may swap between getting an ID and queueing the line (querylog.go:207), so that the
  log page, read from the file, is not in descending order, as querylog_test.go:112 has it.

One more disagreement needs no run: `LookupGeoSite` returns `cn` or nothing (geodata.go:64-77), so a name that GeoSite lists
under another code is asked of both groups, though README.md:267 says that such names go overseas.

### Fairness

Weak fairness of what the Go scheduler and a bounded wait ensure: goroutines that can run do, I/O ends within its
deadline, timers fire. Two are strong: a request blocked on the pool's channel gets its turn, since Go serves
waiters in order, and a `select` with a closed channel among its cases takes it at some time. Where an action is fair for all of a
set at once (the flights of `Bootstrap`, the listeners of `Servers`), each of the set takes finitely many steps, so none is
passed over for ever. In `Servers` `Route` returns, since its context ends after ten seconds. `QueryLog` has fairness of the writer
and of `Close` only; a request may stay where it is. Nowhere is it assumed that
an upstream answers, that a caller's context ends, that `Close` or `Stop` is called, that a client closes its DoQ
connection, that a save or a download succeeds, or that a configuration is good. A
client that has not answered returns from `Resolve` only once the context of its race has ended.

`CHECK_DEADLOCK FALSE` is set in every run, as each model comes to a natural end: the call has returned, or the bounded
number of lookups, posts, generations or entries is used up. That nothing is stuck before is what the liveness properties say.

## 4. The proofs

`BootstrapProofs` proves about `Bootstrap`, for any set of hosts and callers and any number of servers and lookups
(assumption `BootstrapAssumption`: the parameters are natural numbers, the timeouts and the cache's TTL not zero):

* `TypeCorrect`: `Spec => []TypeOK`;
* `FlightInvariant`: `Spec => []FlightInv`;
* `SingleFlightHolds`, `ErrorIsEarnedHolds`, `NewerEntryKeptHolds`: the safety properties of the run `bootstrap`;
* `NobodyIsForgottenHolds`: the flight of a waiting caller is closed, or registered and able to make its next step;
* `FlightsAdvanceHolds`: a flight is over after one step for each server and five more.

None of the three properties is inductive. Two flights of one host are excluded because the pending map registers the
flights at work and no others (`Registered`); this fails at once if anybody but the flight deletes from it. That a newer
entry is kept needs in addition that flights are numbered in the order they begin (`InOrder`) and that the cache is
never ahead of a flight still at work (`CacheBehind`). That an error is earned needs what a flight has asked
(`AsksInTurn`) and what a caller knows of its flight (`CallersKnow`); that the last try completes the round over
the servers is arithmetic modulo their number (`ModuloWraps`). `FlightInv` is the conjunction; the run `bootstrap` checks
it as well. Each conjunct has a lemma that every step preserves it, with one step per action that can disturb it.

`RaceProofs` proves about `RaceResolve`, for any finite set of upstreams (assumption `ClientsAssumption`: the set is
finite, and nil is not an upstream):

* `TypeCorrect`: `Spec => []TypeOK`;
* `RaceInvariant`, `FirstSuccessWinsHolds`, `NegativeIsFallbackHolds`, `ErrorIsLastResortHolds`: the safety properties of
  the run `race`;
* `RaceImplementsUpstreamRace`: `Spec => ImplementsUpstreamRace`;
* `SendersNeverWaitHolds`: a goroutine with an answer finds room in the channel;
* `StepsCountHolds`: a race of N upstreams makes at most 3N + 3 steps.

What the call returns depends on what the loop has gone through, so the three properties need `RaceInv`: no NOERROR answer
is among those taken as long as the call is pending (`NoSuccessTaken`), and `bestFail` is the first negative one among them
(`FallbackIsFirst`); `RaceInv` has the types as well. With it they are inductive. The answers keep coming after the call has returned, and the properties
speak of all that have arrived; `ArrivedStays` (an answer that has arrived neither moves nor changes) carries them over
every later step. That the loop, when it has counted N receptions, has heard every upstream rests on `ArrivedOnce` and on a
counting argument: an injection between finite sets of one size is onto (`TakenAll`, from the library's
`FS_Injection`). The refinement follows action by action: `Send` is `Hear`, `ReceiveSuccess` is `Succeed`, `TimerFires` and
`CtxEnds` are `Expire` or nothing, the other ends are `FallBack` or `GiveUp`, and the rest is invisible.

`PoolProofs` proves about `ConnPool`, for any finite set of requests, any positive number of slots, and any message IDs, all
equal ones among them (`PoolAssumption`):

* `TypeCorrect`, `PoolInvariant`, `OneOwnerHolds`, `NoCrossTalkHolds`, and the action property `CloseDrainsHolds`.

`PoolInv` says whose everything is: a slot is in the channel or with a request (`SlotsConserved`, and `SlotsBounded`, by which
putting one back finds room), where a request has a connection (`HeldWhileUsed`), that nobody else has it (`OwnersDiffer`), that
what nobody has is closed (`OpenIsOwned`), and that what is under way on a connection is for the request reading from it
(`OneConversation`). The last one is what a reused connection with a late answer would break. `OneOwner` counts owners, so its proof
counts sets of one element; `NoCrossTalk` is inductive with `PoolInv`.

`ManagerProofs` proves about `ServiceManager`, for any configurations and databases and any number of posts, updates and kills
(`ManagerAssumption`: the bounds are natural numbers; `NilAssumption`: nil is neither a database nor a running service):

* `TypeCorrect`, `ManagerInvariant`, `FilesAreWholeHolds`, `RunningIsSavedHolds`, and the action properties
  `SavedTogetherHolds` and `KeepsServingHolds`.

That a save leaves the files of one configuration needs that `saveMu` excludes the others (`OneSaver`), and what has been
written so far (`SavedSoFar`). `KeepsServing` needs that the running configuration is the current one (`ServesCurrent`) and
that the loaded database is the one it names (`GeoIsNamed`): then the rollback starts with what ran before. `RunningIsSaved` speaks
of the state between posts and needs what holds during one (`OneByOne`).

`ServersProofs` proves about `Servers`, for any number of requests and generations and any sets of enabled listeners in which
HTTP/2 and HTTP/3 come together, as a `DoHServer` starts both (`ServersAssumption`):

* `TypeCorrect`, `PortInvariant`, `HandlersBeforeRouterHolds`;
* `RepliesFitHolds`, for any lengths of responses and any sizes that clients advertise (`RepliesAssumption`: they are natural
  numbers). Each listener has a lemma (`UDPAnswers`, `TCPAnswers`, `DoQAnswers`, `HTTPAnswers`); `PrefixHolds`, that a length
  below 2^16 is what two bytes say, is where the check of the DoQ server is needed.

`PortsReleased` and `HandlersBeforeRouter` speak of a generation whose router is closed, the last stage of `stopInternal`.
They follow from what each earlier stage leaves behind (`StopDone`): from then on the generation does not serve, which needs that a
goroutine that is late finds its listener closed (`H2Told`, `Numbered`), that a port belongs to somebody who serves it
(`PortServed`), and that handlers come only from a listener that has served (`HandlersServed`). The other parts of `PortInv` are
inductive without `PortsReleased`, which follows. The exceptions are those of `cut`, the same as in the runs.

`QueryLogProofs` proves about `QueryLog`, for any clients and any sizes of ring and queue, at least two lines in the file, and
any number of entries, reloads, crashes and failed file operations (`QueryLogAssumption`; a file of one line would be pruned to
nothing, while the code's limit is in the megabytes):

* `TypeCorrect`, `LogInvariant`, `CloseFlushesHolds`;
* `CountMatchesFileHolds`, as long as `counted`, and `IDsUniqueHolds`, until `mixed`;
* `ScanMayStop`: a page is the same whether the scan of the file goes on or stops when it has enough;
* `PartShowsHolds`: wherever a scan fails, the page is the beginning of the page that a whole scan shows, for any offset, limit and search;
* `MemoryPagesHold`: a page from memory, without a search, has the entries that belong there, last one first, and the right total;
* `PagesShowHolds`, `PagesShowAllHolds`: all pages of a view together show every entry that matches, once and newest first. The
  first is for any page size, so for the 15 of the web interface too, and for any set of IDs a search may match; the second
  states the property that the run checks on small ones. From the file without a search, both need the count to be right; a
  line that does not parse is counted and not shown, so the pages of the total are more than enough.

`RingStart`, `RingHoldsNewest` and `TopMatchesRing` are what `l.mu` protects. They depend on each other: overwriting in place is right
only in a full ring, and a counter does not fall below zero only because it counts the ring. `DueIsOnItsWay` follows an entry from
the request over the queue and the writer's hand to the file, and `CloseFlushes` is its end. `IDsDiffer` follows the IDs along the
same way, since a line that is written was unique long before. Both need to know where entries can be at all (`EntriesHeld`). The next ID after a
restart is above all in the file because the highest exists (`Highest` in `BoundedSets`).

The pages are computed by two loops, the one over the entries (`Found`) and the one over the pages, and what a loop computes for any
input needs an induction. The library's induction theorems take an operator, which the provers here cannot instantiate. So
`BoundedInduction` states induction as a fact on a set of numbers, which follows from `Highest`, and each loop gets a lemma of two
parts: it has a run (`LoopRuns`, `FlattenRuns`), and after each turn it has what belongs there (`FoundMatches`: the i-th entry
found is the i-th that matches; `PagesJoin`: pages of a list, put one after another up to a total that is not below its length, are the list). The rest is counting:
how many entries match (`HitsCount`) and where a page ends (`PageEnds`).

`RouterProofs` proves about `Router`, for any sets of upstreams, any number of labels and any tables (`RouterAssumption`: the number of
labels is a natural number):

* `TypeCorrect`, `RouterInvariant`, `PinnedNamesStayHolds`, `NeverWorseThanEitherHolds`, `AddressDecidesHolds`,
  `NoDataOnlyForExistingOriginHolds`.

`PinnedNamesStay` is stated with "the longest entry says so", the code looks it up and decides in an order: `LookupFinds` and
`PolicyAllows` connect the two. The properties of a reply need what `routeInternal` knows while it waits: which groups it has
asked (`AskedOnce`), that what it has received is what the race returned (`ResultsKept`), and which call of the two it
is (`CheckFits`). Of the races only one fact is used: a verdict that was returned does not change.

Only model-checked are the liveness properties (`RaceReturns`, `GoroutinesEnd`, `EveryLookupReturns`, `PendingDrains`, `RouteReturns`,
`RequestsReturn`, `AutoUpdateEnds`, `ListenersComeUp`, `StopReturns`, `CloseEnds`): liveness under fairness is out of the prover's
reach. For the race and the flights, what is safety in them is proved: nobody waits for room in the channel or for a flight that
cannot go on (`SendersNeverWaitHolds`, `NobodyIsForgottenHolds`), and a number that every step lowers bounds their steps
(`StepsCountHolds`, `FlightsAdvanceHolds`). What is left to the fairness is that a step which can be made is made.

## 5. Not modelled

* UDP, DoQ and the one-shot path of the TCP and DoT clients open a socket for a request and close it after: no state is
  shared. The DoH client makes one QUIC transport for all requests, and a race's loser that dials after `Close` would
  leave its socket behind (doh.go:120); whether it can is `http3.Transport`'s affair, which the code does not tell;
* ECS options, TLS, certificates, the text of names and addresses in requests and log entries;
* the formats of the configuration files, defaults and the migration of old listen values: functions from text to text. So
  `Save` followed by `LoadConfig` is the identity in `ServiceManager`, while the code fills in defaults, puts rules in lower case
  and drops hosts without an address (config.go:168-186, 308-366): `RunningIsSaved` holds up to that;
* sessions, read-only pages and statistics of the web interface; the counters of `client/stats.go`, the QPS window and
  the totals of the query log, which only grow and which nothing reads but a page;
* the log file that `Reload` removes before it knows whether the new configuration starts (manager.go:124);
* log lines of different lengths: what is left of a line counts as one against the limit of the file; of a line that a logger
  had read half when its restoration failed, only the count would know, which is wrong already. A line longer than the 64 KB of a
  `bufio.Scanner` ends a restoration early as a failed read does, and is in the model as one;
* two loggers that touch the log file within one operation of the other; an entry written between the reading of the total
  (querylog.go:461) and the scan (508), which shifts a page by one: `PagesShowAll` is about pages of one state;
* writes to a client's connection that fail for the connection's own reasons;
* loss of power, as opposed to a kill: `fsync` and the order of renames on disk. A log line that it tears is, in `QueryLog`, a write cut
  short and then a crash.

## 6. Plan

Done: the modules of section 2, proofs of every safety and action property that the runs check, and of the refinement. What
is left:

1. the DoH client, once it is settled what of `http3.Transport` may be assumed (doh.go:120);
2. more of the web interface (the sessions) and of `LoadConfig`.
