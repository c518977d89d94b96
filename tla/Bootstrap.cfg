SPECIFICATION FairSpec
\* One host, as flights of different hosts share nothing but the counter; two
\* callers and three calls, so that one can lead, follow and come again while
\* an expired entry is there.  Two servers of which one can use up the time of
\* a flight: the loop runs to its end and is cut short.
CONSTANTS
    Hosts = {h1}
    Callers = {a, b}
    NServers = 2
    CacheTTL = 1
    StaleTTL = 1
    AttemptTimeout = 1
    LookupTimeout = 1
    MaxTime = 1
    MaxLookups = 3
INVARIANTS
    SingleFlight
    ErrorIsEarned
    FlightInv
PROPERTIES
    NewerEntryKept
    EveryLookupReturns
    PendingDrains
\* The calls are bounded by MaxLookups.
CHECK_DEADLOCK FALSE
