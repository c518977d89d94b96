SPECIFICATION Spec
\* The smallest case: two calls for one host and a flight that succeeds.
CONSTANTS
    Hosts = {h1}
    Callers = {a, b}
    NServers = 2
    CacheTTL = 1
    StaleTTL = 1
    AttemptTimeout = 1
    LookupTimeout = 1
    MaxTime = 2
    MaxLookups = 2
PROPERTIES
    EntryKeptForGrace
CHECK_DEADLOCK FALSE
