SPECIFICATION FairSpec
\* Two clients at once, a queue of one, a ring of two and a file of two
\* lines, so that each of them overflows; two loggers, one after the other.
CONSTANTS
    Clients = {c1, c2}
    MaxHistory = 2
    QueueSize = 1
    MaxLines = 2
    MaxLogs = 3
    MaxLoggers = 2
    MaxEvents = 1
INVARIANTS
    LogInv
    CloseFlushes
    CountMatchesFile
    IDsUnique
    PagesShowAll
PROPERTIES
    CloseEnds
\* The entries are bounded by MaxLogs.
CHECK_DEADLOCK FALSE
