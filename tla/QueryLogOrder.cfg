SPECIFICATION Spec
\* The smallest case: two requests of one logger.
CONSTANTS
    Clients = {c1, c2}
    MaxHistory = 2
    QueueSize = 1
    MaxLines = 2
    MaxLogs = 2
    MaxLoggers = 1
    MaxEvents = 0
INVARIANTS
    FileInOrder
CHECK_DEADLOCK FALSE
