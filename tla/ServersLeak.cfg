SPECIFICATION Spec
\* Stopped before its goroutine has bound the socket.
CONSTANTS
    Configs = {{"udp", "tcp"}}
    Requests = {r1}
    MaxStarts = 2
    UDPSizes = {0}
    Lengths = {512}
INVARIANTS
    StopFreesPort
CHECK_DEADLOCK FALSE
