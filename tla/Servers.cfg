SPECIFICATION FairSpec
\* Each configuration has a few listeners, as they meet only in the order in
\* which they are stopped; "udp" is in two, so that it is off in one generation.
CONSTANTS
    Configs = {{"acme", "udp"}, {"udp", "tcp"}, {"doq", "dot"}, {"h2", "h3"}}
    Requests = {r1}
    MaxStarts = 2
    UDPSizes = {0, 1232, 65535}
    Lengths = {512, 1232, 1233, 65508, 65535, 65536}
INVARIANTS
    PortInv
    HandlersBeforeRouter
    RepliesFit
PROPERTIES
    ListenersComeUp
    StopReturns
\* The last generation may have been stopped.
CHECK_DEADLOCK FALSE
