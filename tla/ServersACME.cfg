SPECIFICATION Spec
\* A configuration with certificates from ACME is replaced.
CONSTANTS
    Configs = {{"acme"}, {"udp"}}
    Requests = {r1}
    MaxStarts = 2
    UDPSizes = {0}
    Lengths = {512}
INVARIANTS
    NoNilServer
CHECK_DEADLOCK FALSE
