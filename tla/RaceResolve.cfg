SPECIFICATION FairSpec
\* Three upstreams: a first answer, a later one and a silent one can differ.
CONSTANTS
    Clients = {c1, c2, c3}
    NoClient = NoClient
INVARIANTS
    FirstSuccessWins
    NegativeIsFallback
    ErrorIsLastResort
    RaceInv
PROPERTIES
    RaceReturns
    GoroutinesEnd
    ImplementsUpstreamRace
\* The race is over once it has returned and every goroutine has ended.
CHECK_DEADLOCK FALSE
