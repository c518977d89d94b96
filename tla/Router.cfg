SPECIFICATION FairSpec
\* One upstream per group: what several do is RaceResolve's matter.  A service
\* name and its origin, and two table entries, so that any two can conflict.
\* An IPv4 entry applies to A and not to HTTPS questions.
CONSTANTS
    CNClients = {cn1}
    OverseasClients = {os1}
    NoClient = NoClient
    QTypes = {"A", "HTTPS"}
    HostKinds = {"v4", "invalid"}
    MaxLabels = 1
    MaxEntries = 2
INVARIANTS
    RouterInv
    NeverWorseThanEither
    AddressDecides
    NoDataOnlyForExistingOrigin
PROPERTIES
    RouteReturns
\* Route is one call.
CHECK_DEADLOCK FALSE
