SPECIFICATION FairSpec
\* Three requests for two slots: two run at once and the third takes over a
\* slot of theirs, with the connection or without.
CONSTANTS
    r1 = r1
    r2 = r2
    r3 = r3
    Reqs = {r1, r2, r3}
    Id <- MCId
    Slots = 2
INVARIANTS
    PoolInv
    OneOwner
    NoCrossTalk
PROPERTIES
    CloseDrains
    RequestsReturn
\* Every request is made once.
CHECK_DEADLOCK FALSE
