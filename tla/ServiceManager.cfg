SPECIFICATION FairSpec
\* Two databases, so that a path can change to a missing file; two handlers
\* whose posts overlap; one scheduled update; one end in the middle of it all.
CONSTANTS
    Geos = {g1, g2}
    Handlers = {h1, h2}
    NoGeo = NoGeo
    Down = Down
    Torn = Torn
    MaxEdits = 2
    MaxUpdates = 1
    MaxKills = 1
INVARIANTS
    ManagerInv
    FilesAreWhole
    RunningIsSaved
PROPERTIES
    SavedTogether
    KeepsServing
    AutoUpdateEnds
\* The program ends, or all edits and updates are done.
CHECK_DEADLOCK FALSE
