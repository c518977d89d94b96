SPECIFICATION Spec
CONSTANTS
    Geos = {g1}
    Handlers = {h1}
    NoGeo = NoGeo
    Down = Down
    Torn = Torn
    MaxEdits = 1
    MaxUpdates = 1
    MaxKills = 0
PROPERTIES
    NoRestartAfterStop
CHECK_DEADLOCK FALSE
