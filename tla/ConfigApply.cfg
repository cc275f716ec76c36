SPECIFICATION Spec
CONSTANTS
    Requests = {r1, r2}
    Keys = {"LATITUDE", "ALTITUDE", "GAIN", "GEO_CONFIGURED"}
    Tracked = {"LATITUDE", "ALTITUDE"}
    Coords = {"LATITUDE"}
    Geo = "GEO_CONFIGURED"
    Altitude = "ALTITUDE"
    Values = {"0", "1", "0m", "x", "true", "false"}
    Metres <- MCMetres
    NoMetres = NoMetres
    Zero = "0"
    Yes = "true"
    No = "false"
    Absent = Absent
    Nobody = Nobody
    Posts <- MCPosts
    Stored <- MCStored
    Edits <- MCEdits
    Lists <- MCLists
    MaxSchema = 1
    MaxClock = 2
    MaxSignals = 2
    MaxFailures = 1
INVARIANTS
    ConfigInv
    LoadedIsCurrent
PROPERTIES
    JudgedFairly
    UnchangedKeepsStamp
    SavesInOrder
    EveryRequestAnswered
CHECK_DEADLOCK FALSE
