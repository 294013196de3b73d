SPECIFICATION FairSpec
CONSTANTS
    Alarms = {}
    PowerMode = "auto"
    MaxFaults = 1
INVARIANTS MainsIsConfirmed NothingLeft
PROPERTIES WarmUntilStopped
