SPECIFICATION FairSpec
CONSTANTS
    Ids = {a, b}
    None = None
    Pids = {p, q}
    NoProcess = NoProcess
    MaxChanges = 4
    MaxFaults = 2
INVARIANTS TypeOK OneChild StaleIsNoticed
PROPERTIES SettlesOrStops
