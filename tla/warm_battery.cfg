SPECIFICATION FairSpec
CONSTANTS
    Alarms = {m}
    PowerMode = "battery"
    MaxFaults = 0
INVARIANT TypeOK
PROPERTY BatterySleeps
