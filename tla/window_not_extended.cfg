SPECIFICATION Spec
CONSTANTS
    Alarms = {m}
    PowerMode = "battery"
    MaxFaults = 0
PROPERTY AlarmExtends
