CONSTANTS
    a = a b = b ta = ta tb = tb Legacy = Legacy Fresh = Fresh None = None
    x1 = x1 x2 = x2 x3 = x3
SPECIFICATION Spec
PROPERTIES VolumePromise DirectPromise
CHECK_DEADLOCK FALSE
