CONSTANTS
    t1 = t1 t2 = t2 t3 = t3 NoTrack = NoTrack
    k1 = k1 k2 = k2 x1 = x1 Nothing = Nothing
    a1 = a1 a2 = a2 i1 = i1 i2 = i2 j1 = j1 j2 = j2 j3 = j3
    o1 = o1 o2 = o2 m1 = m1
    g1 = g1 g2 = g2 d1 = d1 d2 = d2 e1 = e1 e2 = e2 None = None NoError = NoError
SPECIFICATION Spec
PROPERTIES ClientPromise ServerPromise RegistryPromise SessionPromise PeersPromise PrimitivesPromise
CHECK_DEADLOCK FALSE
