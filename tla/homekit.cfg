SPECIFICATION Spec
CONSTANTS
    c1 = c1
    c2 = c2
    l1 = l1
    l2 = l2
    s1 = s1
    s2 = s2
    u1 = u1
    u2 = u2
    g1 = g1
    g2 = g2
    NoOne = NoOne
PROPERTIES PairingsPromise ViewersPromise SocketPromise VideoPromise AccountsPromise
CHECK_DEADLOCK FALSE
