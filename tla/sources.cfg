SPECIFICATION Spec
CONSTANTS
    c1 = c1
    c2 = c2
    c3 = c3
    i1 = i1
    video = video
    talk = talk
    Timer = Timer
    Nobody = Nobody
    Kinds = {video, talk}
    Back = {talk}
    Consumers = {c1, c2}
    Players = {i1}
    N = 2
    Medias <- TwoByTwoMedias
    Offers <- TwoByTwoOffers
    MatchAll = {c2}
    Loops <- SecondLoops
    MaxReconnects = 1
INVARIANTS TypeOK StoppedStaysStopped
PROPERTIES NoCloseWhileAdding
