SPECIFICATION FairSpec
CONSTANTS
    c1 = c1
    c2 = c2
    c3 = c3
    i1 = i1
    video = video
    talk = talk
    Timer = Timer
    Nobody = Nobody
    Kinds = {video, talk}
    Back = {talk}
    Consumers = {c1, c2, c3}
    Players = {}
    N = 1
    Medias <- ThreeMedias
    Offers <- OneOffer
    MatchAll = {}
    Loops <- NoLoops
    MaxReconnects = 0
INVARIANTS NoForgottenSource ViewerIsServed
PROPERTIES KeepsPromise KeepsFairPromise ExpiryIsCurrent
