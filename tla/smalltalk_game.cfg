SPECIFICATION Spec
CONSTANTS
    A = A
    D = D
    Keys = {A, D}
    Last = 126
    Place <- MCPlace
    Dist <- MCDist
    Followed <- MCFollowed
    Walk <- MCWalk
    Ahead <- MCAhead
    Speed = 5
    TunnelRadius = 20
    CatRadius = 30
    MouseStart = 30
    CatStart = 140
    TunnelPos = 90
INVARIANTS
    TypeOK
    KeysInStep
    VerdictIsRight
PROPERTY
    LetGoEnds
