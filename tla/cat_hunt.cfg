SPECIFICATION Spec
CONSTANTS
    Mice = {m1, m2}
    TrackerCats = 2
    Length = 11
    Place <- MCPlace
    Dist <- MCDist
    Field <- MCField
    Clamp <- MCClamp
    Doors <- MCDoors
    Entrances <- MCEntrances
    Ahead <- MCAhead
    Step = 2
    MouseStep = 3
    Reach = 3
    Sight = 5
    Under = Under
    Nobody = Nobody
    NaN = NaN
    MaxActs = 6
INVARIANTS
    TypeOK
    NoneOverlooked
    CaughtOnce
PROPERTY
    ComesToRest
