SPECIFICATION Spec
CONSTANTS
    Width = 4
    Height = 5
    GameTime = 3
    Day <- MCDay
    Starts <- MCStarts
    MaxDelay = 2
INVARIANTS
    TypeOK
    NothingUnnoticed
    EndsInTime
    TimerFailsLast
PROPERTIES
    CatCloses
    OnlyZeroLeaves
    GameEnds
CHECK_DEADLOCK FALSE
