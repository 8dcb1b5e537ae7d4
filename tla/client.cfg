SPECIFICATION FairSpec
CONSTANTS
    north = north
    Direction <- MCDirection
    MayClose = TRUE
    DownCap = 2
    MaxCredit = 2
INVARIANTS
    TypeOK
    SpeaksProtocol
    OnlyJoinersMissTheirMouse
    ButtonUntilReadyPrinted
    SendsHeldKeys
PROPERTIES
    HeldKeysAreSent
    HandlersReturn
CHECK_DEADLOCK FALSE
