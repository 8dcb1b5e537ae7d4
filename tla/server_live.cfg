SPECIFICATION FairSpec
CONSTANTS
    c1 = c1
    c2 = c2
    Clients = {c1, c2}
    Tunnels <- MC1Tunnels
    Place <- MC1Place
    Moves <- MC1Moves
    DoorsOf <- MC1DoorsOf
    CellsOf <- MC1CellsOf
    SpawnOf <- MC1SpawnOf
    Clamp <- MC1Clamp
    NumCats = 1
    Garblers = {}
    Eager = {}
    MayStall = {c2}
    InboxCap = 1
    MaxActs = 1
PROPERTIES
    AllReadyStarts
    EveryClientServed
    ActionsApplied
    TimeOutNoticed
CHECK_DEADLOCK FALSE
