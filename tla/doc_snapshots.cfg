SPECIFICATION Spec
CONSTANTS
    c1 = c1
    c2 = c2
    Clients = {c1}
    Tunnels <- MCTunnels
    Place <- MCPlace
    Moves <- MCMoves
    DoorsOf <- MCDoorsOf
    CellsOf <- MCCellsOf
    SpawnOf <- MCSpawnOf
    Clamp <- MCClamp
    NumCats = 2
    Garblers = {}
    Eager = {}
    MayStall = {}
    InboxCap = 1
    MaxActs = 6
PROPERTIES
    OnlyExpiredSnapshotsCleared
CHECK_DEADLOCK FALSE
