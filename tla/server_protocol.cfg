SPECIFICATION Spec
CONSTANTS
    c1 = c1
    c2 = c2
    Clients = {c1, c2}
    Tunnels <- MCTunnels
    Place <- MCPlace
    Moves <- MCMoves
    DoorsOf <- MCDoorsOf
    CellsOf <- MCCellsOf
    SpawnOf <- MCSpawnOf
    Clamp <- MCClamp
    NumCats = 1
    Garblers = {c2}
    Eager = {c2}
    MayStall = {}
    InboxCap = 2
    MaxActs = 1
INVARIANTS
    TypeOK
    ClientsHaveMice
    LobbyIsQuiet
    StartersGetIdFirst
    StartersSeeThemselves
PROPERTIES
    OnlyForeignersStopTheTick
    GhostHoldsLobby
    ImplementsLifecycle
CHECK_DEADLOCK FALSE
