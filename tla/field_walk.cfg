SPECIFICATION Spec
CONSTANT MaxActions = 1
INVARIANTS
    TypeOK
    StaysUnderground
    LanesAreOpen
    SurfaceInBounds
