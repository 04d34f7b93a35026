SPECIFICATION FairSpec
CONSTANTS
    Points <- MCPoints
    Failures = {0, 1, 10}
INVARIANTS
    TypeOK
    ButtonsOfScreen
    WritesWithinBuffers
    CleanExit
PROPERTIES
    ReleaseRunsWhatLiesThere
    EscLeadsOut
CHECK_DEADLOCK FALSE
