SPECIFICATION Spec
CONSTANTS
    PhysKey <- MCRights
    Repeats <- MCNoCaps
    Capacity = 3
INVARIANTS
    KeyRecognised
