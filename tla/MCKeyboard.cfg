SPECIFICATION Spec
CONSTANTS
    PhysKey <- MCKeys
    Repeats <- MCNoCaps
    Capacity = 2
INVARIANTS
    TypeOK
    KeyRecognised
    TypedAsHeld
    ModifiersAgree
