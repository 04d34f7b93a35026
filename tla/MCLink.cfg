SPECIFICATION Spec
CONSTANTS
    LongLen = 3
    ShortLen = 2
    Events <- MCEvents
    Types <- MCTypes
    Fill <- MCFill
    FifoSize = 3
    MaxMessages = 3
    MaxFaults = 2
INVARIANTS
    TypeOK
    FramingExact
PROPERTIES
    ImplementsChannel
