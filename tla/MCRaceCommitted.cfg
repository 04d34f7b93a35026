SPECIFICATION FairAttentiveSpec
CONSTANTS
    m1 = m1
    m2 = m2
    Clicks1 = 2
    Clicks2 = 2
    Visits1 = 2
    Visits2 = 1
    Peer <- MCPeer
    Seed <- MCSeed
    MaxClicks <- MCClicks
    MaxVisits <- MCVisits
    LongLen = 2
    ShortLen = 1
    CountdownTicks = 1
    AckTicks = 1
    FifoSize = 4
INVARIANTS
    NobodyRacesAlone
    ReadyFlagsAgree
PROPERTIES
    ImplementsContract
    BeginsOnStandingRequest
    ReadyGetRace
    RaceEnds
