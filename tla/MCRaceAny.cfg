SPECIFICATION Spec
CONSTANTS
    m1 = m1
    m2 = m2
    Clicks1 = 2
    Clicks2 = 0
    Visits1 = 1
    Visits2 = 2
    Peer <- MCPeer
    Seed <- MCTypedSeed
    MaxClicks <- MCClicks
    MaxVisits <- MCVisits
    LongLen = 3
    ShortLen = 2
    CountdownTicks = 1
    AckTicks = 0
    FifoSize = 5
INVARIANTS
    FrameWithinBuffer
