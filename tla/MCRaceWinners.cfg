SPECIFICATION CommittedSpec
CONSTANTS
    m1 = m1
    m2 = m2
    Clicks1 = 1
    Clicks2 = 1
    Visits1 = 1
    Visits2 = 1
    Peer <- MCPeer
    Seed <- MCSeed
    MaxClicks <- MCClicks
    MaxVisits <- MCVisits
    LongLen = 1
    ShortLen = 1
    CountdownTicks = 1
    AckTicks = 1
    FifoSize = 4
INVARIANTS
    OneWinner
