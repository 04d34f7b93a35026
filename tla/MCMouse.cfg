SPECIFICATION Spec
CONSTANT Reports <- MCReports
INVARIANTS
    TypeOK
    QuietPacketRealigns
PROPERTIES
    AlignmentKept
    PacketAsReported
