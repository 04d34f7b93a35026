------------------------------- MODULE MCRace -------------------------------
(* Race for two machines.  The bounds of the machines differ, so that one  *)
(* of them can take its click back, or come back, while the other stays.   *)
EXTENDS Race

CONSTANTS
    m1, m2,             \* the two machines
    Clicks1, Clicks2,   \* their clicks on the race button
    Visits1, Visits2    \* their visits to the race screen

MCPeer == {m1, m2}
MCClicks == [p \in Peer |-> IF p = m1 THEN Clicks1 ELSE Clicks2]
MCVisits == [p \in Peer |-> IF p = m1 THEN Visits1 ELSE Visits2]

(* Seeds whose sums tell who contributed which request, and whose low      *)
(* bytes are, at times, codes of the protocol.                             *)
MCSeed == [p \in Peer |-> IF p = m1 THEN <<INFO_WON, INFO_EXIT, 2>>
                                    ELSE <<INFO_ULONG, 8, 20>>]

(* Seeds of two bytes, codes that announce values of both widths: read     *)
(* outside its value, a byte of one opens another.                         *)
MCTypedSeed ==
    [p \in Peer |-> IF p = m1 THEN <<INFO_UINT + 256 * INFO_DOUBLE, INFO_INT + 256>>
                              ELSE <<INFO_FLOAT + 256 * 8>>]
=============================================================================
