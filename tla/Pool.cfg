SPECIFICATION FairSpec
CONSTANTS
    s1 = s1  s2 = s2  a = a  b = b  d = d
    Server = {s1, s2}
    Node = {a, b, d}
    Peer = {b, d}
    Pools <- PoolValues
    Created <- Rows
    MaxPort = 2
    c1 = c1  c2 = c2
    Call = {c1, c2}
    Faults = {}
    MaxRequests = 2
    MaxEdits = 1
    MaxFaults = 2
    Reaper = Reaper
    None = None
INVARIANTS
    TypeOK
    PortsApart
    NeverReapsServing
    WholeOrAbsent
PROPERTIES
    SurvivorsGo
CHECK_DEADLOCK FALSE
