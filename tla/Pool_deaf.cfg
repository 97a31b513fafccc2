SPECIFICATION Spec
CONSTANTS
    s1 = s1  s2 = s2  a = a  b = b  d = d
    Server = {s1, s2}
    Node = {a, b, d}
    Peer = {b, d}
    Pools <- PoolValues
    Created <- Rows
    MaxPort = 2
    c1 = c1  c2 = c2
    Call = {c1, c2}
    Faults = {"deaf"}
    MaxRequests = 3
    MaxEdits = 1
    MaxFaults = 0
    Reaper = Reaper
    None = None
SYMMETRY Symmetry
INVARIANTS
    NeverReapsServing
CHECK_DEADLOCK FALSE
