SPECIFICATION Spec
CONSTANTS
    MemReserve = 1
    MemWarnReserve = 1
    DefaultUtil = 90
    s1 = s1
    s2 = s2
    here = here
    peer = peer
    x1 = x1
    x2 = x2
    None = None
    Server = {s1, s2}
    Node = {here, peer}
    Peer = {peer}
    Call = {x1, x2}
    Faults = {"deaf"}
    NodePool <- Pools
    Created <- Rows
    VllmArgs <- Fractions
    Weights <- Files
    Companions <- Drafts
    MaxAbandoned = 1
    MaxEdits = 1
SYMMETRY Symmetry
INVARIANTS
    NothingOrphaned
CHECK_DEADLOCK FALSE
