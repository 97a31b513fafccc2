SPECIFICATION FairSpec
CONSTANTS
    here = here  peer = peer
    Here = here
    Peers <- ThePeers
    Pool <- ThePool
    MaxRequests = 2
    MaxMishaps = 2
INVARIANTS
    OneWriter
    SoundStart
PROPERTY
    Verdict
CHECK_DEADLOCK FALSE
