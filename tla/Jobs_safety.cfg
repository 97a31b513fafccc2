SPECIFICATION Spec
CONSTANTS
    c1 = c1
    c2 = c2
    a1 = a1
    ContainerJobs = {c1, c2}
    AdoptedJobs = {a1}
    RemoteJobs = {c2}
    Faults = {"peer_down"}
    MaxRestarts = 1
INVARIANTS
    TypeOK
    NoTaskForSettledRow
    UnsettledRowHasOwner
    SucceededMeansDone
    CancelledAfterStop
PROPERTIES
    ImplementsLifecycle
CHECK_DEADLOCK FALSE
