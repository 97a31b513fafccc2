SPECIFICATION FairSpec
CONSTANTS
    c1 = c1
    c2 = c2
    a1 = a1
    ContainerJobs = {c1}
    AdoptedJobs = {a1}
    RemoteJobs = {}
    Faults = {"half_run", "term_clean"}
    MaxRestarts = 2
PROPERTIES
    EveryJobSettles
    CancelSettles
CHECK_DEADLOCK FALSE
