\* Two owners that share a runner, both restarting, joining and freeing it.
CONSTANTS
    a = a
    b = b
    Nobody = Nobody
    Callers = {a, b}
    Owners = {a, b}
    JobResults <- MCJobResults
    MaxRuns = 3
SPECIFICATION Spec
INVARIANTS
    OneJobAtATime
    GrantedStopIsKept
    JoinWaitsForJob
    NoLostWakeup
    FreshResult
PROPERTY
    KeepsLifecycle
CONSTRAINT DefinedSoFar
