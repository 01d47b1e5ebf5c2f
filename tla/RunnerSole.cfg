\* One owner; two more threads stop it and read its result.
CONSTANTS
    a = a
    b = b
    c = c
    Nobody = Nobody
    Callers = {a, b, c}
    Owners = {a}
    JobResults <- MCJobResults
    MaxRuns = 2
SPECIFICATION FairSpec
INVARIANTS
    NeverMisjoins
    TryjoinIsBounded
PROPERTIES
    GrantedStopEndsJob
    CallsEnd
