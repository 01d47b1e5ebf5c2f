\* A join while another owner is launching.
CONSTANTS
    a = a
    b = b
    c = c
    Nobody = Nobody
    Callers = {a, b}
    Owners = {a, b}
    JobResults <- MCJobResults
    MaxRuns = 2
SPECIFICATION Spec
INVARIANT JoinIsUnconditional
