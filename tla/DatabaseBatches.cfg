\* Two threads on one connection: three batches of up to two queries, one raw command.
CONSTANTS
    t1 = t1
    t2 = t2
    NULL = NULL
    Threads = {t1, t2}
    MaxQueries = 2
    MaxRows = 1
    MaxBatches = 3
    MaxRaws = 1
SPECIFICATION FairSpec
INVARIANTS
    BatchesAreAtomic
    OutcomesAreTrue
    NothingIsLeftOpen
PROPERTY
    EveryBatchReturns
