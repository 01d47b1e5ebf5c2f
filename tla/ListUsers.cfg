\* Two threads that allocate, grow, free and print; one of them keeps two lists.
CONSTANTS
    b1 = b1
    b2 = b2
    b3 = b3
    t1 = t1
    t2 = t2
    l = l
    l2 = l2
    registry = registry
    m_memory_chunks = registry
    NULL = NULL
    Blocks = {b1, b2, b3}
    Threads = {t1, t2}
    Keeper = t1
    Lists = {registry, l, l2}
    Nodes <- MCNodes
    Key <- MCKey
SYMMETRY Alike
SPECIFICATION UsersSpec
INVARIANTS
    LinksAgree
    StandsForItems
    WalkIsComplete
    MergeSortIsStable
    RegistryIsExact
    PrintReadsLiveChunks
    PrintIsWhole
