\* Two users drain the queue of a server that is run, run again and freed.
CONSTANTS
    o = o
    u = u
    Users = {o, u}
    Owner = o
    Peers <- MCPeers
    Entries <- MCEntries
    Width = 4
    NoMask = NoMask
    Unparsable = Unparsable
    MaxSockets = 2
    MaxRuns = 2
    MaxConns = 2
SPECIFICATION FairSpec
INVARIANTS
    EveryConnectionHeld
    AcceptsOnOpenSocket
    FreeClosesAll
    EntriesMatchBlocks
PROPERTIES
    VerdictsAreJust
    StopsTakeEffect
CHECK_DEADLOCK FALSE
