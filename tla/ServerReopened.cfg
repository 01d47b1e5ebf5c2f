\* What f_server_free leaves behind when f_server_run was called twice.
CONSTANTS
    o = o
    u = u
    Users = {o}
    Owner = o
    Peers <- MCPeers
    Entries <- MCEntries
    Width = 4
    NoMask = NoMask
    Unparsable = Unparsable
    MaxSockets = 2
    MaxRuns = 2
    MaxConns = 1
SPECIFICATION Spec
INVARIANT FreeAlwaysClosesAll
CHECK_DEADLOCK FALSE
