\* Every cut of every message, over both kinds of connections, followed by the
\* start of the next message.
CONSTANTS
    Symbols <- MCSymbols
    Methods = {"GET", "POST"}
    Numerals <- MCNumerals
    Lowercase <- MCLowercase
    Messages <- MCMessages
    Trailing <- MCTrailing
    BufferSize = 5
    MinimumSpace = 2
    Files = {f1}
    Closed = Closed
    Addresses = 2
    Timeouts = {0, 1}
    Wakeups = 1
SPECIFICATION OverSpec
INVARIANTS
    RoundTrip
    NeverWaitsInVain
    TerminatorKept
    NothingIsHeld
    WithinTimeout
PROPERTIES
    CallsReturn
CHECK_DEADLOCK FALSE
