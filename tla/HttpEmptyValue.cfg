\* A header with an empty value, all bytes delivered.
CONSTANTS
    Symbols <- MCSymbols
    Methods = {"GET", "POST"}
    Numerals <- MCNumerals
    Lowercase <- MCLowercase
    Messages <- MCEmptyValue
    Trailing <- MCNoTrailing
    BufferSize = 5
    MinimumSpace = 2
    Files = {f1}
    Closed = Closed
    Addresses = 2
    Timeouts = {0, 1}
    Wakeups = 1
SPECIFICATION OverSpec
INVARIANT NeverWaitsInVain
CHECK_DEADLOCK FALSE
