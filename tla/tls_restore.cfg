CONSTANTS
    Subtasks = {s1, s2}
    Hashes = {h1, h2}
    MaxMessages = 2
    MaxTlsRestarts = 1
SPECIFICATION TlsSpec
INVARIANT RestoredMatches
CHECK_DEADLOCK FALSE
