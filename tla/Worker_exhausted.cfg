CONSTANTS
    Messages = {m1, m2}
    Workers = {w1, w2}
    MaxRetries = 1
    MaxAttempts = 3
    MaxFaults = 0
    None = None
SPECIFICATION Safety
INVARIANT RetriesAreExhausted
