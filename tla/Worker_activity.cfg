CONSTANTS
    Messages = {m1, m2}
    Workers = {w1, w2}
    MaxRetries = 1
    MaxAttempts = 3
    MaxFaults = 2
    None = None
SPECIFICATION Spec
INVARIANTS TypeOK ExactlyOnceWithoutFaults OneCopy FewRepeats
PROPERTY EveryMessageLeaves
