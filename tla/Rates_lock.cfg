CONSTANTS
    Instances = {i1, i2}
    FxRequests = {r1}
    Quoters = {}
    Countries = {us, ng}
    Currency <- MCCurrency
    US = us
    Pairs <- NoPairs
    Period = 2
    Ttl = 2
    MaxJob = 1
    MaxFaults = 0
    MaxMissed = 0
    Cap = 8
    NoRate = NoRate
    None = None
    us = us
    ng = ng
    USD = USD
    NGN = NGN
SPECIFICATION Safety
INVARIANT OneJobAtATime
