CONSTANTS
    Instances = {i1}
    FxRequests = {r1}
    Quoters = {q1}
    Countries = {us, ng}
    Currency <- MCCurrency
    US = us
    Pairs <- OnePair
    Period = 2
    Ttl = 2
    MaxJob = 1
    MaxFaults = 0
    MaxMissed = 0
    Cap = 11
    NoRate = NoRate
    None = None
    us = us
    ng = ng
    USD = USD
    NGN = NGN
SPECIFICATION Safety
INVARIANT QuotesFresh
