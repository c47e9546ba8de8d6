SPECIFICATION FairSpec
CONSTANTS
    c1 = c1
    c2 = c2
    c3 = c3
    t1 = t1
    t2 = t2
    d1 = d1
    d2 = d2
    NoOne = NoOne
    Limit = 3
    Checkouts = {c1}
    Opened = {c1}
    Transactions = {t1, t2}
    Deliveries = {d1, d2}
    Cents <- cents1
    Captures <- rapid
    MaxRounds <- once
    MaxCalls = 2
    MaxFaults = 1

INVARIANT CapHolds
INVARIANT StatusIsTrue
INVARIANT HeldOrCounted
PROPERTY Attended
PROPERTY StatusSettles

CHECK_DEADLOCK FALSE
