SPECIFICATION Spec
CONSTANTS
    c1 = c1
    c2 = c2
    c3 = c3
    t1 = t1
    t2 = t2
    d1 = d1
    d2 = d2
    NoOne = NoOne
    Limit = 3
    Checkouts = {c1}
    Opened = {}
    Transactions = {t1}
    Deliveries = {d1, d2}
    Cents <- cents2
    Captures <- single
    MaxRounds <- twice
    MaxCalls = 3
    MaxFaults = 0

INVARIANT StatusesMoveForward

CHECK_DEADLOCK FALSE
