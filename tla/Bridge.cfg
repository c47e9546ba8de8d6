SPECIFICATION FairSpec
CONSTANTS
    w1 = w1
    w2 = w2
    a1 = a1
    a2 = a2
    h1 = h1
    h2 = h2
    NoOne = NoOne
    Withdrawals = {w1}
    Calls = {a1, a2}
    Hooks = {h1, h2}
    Balance = 2
    MaxFaults = 1

INVARIANT SentOnce
INVARIANT CancelledIsNotSent
INVARIANT DeletedIsUnfunded
INVARIANT CompletedIsPaid
PROPERTY OutcomeStays
PROPERTY SentSettles
PROPERTY AuditFollows

CHECK_DEADLOCK FALSE
