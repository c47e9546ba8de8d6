SPECIFICATION FairSpec
CONSTANTS
    o1 = o1
    x1 = x1
    x2 = x2
    Offers = {o1}
    Executions = {x1, x2}
    NoOffer = NoOffer
    Funds = 2
    MaxFaults = 2

INVARIANT PayoutIsBacked
INVARIANT PaidOutOnce
INVARIANT OneTrueTerminalEvent
PROPERTY PaymentIsFollowedUp
CHECK_DEADLOCK FALSE
