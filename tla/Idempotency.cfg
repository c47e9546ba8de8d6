CONSTANTS
  Requests = {r1, r2, r3}
  r1 = r1
  r2 = r2
  r3 = r3
  k1 = k1
  p1 = p1
  p2 = p2
  h1 = h1
  Keys = {k1}
  HeaderKeys = {h1}
  Payments = {p1, p2}
  Asks <- asks
  NoOne = NoOne
  MaxFaults = 1
SPECIFICATION FairSpec
INVARIANT SendOnce
INVARIANT AnswerIsTrue
INVARIANT FailureIsFinal
PROPERTY KeyComesFree
