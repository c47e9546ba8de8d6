CONSTANTS
  Requests = {r1, r2}
  r1 = r1
  r2 = r2
  r3 = r3
  k1 = k1
  p1 = p1
  p2 = p2
  h1 = h1
  Keys = {k1}
  HeaderKeys = {h1}
  Payments = {p1, p2}
  Asks <- repeated
  NoOne = NoOne
  MaxFaults = 0
SPECIFICATION Spec
INVARIANT HeaderOnce
