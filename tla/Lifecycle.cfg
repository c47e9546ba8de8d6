CONSTANTS
  Accounts = {a1, a2}
  OldAccounts = {a1}
  Runs = {r1, r2}
  NoRun = NoRun
  Operators = {o1, o2}
  Reliable = {r1}
SPECIFICATION Spec
SYMMETRY symmetry
INVARIANT StartedMeansPrepared
INVARIANT RouteFollowsCash
