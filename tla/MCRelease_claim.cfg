\* An answer may be lost.
CONSTANTS
  c1 = c1
  c2 = c2
  c3 = c3
  here = here
  there = there
  s1 = s1
  s2 = s2
  Calls = {c1, c2}
  Clones = {here, there}
  CloneOf <- MCTwoCallsCloneOf
  ServerOf <- MCTwoCallsServerOf
  Requests <- MCClaimRequests
  FaultSets = {{"lost"}}
SPECIFICATION Spec
INVARIANTS RolledBackIsTrue
