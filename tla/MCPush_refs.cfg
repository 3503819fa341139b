\* One branch of one remote.
CONSTANTS
  here = here
  there = there
  first = first
  second = second
  Clones = {here, there}
  Calls = {first, second}
  CloneOf <- MCCloneOf
  HeadRef <- MCHeadRef
  MaxCommits = 3
SPECIFICATION Spec
INVARIANTS TypeOK OkMeansSent DefaultProtected
PROPERTIES OnlySeenReplaced
