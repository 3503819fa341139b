\* Everything a call can be, with each grant, beside an operator; with lost answers and
\* deaths, with removals that fail, with an audit directory that is gone.
CONSTANTS
  c1 = c1
  c2 = c2
  here = here
  there = there
  Calls = {c1, c2}
  Repos = {here, there}
  SourceSet <- MCSources
  FaultSets = {{"web", "lost", "gone"}, {"web", "rmtree", "dirs"}, {"dirs", "gone", "append"}}
SPECIFICATION Spec
SYMMETRY CallSymmetry
INVARIANTS TypeOK AnswersTold OkMeansOwnTree ErrorLeavesNothing
PROPERTIES OnlyOwnRemoved GrantRespected
