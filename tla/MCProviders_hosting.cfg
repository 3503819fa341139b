\* Each kind of object of each provider; answers lost, audit directory gone, or hangs.
SPECIFICATION FairSpec
CONSTANTS
  c1 = c1
  c2 = c2
  Calls = {c1, c2}
  FaultSets = {{"lost", "web"}, {"dirs", "append"}, {"gone", "hang"}}
  Objects = {"release", "pull", "issue", "run", "repo", "package"}
  Hosts = {"github", "gitea", "gitlab", "woodpecker", "registry"}
  MaxId = 2
INVARIANTS TypeOK OkMeansApplied ErrorMeansUnchanged VisibilityTold
PROPERTIES OnlyPassedChange WritesWhatItRead CallEnds
