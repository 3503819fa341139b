\* Everything outside may refuse, answer too late or not delete, and the process may die;
\* or every deletion gets through; or calls are only refused; or answers get
\* lost and a push or GitLab may never answer at all.
CONSTANTS
  c1 = c1
  c2 = c2
  c3 = c3
  here = here
  there = there
  s1 = s1
  s2 = s2
  Calls = {c1, c2, c3}
  Clones = {here, there}
  CloneOf <- MCCloneOf
  ServerOf <- MCServerOf
  Requests <- MCRequests
  FaultSets = {{"reject"}, {"lost", "hang"}, {"reject", "lost", "crash"}, {"reject", "lost", "undelete", "crash"}}
SPECIFICATION FairSpec
INVARIANTS TypeOK TagUnderRelease UploadIsFinal SuccessComplete OneReleasePerVersion NoResidue
PROPERTIES OnlyOwnUndone ImplementsClaim CallEnds
