\* Two updates of one release of GitHub.
SPECIFICATION Spec
CONSTANTS
  c1 = c1
  c2 = c2
  Calls = {c1, c2}
  FaultSets = {{}}
  Objects = {"release"}
  Hosts = {"github"}
  MaxId = 2
PROPERTIES ReleaseFieldsKept
