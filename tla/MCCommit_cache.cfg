\* Two agents share a checkout; remotes come and go.
CONSTANTS
  developer = developer
  writer = writer
  code = code
  docs = docs
  Agents = {developer, writer}
  Paths = {code, docs}
  Scope <- MCScope
  Remotes <- MCRemotes
  Kind <- MCKind
SPECIFICATION Spec
INVARIANTS ForkIsThirdParty
