------------------------------- MODULE Registry -------------------------------
(***************************************************************************)
(* tools/registry.py: publishing a package runs local programs and then    *)
(* one upload, which nothing takes back.  All is in the body's try; each   *)
(* program has a timeout.                                                  *)
(***************************************************************************)
EXTENDS Hosting

RegistryTools ==
  [pypi_publish |-> Tool("package", "look", {{"create"}}, {}),
   npm_publish |-> Tool("package", "look", {{"create"}}, {})]

\* The path may be outside of the roots; a token, the dist directory, package.json
\* or npm may be missing, the build or twine check fail.
Prepare(c) ==
  /\ call[c].tool \in DOMAIN RegistryTools
  /\ phase[c] = "look"
  /\ \/ Read(c, TRUE, "write")
     \/ Complain(c, "PathNotAllowed")

\* A registry takes a version once.  twine uploads file by file: when one is
\* refused those before it stay, and for the caller that is an answer lost.
Upload(c) ==
  /\ call[c].tool \in DOMAIN RegistryTools
  /\ phase[c] = "write"
  /\ Write(c, Free, Create(c), "finish")

RegistryStep(c) == Begin(c, RegistryTools) \/ Prepare(c) \/ Upload(c)
===============================================================================
