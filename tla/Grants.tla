-------------------------------- MODULE Grants --------------------------------
(***************************************************************************)
(* config.py and security.py: where an agent may read and write, resolved  *)
(* once from the environment, the workspace policy and the agent's         *)
(* manifest, and asked by every tool that takes a path.  A path is the     *)
(* area it is in; roots are sets of areas.                                 *)
(***************************************************************************)

Areas == {"personal", "gitea", "worktrees"}

Grant == [read: SUBSET Areas, write: SUBSET Areas, globs: BOOLEAN, deny: BOOLEAN]

\* An entry of the policy for one agent; globs and deny: whether it has
\* write_globs and write_globs_deny.
Entry == Grant

\* What there is to resolve from.  env: ALLOWED_REPO_ROOTS, parsed.  agents and
\* explicit: the agent's entry in either table, none or one.
Sources ==
  [env: SUBSET Areas,
   policy: [state: {"absent", "unreadable", "loaded"}, roots: SUBSET Areas, all: BOOLEAN,
            agents: SUBSET Entry, explicit: SUBSET Entry],
   manifest: [Areas -> {"none", "readonly", "readwrite"}]]

Unscoped(read, write) == [read |-> read, write |-> write, globs |-> FALSE, deny |-> FALSE]
Nothing == Unscoped({}, {})
The(S) == CHOOSE e \in S : TRUE

\* _load_policy: an entry in agents gets every root to read if the default says
\* so; an explicit entry only what it names; no entry means no access.
FromPolicy(p) ==
  IF p.agents # {} THEN [The(p.agents) EXCEPT !.read = IF p.all THEN p.roots ELSE {}]
  ELSE IF p.explicit # {} THEN The(p.explicit)
  ELSE Nothing

\* _load_manifest_roots: readonly grants read, readwrite both.
FromManifest(m) ==
  Unscoped({a \in Areas : m[a] # "none"}, {a \in Areas : m[a] = "readwrite"})

\* Mutant: a policy that grants nothing is taken for no policy.
ResolvedPastDenial(s) ==
  IF s.env # {} THEN Unscoped(s.env, s.env)
  ELSE IF s.policy.state = "loaded" /\ FromPolicy(s.policy) # Nothing THEN FromPolicy(s.policy)
  ELSE FromManifest(s.manifest)

\* _resolve_allowed_roots: env, then the policy if it can be read, then the
\* manifest.
Resolved(s) ==
  IF s.env # {} THEN Unscoped(s.env, s.env)
  ELSE IF s.policy.state = "loaded" THEN FromPolicy(s.policy)
  ELSE FromManifest(s.manifest)
===============================================================================
