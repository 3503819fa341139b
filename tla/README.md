# githost-mcp in TLA+

githost-mcp is a server that gives software agents git and git-hosting tools
(local git, GitHub, Gitea, GitLab, Woodpecker, release, package registries) and
keeps a signed audit trail of what they did. This directory holds TLA+ modules
translated from its source, TLC configurations that check them on small
instances, and theorems checked by TLAPS.

Paths below are relative to `src/githost_mcp/`.

## The system

| part | state it keeps | operations | talks to | what makes it correct |
|---|---|---|---|---|
| audit log (`audit.py`) | live file, numbered backups, module-level lock | build a record, rotate, append; `AuditCtx.finish`, `audit_rejection` | file system; called by every tool | no acknowledged record is lost but from the oldest end; bounded size; no lock left held; one record per call |
| audit query (`tools/audit_query.py`) | none | walk live file and backups newest first | reads the files while writers rename them | no record stepped over; newest first |
| release (`tools/release.py`) | local list `created` | tag, push, three provider releases, two registries, rollback | git remote, providers, registries | nothing released without its tag; nothing of others undone; a failed call leaves nothing |
| checkout and commit (`tools/git_local.py`, `identity.py`) | index, remotes, verdict cached in `.git/config` | add, commit, remote | GitHub (fork lookup), the agent's grant | commits stay in scope and carry the right identity |
| remote refs (`tools/git_local.py`, `gitflags.py`) | local, tracking and remote refs | push, lease push, delete remote branch, pull, tag | git remote | nobody's commits overwritten unseen; an answer of success is true |
| clone, worktrees, local refs (`tools/git_local.py`, `bootstrap.py`) | directories, worktree registrations, branches, HEAD, tags | clone, worktree add/remove, branch, checkout, tag | git remote, Gitea, the agent's grant | a call gets a tree of its own and removes only what it made; an error leaves nothing behind |
| provider tools (`tools/github.py`, `gitea.py`, `gitlab.py`, `woodpecker.py`, `_providers/`) | client caches | one to four requests per tool | provider APIs | an answer and a record of success stand for a change that was made, an error for none; what was not passed is kept |
| registry (`tools/registry.py`) | none | build, check, upload by subprocess | PyPI, npm | exit status becomes the answer |
| configuration (`config.py`) | cached configuration | resolve grant, roots, globs | files, environment | resolved once; a policy that can be read is final |
| validation (`security.py`), errors (`errors.py`) | none | path, name, URL tests, reason classes | used by all tools | a denial has a class of the closed vocabulary |
| observability (`observability.py`), server (`server.py`) | counters, registration | metrics, bus events, start-up | | never disturbs a call |

Every agent has its own server process (one PM2 process each), with its own
audit log and configuration. Inside a process synchronous tools run on worker
threads; `release`, the Gitea and the Woodpecker tools are coroutines on the
event loop. Agents share what lies outside: checkouts, remotes, providers and
registries. The hard behaviours follow from that: threads meeting at the audit
files, queries racing rotation, processes meeting in one checkout or at one
remote, calls that take effect although their answer is lost, and processes that
die between two steps. `PROJECT.json` lists each hazard at its line.

## Modules

| module | models | state ↔ code | actions ↔ code |
|---|---|---|---|
| `AuditTrail` | the promise: numbered records, an unbroken run of the latest kept | | |
| `AuditLog` | `write_audit_entry`, `_rotate_if_needed` | `disk[0]` live file, `disk[i]` = `<path>.i`; `holder` = `_write_lock`; `shift` = loop variable `i`; `pc`, `size` per thread | one action per system call: `TakeLock` (lock, `getsize`), `RemoveOldest`, `ShiftBackup`, `RollLive`, `AppendRecord`/`AppendFails`/`AppendTorn`; `Crash` |
| `ReverseLines` | `_reverse_lines` | a file as a sequence of bytes; what a pass gives out and what it holds back | a function with one `Step` per block, no actions |
| `AuditQuery` | `audit_log_query` beside the writers | `query.source`, `query.answer` = loop over `sources`, `entries` | `Ask`, `NextSource` (existence test), `ReadSource` (open and read) |
| `VersionClaim` | the promise of releasing one version: the remote tag is a claim that one call at a time holds, under which it publishes and withdraws | | |
| `Release` | `release`, `_rollback` | `targets` = `effective_targets`, `repos` = providers whose repository was passed; `created` = the list; `next` = position in the function; `owner` = which call made each tag, release, upload | `Make`, `Rejected`, `AnswerLost` per step of `Plan`; `Undo` per step of `UndoPlan`; `Hang` in a step without a timeout |
| `Commit` | `git_add`, `git_remote`, `git_commit`, identity resolution | `staged` = index against HEAD; `remotes`; `cache` = `githost-mcp.upstream-provenance`; `call[a]` = locals of a running commit | `Gate` (glob test), `ReadRemotes`, `ReadCache`, `Lookup`, `Store`, `Record` |
| `Push` | `git_push`, `git_push_force_with_lease`, `git_branch_delete_remote`, `git_pull`, `evaluate_push` | `local`, `track`, `remote` refs; `past` = commits reachable; `call[c].sha` = `pushed_sha` or `deleted_sha`; `HeadRef` = a clone's own `<remote>/HEAD` | reading steps (`StartPush`, `StartLease`, `AskDefault`, `LookRemote`) and acting steps (`PushLands`, `PushRefused`, `PushAnswerLost`, `DeleteRemote`, `DeleteFails`) |
| `ToolCall` | what every tool shares: guards with `audit_rejection`, body, `AuditCtx.finish`, answer; `errors.py` | `phase[c]` = where the call is; `pending[c]` = argument of the coming `finish`; `exc[c]` = exception in flight; `trail[c]` = records made, and whether each was `kept`; `answer[c]` | `audit_rejection`, `Enter`, `FinishOk`, `FinishError`, `AnswerInBody`, `Vanish` |
| `Grants` | resolution of an agent's grant in `config.py`, roots and globs in `security.py` | `Sources` = environment, policy, manifest | operators, asked by `Checkout` |
| `Checkout` | the destination and the checkout that local tools meet at | `spot` = what is at the destination, `registered`, `refs`, `ask[c]` = arguments | `Start`, `Refused`, `RecordFirst`, `Return`; `Person` = the operator |
| `Clone` | `git_clone` with `bootstrap.py` | as `Checkout` | `CheckDestination`, `MakeDir`, `RunClone`, `Inspect`, `Cleanup` |
| `Worktree` | `git_worktree` | as `Checkout` | `CheckAdd`, `AddBranch`, `AddWorktree`, `OpenWorktree`; `LookRegistered`, `RemoveWorktree`, `Prune`; `ListWorktrees` |
| `LocalRefs` | `git_branch`, `git_checkout`, `git_tag` | as `Checkout` | one per git command and one per later read of HEAD |
| `LocalTools` | composes the three above; their properties | | |
| `Hosting` | the hosted object, and the requests tools make for it | `remote` = release, pull request, issue, run, repository or package; `call[c].seen` = what the call last read; `passed` = its arguments | `Read`, `Write` (done, refused, or done with its answer lost), `ReadBack`, `Hang`, `GiveUp`; `Person` |
| `GitHub`, `Gitea`, `GitLab`, `Woodpecker`, `Registry` | one operator per tool, of the tool's name: its requests in their order | as `Hosting` | phases `look`, `write`, `ready`, `reread`, `logs`, `readback` |
| `Providers` | composes the five above; their properties | | |
| `AuditLogProofs`, `AuditQueryProofs`, `ReleaseProofs`, `CommitProofs`, `PushProofs`, `LocalToolsProofs`, `ProvidersProofs` | theorems about the module of that name; `AuditQueryProofs` extends `AuditLogProofs` | | |
| `ToolCallProofs` | what the proofs about `LocalTools` and `Providers` share: lemmas on each action of `ToolCall` | | |

`ToolCall` is extended by `Checkout` and by `Hosting`: a tool's body is between
its `Enter` and its `FinishOk` or `FinishError`, so every property of answers and
records is about the body's steps and the shared life cycle together.
`AuditQuery` extends `AuditLog`: its writers are the writers of that module, step
for step. `MC*` modules give constants their values. Operators marked "Mutant"
are variations of the definition below them, a plausible bug each, which break
the property they are listed with in `PROJECT.json`.

### What is abstracted

* Two fields stand for all fields of a hosted object, title and body, and for
  draft flags, names, descriptions and base branches likewise: the properties ask
  only whether a field was passed, and who wrote it last. Labels, assignees and
  the like behave as fields do. A pull request's draft flag is kept, because
  `github_pr_update` reads it; creating one as a draft is not told apart.
* The read of the repository (`get_repo`) that opens the bodies of
  `tools/github.py` and the project look-up of `tools/gitlab.py` go with the
  request after them. What a body computes between two requests goes with the
  earlier one.
* Arguments are those that decide a branch: the method, the fields passed, the
  visibility. `InvalidArgument` stands for every refusal of an argument of a local
  tool, `ValueError` for every exception type without a class of its own.
* A path is the area it is in (`personal`, `gitea`, `worktrees`). A tree either
  holds a path that the deny globs match or it does not (`denied`): matching, and
  the walk over symlinks, are string work.
* Two repositories have one destination. That is the collision the convention
  allows (`bootstrap.py:331`); repositories with paths of their own do not meet.
* Nobody touches a directory while it is being cloned, but its call and other
  calls: the comment at `tools/git_local.py:1386` leaves that case for later.
* `git worktree add -b` makes a branch (`AddBranch`), then checkout and registration
  in one step. Each repository has two names for such branches (`Topics`), which the
  other tools do not touch. The tracking ref that the fetch before it moves is left out.
* A record is a number and a length. Scrubbing, signing and the JSON text are
  left out; so are the query's filters by agent, tool, repository and date,
  which only thin out an answer.
* A file keeps the set of its records; their order in the file is the order of
  their numbers because appends are serialised.
* Commits are numbers with the set of commits they reach. `git_push`'s upstream
  bookkeeping changes no ref and is left out. A pull that cannot fast-forward
  leaves the branch where it was (conflict or refused merge).
* A provider release, a tag and an upload are who made them. `targets` and the
  repositories passed with them are two sets, because a provider is released to only
  when it is in both (`Released`).
* What a clone's `<remote>/HEAD` names is a constant of the clone: no tool of the
  server sets it, and the clone may have had any value before.
* Remotes are their kind: internal, ours on GitHub, our fork of somebody else's,
  third-party, unreadable. Parsing of URLs is left out.
* `git_commit` writes tree and HEAD in one step: what GitPython does inside
  `index.commit` is outside this repository.

## Runs

Twelve runs, five of which end in a counterexample to something the code's own
texts say.

| run | shows |
|---|---|
| `query_race` | two writers, failing removals and appends, a crash between any two system calls and a query: the files implement `AuditTrail`, nothing is lost from the middle (`Unbroken`), records leave only with the oldest backup, files stay within their size, a writer always leaves the lock; the query never steps past a record that stayed readable (`NeverSkips`) and is exact when nothing rotated (`QuietQueryExact`), with a limit that ends it early and one that does not. Both hold of the early answer that there is nothing, too, except in a query begun between a roll and the next live file (`BetweenFiles`). `ReverseLinesExact` compares `_reverse_lines` with its definition for every file of at most `MaxFile` bytes and every block size; it is a statement about constants, which TLC evaluates in the first states |
| `audit_faults` | every step failing, torn lines and crashes: `Ordered` (".1 is newest") |
| `audit_shift_failure` (violation) | a failed shift is logged and the next rename destroys the backup that did not move |
| `query_order` (violation) | a rotation between two sources makes the query read one file twice: repeated records, not newest first |
| `release_faults` | three calls for one version in two clones and two processes, each with a target named without its repository; with refusals alone, with lost answers and hangs, with lost answers and crashes, or with failed deletions as well: nothing of others undone, a tag under every release, uploads final, success complete (a release at every provider named together with its repository, and nowhere else), one success per version, and every call ends unless a call of its process hangs in a push or in GitLab; when deletions get through, a failed call leaves nothing but the one thing whose answer was lost (`NoResidue`); the tag on the remote is the claim of `VersionClaim` (`ImplementsClaim`) |
| `release_claim` (violation) | a release whose answer was lost stays although the answer says `rolled_back` |
| `commit_checkout` | two agents of different scope, one remote of each kind, all coming and going while commits run: nothing gets into a commit that is out of its agent's scope, unless an agent who may stage it did so after the test (`CommitScoped`); the agent's identity is never used unasked beside a third-party remote, nor in a fork, that was there when the commit read the remotes |
| `commit_cache` (violation) | the cached verdict "own" hides a fork that was added later |
| `push_refs` | two clones, two concurrent calls, three commits: lease, default branch, and answers of success, which stand for a commit sent and name none made after it |
| `local` | two calls of the local tools under seven grants, for one destination or in one checkout, beside an operator: a clone that is reported is the call's own and within its scope, an error leaves nothing but what a worktree add leaves (its branch, and its tree when that cannot be opened), trees are removed only by who made them, nobody writes outside of a grant, every answer has a record with the same verdict, which is in the trail unless it could not be appended (`AnswersTold`) |
| `hosting` | two calls of any tools of one provider on one object, beside people at the web site: success stands for a change that was made (but for `github_actions`, which takes a refusal for success), an error for none, the recorded visibility is true, omitted fields are kept, a tag resolved once is not followed to another release, and every call ends or hangs in a request to GitLab |
| `hosting_lost_update` (violation) | two updates of one GitHub release: the later one puts back fields that it read before the earlier one wrote them, though its docstring promises that omitted fields keep their values (`tools/github.py:869`) |

Bounds. Two writers are enough for every pair of steps to interleave; three
backups make the shift loop run twice, so that first, middle and last pass
differ; the sizes 2 and 5 against a limit of 4 give files with two records, files
with one and a record over the limit by itself. `MaxRecords` lets the window fill
and the oldest backup be dropped several times. `TornLimit` bounds torn lines.
`MaxFile` of five bytes holds two lines and a newline at either end, and with
blocks of one to six bytes a line begins, ends and spans blocks in every way; a
longer file repeats one of these cases.

Three commits in `push_refs` are enough for a remote tip, a diverging rebase and a
push somebody else made in between; two calls for every race between a read and
the step that uses it. Two agents in `commit_checkout` suffice because a third
could only do again what the second does. Of the two clones in `push_refs` one has a
`<remote>/HEAD` that names an old default and one has none. In `release_faults` two
calls share a clone (they meet at the local tag); the third meets them at the remote and
shares the process of one of them, so that a hanging call finds one that it holds up
and one that it does not. Its four fault sets are there because what a call may leave
depends on which faults there are, and whether it ends on whether steps may hang.

In `local` and `hosting` every call is any tool with any arguments, so two of them
give every pair of tools, in every order; a third would meet the object in a state
that one of them or a person can leave it in. `MaxId` of two lets a release be
deleted and made again once, the case for a tag that names another release. The
sets in `FaultSets` keep faults that mask each other apart: a failing audit
directory excuses an error, a lost answer another.

Exceptions a property makes are cases the code does leave open, each visible in
its definition, as narrow as the model allows and reachable in the run:

* `ErrorMeansUnchanged` speaks of no call whose answer was lost or whose success
  could not be recorded, nor of `github_pr_update`, which makes two changes;
* `OkMeansApplied` lets a success of `github_actions` stand for no change: PyGithub
  returns False for a refused dispatch, rerun or cancel, and `tools/github.py:811-834`
  finishes with ok;
* `ErrorLeavesNothing` speaks of no call whose `rmtree` failed, nor of a tag whose push
  failed, nor of the branch and the tree that a failed worktree add leaves
  (`tools/git_local.py:1161`), which get in the way of a retry;
* `AnswersTold` lets a record be missing from the trail when the file takes none:
  `write_audit_entry` swallows that error (`audit.py:393`) and the answer goes out;
* `NeverSkips` and `QuietQueryExact` except the empty answer of a query that began in
  the gap between a roll and the next live file (`tools/audit_query.py:99`);
* `CommitScoped` excepts a path that was staged between the test of the index and
  the commit, by an agent who may: the commit takes it (`tools/git_local.py:847`);
* `PublicBesideThirdParty` and `PublicInFork` except the remotes added after the commit
  read them (`tools/git_local.py:178`), although `identity.py:157` says that commits made
  after that point resolve to public; `PublicInFork` also excepts what is added behind
  a cached verdict, the subject of `commit_cache`;
* `DefaultProtected` excepts a branch that became the default while the call ran, and a
  server that names no default to a clone whose `<remote>/HEAD` names another branch
  (`tools/git_local.py:326-332`): a lease push can rewrite the default branch then;
* `CallEnds` of `Release` excepts calls whose process has one that hangs in a push or in
  GitLab, and `CallEnds` of `Providers` those that hang in GitLab.

Further behaviours the models reproduce, without a run of their own:

* while the rename of the live file keeps failing (`audit.py:322`), each write has
  already removed the oldest backup and shifted the rest, so the window drains;
* a record appended behind a torn line joins it and cannot be parsed;
* between roll and append there is no live file, and `audit_log_query` answers
  that there is nothing although backups exist (`tools/audit_query.py:99`); when the
  append fails this lasts until a later one succeeds;
* a success of `release` repeats in `targets` a provider that was named without its
  repository and skipped (`tools/release.py:253`);
* `github_actions` answers `rerun` or `cancelled` True for what GitHub refused, and
  `dispatched` False after a record of ok;
* a worktree add that fails after its branch was made is refused when it is tried again
  with the same name;
* `_rollback` deletes github, gitlab, gitea, which is not the reverse order its
  comment names (`tools/release.py:274`);
* a remote branch that moves between `ls-remote` and the deletion is deleted with
  the older sha reported, and two deletions may both claim it;
* a commit between the reading of the tip and the push goes out with the push,
  and `pushed_sha` names the one before it (`tools/git_local.py:925`); that it names none
  made after the push is `OkMeansSent`;
* `git_branch` with list or create records its success, then reads HEAD, and on a
  detached HEAD is recorded again as an error (`tools/git_local.py:531`);
* a `git_tag` whose push raises keeps the local tag and does not say so;
* a repository whose visibility is as asked for is recorded as
  `ok:visibility_mismatch` when the emptiness read after it fails
  (`tools/github.py:1230`);
* a process that dies while it clones leaves the directory, and later clones of
  the repository are refused as already there.

## Fairness

`AuditLog!FairSpec`: a thread inside the lock runs code with no wait in it, so it
is weakly fair; a free lock is given to some waiting thread, not to a particular
one. Nothing makes new calls come. `Release!FairSpec`: a call that was begun does
not stop between steps (`Run`), because it waits for no other call. A step may end
in a hang where the code has no timeout: in the push of the tag, in its deletion,
and in the GitLab client (`Untimed`). These steps block the event loop, so a hanging
call holds up every call of its process (`Stalled`), and fairness asks nothing of
those. The clients of GitHub and Gitea and the uploads have timeouts. Crashes are not
fair: where they are on they may always be what happens to a call, and `CallEnds` counts
that as an end. `Providers!FairSpec`: each call's next
step is weakly fair, because FastMCP's worker threads and the event loop get to
it; that the other side answers is not assumed (`Hang`), that the client gives up
is, where it has a timeout (`TimesOut`: everyone but GitLab, whose client is made
without one, `_providers/gitlab_client.py:27`). `AuditQuery!FairQuerySpec` has the
fairness of the writers and none of the query: that a query ends is proved as far as
it is no liveness (`QueriesEnd`). The other modules check safety only and state no fairness.

## Proofs

Every invariant and action property of a passing run is a theorem, for any number
of calls, threads, agents, clones, repositories, records and backups; only the three
liveness properties are not. A run checks the same formula on its instance. No proof
assumes anything but the `ASSUME`s of the modules, which the runs evaluate, and where
it is said a condition on the constant `Faults`. These assumptions ask for what the code has: `AuditAssumption`
for sizes and limits that are numbers, `CommitAssumption` and `PushAssumption` for
the agents' globs and checkouts, `ReleaseAssumption` and `ToolCallAssumption` for
sets of faults among those modelled, `CheckoutAssumption` for at least one
repository and calls that are told apart from people, `HostingAssumption` and
`ProvidersAssumption` for kinds and hosts among those of the five providers.

### The audit log (`AuditLogProofs`)

* `TypeCorrect`: `Spec => []TypeOK`.
* `FilesNewestFirst`: `Spec => []Ordered`, with all faults and crashes.
* `NothingLostFromTheMiddle`: `Spec => []Unbroken`, if no shift fails and no line
  is torn (`Tolerated`). The run `audit_shift_failure` shows why the first is
  needed; a torn line swallows the record behind it.
* `FilesImplementTrail`: under the same assumption `Spec => Trail!TrailSpec`,
  step by step.
* `OnlyTheOldestIsForgotten`: under the same assumption the action property
  `OnlyOldestForgotten`, of which the refinement is the other half: what leaves the
  trail leaves it from the last backup.
* `FilesStayBounded`: `Spec => []SizeBound`, if the size can be read and the live
  file be moved aside (`Measured`). Any other fault is allowed, torn lines and
  crashes among them.
* `TrailIsEnough`: `Trail!TrailSpec` keeps the records gapless and the one written
  last among them: the abstract promise is worth implementing.
* `HolderComesOut`: the part of `LockFreed` that is not liveness. A holder has at most
  `BackupCount + 2` system calls before it (`LockSteps`), each of its steps leaves it
  fewer or frees the lock, and no other thread's step touches the holder or the files.

`Ordered` alone is not inductive, an append has to bring the highest number:
`OrderInv` adds that no file holds a number above `written` (`IdsKnown`) and that
the loop variable names a backup with a successor (`ShiftInv`). It needs no lock,
because every rename moves a file up by one slot. `Unbroken` is not
inductive, because in the middle of a rotation there is a hole among the backups
and the removal has already happened. `KeepInv` says where the hole is:

* `Mutex`: whoever is between size test and append holds the lock;
* `Gap`: while a writer is at "shift" with `i`, slot `i + 1` holds no records
  unless it is the last, and at "roll" neither does slot 1 (with more than one
  backup);
* `Filled`: no line is torn, a file with bytes has records, a missing file none;
* `LiveKept`: during a rotation the live file has records.

From these a rename never lands on records except those of the last backup, so
`Retained` changes only at the last slot and at the append, which are `Forget`
and `Record` of the abstract trail. `LiveKept` is what keeps `Forget` from
forgetting everything.

`SizeBound` is not inductive either: the test of the size is made up to
`BackupCount + 2` steps before the append it is made for. `SizeInv` adds `Room`
(at the append, the live file is empty or has room for the record at hand), which
`Mutex` keeps true while others wait, and `Weighed` (a file without bytes has no
records). `Measured` is needed: a failed `getsize` is taken for no need to rotate
(`audit.py:286`), and a failed roll leaves the record to the full file.

### The query (`AuditQueryProofs`)

* `QueriesChangeNothing`: `QuerySpec => Spec`, so that what is proved of the log
  holds beside queries.
* `TrailBesideQueries`, `FilesBesideQueries`: so `ImplementsTrail`, `Unbroken`,
  `OnlyOldestForgotten`, `Ordered` and `SizeBound` as `query_race` checks them, beside queries.
* `QueryTypes`, `QueriesNeverSkip`, `QuietQueriesAreExact`: `QueryTypeOK` (which has the
  writers' `TypeOK`), `NeverSkips` and `QuietQueryExact` with all faults and crashes. They
  are about every answer but an error and the empty one of a query begun in the gap
  (`Counts`).
* `QueriesEnd`: each step of a query leaves fewer tests and reads before it, and no
  step of a writer sends it back, however often the files are rotated under it.
* `ReadBackwards`: `_reverse_lines` gives the lines of a file of any length, last first,
  whatever the size of its blocks; `FilesReadRight` is `ReverseLinesExact` from it.

The reason why a query steps over nothing is that a record that can still be read
has not moved down (`MovesUp`). A step brings records only from the slot below
(`FromBelow`), and a record is in one slot, before and after (`OneSlot`, from
`Ordered`).
The invariant is `OrderInv` with `Walk`: while there is room, a record that stayed
readable is in the answer or in a file the query will still come to
(`NothingBehind`); with no rotation since the query began the answer is in
order and everything ahead is older (`QuietWalk`). Without room nothing is
promised of the records ahead, which is why `NeverSkips` speaks of answers below
their limit. Of the early answer `Covered` says that outside the gap a missing live file
means that no file has a record: a roll is the only way it goes, and the gap lasts
from there until an append makes it again. `ReadNewestFirst` proves that the order in which a file is read is
that of its numbers. It does without induction: the record at position `k` is
the one with `k - 1` newer ones, and the lemmas `NewerCount`, `NewerOrders` and
`NewerReached` are about cardinalities.

`ReadBackwards` is an induction over the blocks of a file, and every fact about
`Lines` is one over its bytes. The induction theorems of the library cannot be
used here, so the module proves what it needs: a nonempty set of numbers has a least
one (`LeastNumber`, from cardinalities), hence a set that has 0 and with each number
the next has all (`CountingUp`), and a function given by its first value and
its steps exists (`Unrolled`), hence the recursive functions of `ReverseLines` obey
their equations. Induction over a property `P` is then `CountingUp` for the set of the
numbers with `P`. `LinesOfParts` is the heart: the lines of two parts are those of the
first part with the first line of the second behind it, and then the others of the
second. It makes `Faithful`, that the lines given out and the one held back are
the lines of what was read, an invariant of the loop (`StepFaithful`).

### Release (`ReleaseProofs`)

`ReleaseTypes`, `TagStandsUnderRelease`, `UploadsAreFinal`, `SuccessIsComplete`,
`AtMostOneRelease`, `FailureLeavesNothing`, the action property `OnlyOwnIsUndone`
and the refinement `ReleasesImplementClaim`: all that `release_faults` checks but
liveness, for any number of calls and clones and every set of faults. The steps
and their order (`Plan`, `UndoPlan`) are the code's. Besides,

* `ClaimIsEnough`: `VersionClaim` by itself lets at most one call succeed. `ClaimInv` adds
  that a winner, and whoever has uploaded to a registry, holds the claim.
* `EveryStepIsProgress`: the part of `CallEnds` that is not liveness. A call is over
  within sixteen steps of its own (`StepsLeft`), rollback included, and no call's step
  lengthens another.

None of the invariants is inductive: each is about what stands, and what a step does
depends on the list `created` and on the place the call has come to. `IInv` says
that a place is one call's (`OneOwner`: git, providers and registries refuse a name
that is taken) and for each call what it owns by where it is:

* `Forward`: all wanted steps behind it that may not fail are its own, none ahead is;
* `Backward`: the next deletion is of a step it made, and what it made and has not
  deleted yet is still its own;
* `UploadKept`: a call with an upload is never on its way back and has its tag;
* `Accounted`: going forward, only uploads are not in `created`; from a failure on,
  only the one step whose answer was lost; and what is in it is still ahead in the
  rollback, if deletions work.

Because nobody else owns what a call owns, another call's step leaves these alone;
`AtMostOneRelease` is `OneOwner` at the remote tag. `SuccessIsComplete` speaks of the providers named together with
their repository, at which the call owns a release, and says that it owns none elsewhere.
`FailureLeavesNothing` has its
condition on the faults in the property: where no answer is lost nothing is left, where
answers are lost at most one thing is, as the run `release_claim` shows, and where
deletions fail nothing is promised.

In the refinement the owner of the remote tag holds the claim. A call publishes only
with its tag pushed (`Forward`), and `UndoPlan` deletes the tag behind the releases, so that
the claim is given up last; the mutant `UndoPlanTagFirst` of the run shows a rollback
that gives it up first. A call that uploaded never rolls back (`UploadKept`).

### Checkout and commit (`CommitProofs`)

* `CommitTypes`: `Spec => []TypeOK`.
* `ThirdPartyGetsPublic`: `Spec => []PublicBesideThirdParty`. The property
  speaks of the moment before the commit; `NoThirdPartySeen` carries it back to
  the fork question, where the remotes were last read, because a call that goes
  through the cache or GitHub decides without reading them again. A remote that is
  there at the commit was read or added since (`call[a].added`), however often remotes were
  removed and added again.
* `ForkGetsPublic`: `Spec => []PublicInFork`. `ForkSafe` follows the verdict from
  the lookup over the cache to the commit: as long as nothing is added behind a
  verdict, the remotes are among those a call has seen and those added since, a verdict
  of "own" means there was no fork among those seen, and a cached "own" means there is
  none now. The run `commit_cache` shows why the condition is needed.
* `CommitInScope`: `Spec => []CommitScoped`. `call[a].late` has who staged what since the
  test of a commit; that everything staged out of a commit's scope is in it has to hold
  through every staging, commit and removal of both agents.

### Remote refs (`PushProofs`)

* `PushTypes`: `Spec => []TypeOK`. Commits are numbers up to `made`, so that a call's
  fields need a type that does not grow (`CallType`) and a bound that does (`CallOK`).
* `PushOkMeansSent`: `OkMeansSent`, from `SentInv`: a call that is about to answer
  with success has put a commit on the remote, and its branch has not gone behind the tip
  it read, because commits reach only older ones (`Older`, `TipsMoveOn`).
  `RefusalsFail` is about the flags: every result that stands for a refusal is taken for one.
* `DefaultNeverRewritten`: `DefaultProtected`, from `AskedDefault`: a lease push that
  has been told that its branch is not the default acts on a default branch only if
  that changed since, or if the word was its own clone's: a server that names no default
  leaves it to `<remote>/HEAD`, which may be stale.
* `OnlySeenAreReplaced`: the action property `OnlySeenReplaced`. It needs that a
  commit reaches itself (`Reflexive`), or a remote that stays where it is would
  count as rewritten.

### Local tools (`LocalToolsProofs`)

`LocalTypes`, `LocalAnswersTold`, `ReportedCloneIsOwn`, `FailedCallLeavesNothing`,
and the action properties `OnlyOwnTreesGo` and `WritersAreEntitled`: all that the run
`local` checks, under any grant, beside people, with every fault.

`OkMeansOwnTree` is about the end of a clone; `IInv` says what is so in each
phase before: only a call past its `mkdir` owns what is at the destination
(`Ownership`), whoever is about to write has been let through by the grant
(`Permitted`), and from `mkdir` to the end the tree there is the call's own
(`Progress`), because the `mkdir` of another is refused and people do not touch a
clone in progress. `LocalAnswersTold` lets a record be lost only to a file that takes
none. `ErrorLeavesNothing` needs `Cleared` (a call that is about to fail has
removed what it made, or its record will excuse it: a worktree that cannot be opened,
or one whose tree was refused after its branch was made) and `Recorded` (the branch tools
have a record of success before their last read of HEAD). Steps of other calls are
handled by `Footprint`: what one step may do to the destination and the refs.

### Provider tools (`ProvidersProofs`)

`HostingTypes`, `HostingAnswersTold`, `SuccessMeansApplied`, `FailureMeansUnchanged`,
`VisibilityIsTold`, and the action properties `OnlyPassedFieldsChange` and
`OnlyWhatWasReadIsWritten`: all that the run `hosting` checks but liveness, and
`AnswersTold`, which the run `local` checks of the tools there. `SuccessMeansApplied`
says exactly once: a record of success of a tool that was asked for a change
stands for one change (`github_pr_update`: up to two) whose answer arrived. The one
exception is `github_actions`, whose success may stand for none.

`EveryStepIsProgress` is the part of `CallEnds` that is not liveness: a step of a call
brings it nearer to its end (`StepsLeft`, at most nine) and no other further from it;
people, and calls that hang for good, do nothing else to it.

`IInv` says of each call that its tool is one of its provider with arguments the
tool takes (`Suits`), how many requests it has made by its phase (`Requests`) and
what its records stand for (`Records`). The five providers have more than fifty
tools. The proof shows once of every tool that its steps have one of a few shapes
(`Looks`, `Writes`, `Ignores`, `Confirms`, `Refuses`, `Begins`: `Shape`), and then of every
shape that it keeps each conjunct.

### Answers and records (`ToolCallProofs`)

Lemmas on each action of `ToolCall`, cited by the two proofs above. `TellInv` is what
makes `AnswersTold` inductive: a call that is not done has no answer. A branch tool
that records its success and then fails has two records and one answer, which the
last record agrees with.

### What is only model-checked

* Liveness: `LockFreed` of `AuditLog`, `CallEnds` of `Release` and of `Providers`.
  They need fairness and ENABLED, which this prover does not handle. What is
  not liveness in them, that every step leads towards the end and none away from it,
  is proved: `HolderComesOut` and the two theorems `EveryStepIsProgress`.
* The counterexamples of the five violation runs.

## Not modelled

* Text handling: scrubbing, redaction, parsing of URLs, names and paths, glob
  matching, answers' wording. They are pure functions of strings.
* `observability.py`: every backend's error is caught where it happens and nothing
  reads its counters back. `server.py`: start-up checks and registration.
* `git_status`, `git_diff`, `git_log`, `git_show`: they change nothing, and answer
  what git answers at that moment.
* What PyGithub does by itself: by default it repeats a request that was answered
  with a 5xx, so one call may make a change twice. The retries are the library's
  own and no code here sets or counts them.
* Hangs of requests without a timeout inside `git` in the local tools (`fetch` and
  `ls-remote` of `git_worktree`, the pushes of `Push` and `LocalRefs`): only `git clone` is
  killed after a time. These modules check safety only, where a call that hangs is one
  that takes no further step. The pushes of `release` are modelled with their hangs.
* `release` is not built on `ToolCall`: its record is one `finish` per way out
  except for errors raised before its first `try` (`tools/release.py:93`), and its
  properties are about tags, releases and uploads.
* The configuration is resolved once, when `server.py` is imported, and never
  again while calls run; `Grants` therefore has no actions.

## What could be added

The parts of the system that keep state are modelled, and what the runs check of
them is proved but for liveness. What is left:

1. An abstract hosted object (one atomic change per call) that `Providers`
   implements, with the refinement proved step by step as that of `AuditTrail`;
   `SuccessMeansApplied` and `FailureMeansUnchanged` together say the same of each call
   when it is over.
2. The text handling listed above, on a model of strings: redaction in `security.py`
   and `audit.py`, glob matching, URL parsing.
