------------------------------ MODULE ToolCall ------------------------------
(***************************************************************************)
(* What every tool function shares: the guards that refuse a call before   *)
(* it has an AuditCtx, the body in its try, the finish that writes the     *)
(* record, and the answer.  A tool module extends this one with the steps  *)
(* of its bodies; they leave a call in phase "finish" or, through Raise,   *)
(* in phase "fail".                                                        *)
(***************************************************************************)
EXTENDS Naturals, Sequences

CONSTANTS
  Calls,     \* calls of tools
  FaultSets  \* what can go wrong around them, one set in each behaviour

\* "dirs": os.makedirs for the audit directory raises.  "append": the audit file
\* cannot be opened or written.  "gone": the process dies, or the task that
\* awaits the body is cancelled.  The others are for the tool modules.
FaultKinds == {"dirs", "append", "gone", "lost", "hang", "web", "rmtree"}

ASSUME ToolCallAssumption == FaultSets \subseteq SUBSET FaultKinds

VARIABLES
  faults,   \* what can go wrong in this behaviour
  phase,    \* where the call is: see Ended for the last phases
  pending,  \* the result finish will be given: <<kind, detail>>
  exc,      \* the exception in flight, "none" without one
  answer,   \* what the caller has: "none", "ok", "error", or "raised"
  trail     \* the records made for the call, see AuditRecords

callVars == <<faults, phase, pending, exc, answer, trail>>

Ended == {"done", "gone"}

(***************************************************************************)
(* errors.py: the closed vocabulary, and how a finished call is classified *)
(***************************************************************************)

ReasonClasses ==
  {"not_in_allowed_roots", "write_glob_denied", "bad_repo_format", "no_such_remote",
   "branch_invalid", "push_rejected", "fetch_rejected", "remote_url_rejected",
   "remote_name_invalid", "identity_undetermined", "repo_not_found", "invalid_argument",
   "missing_argument", "protected_branch", "not_owned", "already_exists", "other"}

ByType ==
  [WriteGlobDenied |-> "write_glob_denied", RemoteUrlRejected |-> "remote_url_rejected",
   RemoteNameInvalid |-> "remote_name_invalid", BranchNameInvalid |-> "branch_invalid",
   PathNotAllowed |-> "not_in_allowed_roots", NoSuchRemote |-> "no_such_remote",
   RepoNotFound |-> "repo_not_found", RepoFormatInvalid |-> "bad_repo_format",
   InvalidArgument |-> "invalid_argument", MissingArgument |-> "missing_argument",
   ProtectedBranch |-> "protected_branch", NotOwned |-> "not_owned",
   AlreadyExists |-> "already_exists"]

ByResult ==
  [r \in {<<"error", "PushRejected">>, <<"error", "FetchRejected">>, <<"denied", "write_glob">>,
          <<"denied", "remote_url">>} |->
    CASE r[2] = "PushRejected" -> "push_rejected"
      [] r[2] = "FetchRejected" -> "fetch_rejected"
      [] r[2] = "write_glob" -> "write_glob_denied"
      [] OTHER -> "remote_url_rejected"]

\* What a handler passes to finish: two exceptions have handlers of their own.
Denials == [WriteGlobDenied |-> "write_glob", NotOwned |-> "not_owned"]
ErrorResult(e) == IF e \in DOMAIN Denials THEN <<"denied", Denials[e]>> ELSE <<"error", e>>

\* The type of the exception wins; then the class a denial names; then the
\* literal results.
ClassOf(result, e) ==
  IF result[1] = "ok" THEN "none"
  ELSE IF e \in DOMAIN ByType THEN ByType[e]
  ELSE IF result[1] = "denied" /\ result[2] \in ReasonClasses THEN result[2]
  ELSE IF result \in DOMAIN ByResult THEN ByResult[result]
  ELSE "other"

(***************************************************************************)
(* audit.py: finish, and the guards' audit_rejection                       *)
(***************************************************************************)

\* A record with the exception it was given; kept says whether it is in the file.
\* write_audit_entry swallows the error of a failed append.
AuditRecords(result, e) ==
  {[result |-> result, exc |-> e, kept |-> TRUE]}
    \union (IF "append" \in faults THEN {[result |-> result, exc |-> e, kept |-> FALSE]} ELSE {})

\* One record.  Whether it is kept makes no difference to the call, nor does a
\* failed emit of the metrics, which finish swallows.
Written(c, result, e) ==
  \E record \in AuditRecords(result, e) : trail' = [trail EXCEPT ![c] = Append(@, record)]

Goto(c, p) == phase' = [phase EXCEPT ![c] = p]
Tell(c, a) == answer' = [answer EXCEPT ![c] = a]

\* The body raises: its except clause is next.
Raise(c, e) ==
  /\ Goto(c, "fail")
  /\ exc' = [exc EXCEPT ![c] = e]

\* A guard refuses before any AuditCtx exists.  finish is outside of any try.
audit_rejection(c, class) ==
  /\ phase[c] = "idle"
  /\ Goto(c, "done")
  /\ \/ Written(c, <<"denied", class>>, "none") /\ Tell(c, "error")
     \/ "dirs" \in faults /\ Tell(c, "raised") /\ UNCHANGED trail
  /\ UNCHANGED <<faults, pending, exc>>

\* The guards let the call through.
Enter(c, p) ==
  /\ phase[c] = "idle"
  /\ Goto(c, p)
  /\ UNCHANGED <<faults, pending, exc, answer, trail>>

\* The last statements of the body: finish("ok..."), return.  makedirs is not
\* guarded, so the record of a success can still turn it into a failure.
FinishOk(c) ==
  /\ phase[c] = "finish"
  /\ \/ Written(c, pending[c], "none") /\ Goto(c, "done") /\ Tell(c, "ok") /\ UNCHANGED exc
     \/ "dirs" \in faults /\ Raise(c, "OSError") /\ UNCHANGED <<trail, answer>>
  /\ UNCHANGED <<faults, pending>>

\* except Exception as e: finish("error:..."), return {"error": ...}.
FinishError(c) ==
  /\ phase[c] = "fail"
  /\ Goto(c, "done")
  /\ exc' = [exc EXCEPT ![c] = "none"]
  /\ \/ Written(c, ErrorResult(exc[c]), exc[c]) /\ Tell(c, "error")
     \/ "dirs" \in faults /\ Tell(c, "raised") /\ UNCHANGED trail
  /\ UNCHANGED <<faults, pending>>

\* An error that the body answers itself, without an exception.
AnswerInBody(c, detail) ==
  /\ \/ /\ Written(c, <<"error", detail>>, "none")
        /\ Goto(c, "done")
        /\ Tell(c, "error")
        /\ UNCHANGED exc
     \/ "dirs" \in faults /\ Raise(c, "OSError") /\ UNCHANGED <<trail, answer>>
  /\ UNCHANGED <<faults, pending>>

\* No Exception: the process is killed, or a CancelledError passes through.
Vanish(c) ==
  /\ "gone" \in faults
  /\ phase[c] \notin Ended \union {"idle"}
  /\ Goto(c, "gone")
  /\ UNCHANGED <<faults, pending, exc, answer, trail>>

CallInit ==
  /\ faults \in FaultSets
  /\ phase = [c \in Calls |-> "idle"]
  /\ pending = [c \in Calls |-> <<"ok", "">>]
  /\ exc = [c \in Calls |-> "none"]
  /\ answer = [c \in Calls |-> "none"]
  /\ trail = [c \in Calls |-> <<>>]

(***************************************************************************)
(* Properties                                                              *)
(***************************************************************************)

Last(c) == trail[c][Len(trail[c])]

\* For every answer an agent gets a record with the same verdict was made before,
\* README's "every tool call writes ... before returning", and the record is in
\* the trail unless it could not be appended: then the answer goes out all the
\* same.  A body that fails after its finish has two records; the last one is
\* the true one.  A denial has a reason that the closed vocabulary names.  An
\* error escapes only when there is no directory for the trail.
AnswersTold ==
  \A c \in Calls :
    /\ answer[c] \in {"ok", "error"} =>
         /\ trail[c] # <<>>
         /\ (answer[c] = "ok") = (Last(c).result[1] = "ok")
         /\ Last(c).kept \/ "append" \in faults
         /\ Last(c).result[1] = "denied" => ClassOf(Last(c).result, Last(c).exc) # "other"
    /\ answer[c] = "raised" => "dirs" \in faults
=============================================================================
