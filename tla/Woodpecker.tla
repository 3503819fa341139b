------------------------------ MODULE Woodpecker ------------------------------
(***************************************************************************)
(* tools/woodpecker.py: every body looks the numeric id of the repository  *)
(* up and then makes its own requests; two answers are given in the body   *)
(* without an exception.                                                   *)
(***************************************************************************)
EXTENDS Hosting

WoodpeckerTools ==
  [woodpecker_trigger |-> Tool("run", "look", {{"dispatch"}}, BadRepo),
   woodpecker_list_pipelines |-> Tool("run", "look", {{"get"}}, BadRepo),
   woodpecker_get_logs |-> Tool("run", "look", {{"get"}}, BadRepo),
   woodpecker_pipeline_cancel |-> Tool("run", "look", {{"cancel"}}, BadRepo),
   woodpecker_status |-> Tool("run", "look", {{"get"}}, BadRepo)]

Refuse(c, detail) == AnswerInBody(c, detail) /\ UNCHANGED hostVars

\* The repository may not be registered with Woodpecker.
woodpecker_repo_id(c) ==
  \E t \in DOMAIN WoodpeckerTools :
    /\ At(c, t, "look")
    /\ Read(c, TRUE, IF Passed(c, "get") THEN "reread" ELSE "write")

woodpecker_trigger(c) ==
  At(c, "woodpecker_trigger", "write") /\ Write(c, TRUE, RunAfter(c), "finish")

woodpecker_list_pipelines(c) ==
  At(c, "woodpecker_list_pipelines", "reread") /\ Read(c, TRUE, "finish")

woodpecker_status(c) ==
  At(c, "woodpecker_status", "reread") /\ Read(c, remote.there, "finish")

\* The steps, then the log of one of them: a pipeline may have none yet, or none
\* of the name.
woodpecker_get_logs(c) ==
  \/ /\ At(c, "woodpecker_get_logs", "reread")
     /\ \/ Read(c, remote.there, "logs")
        \/ remote.there /\ \E d \in {"no_steps", "step_not_found"} : Refuse(c, d)
  \/ At(c, "woodpecker_get_logs", "logs") /\ Read(c, remote.there, "finish")

\* 409 is answered for a pipeline that has ended.
woodpecker_pipeline_cancel(c) ==
  /\ At(c, "woodpecker_pipeline_cancel", "write")
  /\ \/ Write(c, remote.state = "open", RunAfter(c), "finish")
     \/ remote.state # "open" /\ Refuse(c, "already_finished")

WoodpeckerStep(c) ==
  \/ Begin(c, WoodpeckerTools)
  \/ woodpecker_repo_id(c) \/ woodpecker_trigger(c) \/ woodpecker_list_pipelines(c)
  \/ woodpecker_status(c) \/ woodpecker_get_logs(c) \/ woodpecker_pipeline_cancel(c)
===============================================================================
