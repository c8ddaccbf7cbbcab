----------------------------- MODULE MCTaskJobs -----------------------------
(* Two jobs of one task: of a validation task, which has agent and report     *)
(* jobs, or of another agent task, which has driver turns and joins.          *)
EXTENDS TaskJobs

TaskTypes == [Jobs -> {"agent", "report"}] \cup [Jobs -> {"driver", "join"}]
=============================================================================
