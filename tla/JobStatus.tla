------------------------------ MODULE JobStatus ------------------------------
(***************************************************************************)
(* The status column of the jobs table (backend/app/jobs.py) and what each *)
(* UPDATE of that file makes of it.  The guards are the WHERE clauses of   *)
(* the statements, so an UPDATE that matches no row leaves the status as   *)
(* it is.  "none" stands for a row that has not been inserted yet.         *)
(***************************************************************************)

\* What the agent may report as the end of a job: its own words, or any other.
AgentResult == {"done", "failed", "timeout", "other"}

ActiveJob   == {"queued", "running"}
TerminalJob == {"done", "failed", "timeout"}
JobState    == {"none"} \cup ActiveJob \cup TerminalJob

\* Mutations: the agent's word stored as it came; an update that does not look
\* whether the job is over.
AfterResultVerbatim(s, r) == IF s \in TerminalJob THEN s ELSE r
AfterResultAnyway(s, r) == IF r \in TerminalJob THEN r ELSE "failed"

\* mark_running: only a queued job starts.
AfterStarted(s) == IF s = "queued" THEN "running" ELSE s

\* finish_job: any status the agent makes up counts as failed, and a job
\* that has ended keeps the status it ended with.
AfterResult(s, r) ==
    IF s \in TerminalJob THEN s
    ELSE IF r \in TerminalJob THEN r ELSE "failed"

\* fail_undispatched: only a job the agent never started.
AfterUndispatched(s) == IF s = "queued" THEN "failed" ELSE s

\* The UPDATE of sweep_stale names the row by its id alone.
AfterSweep(s) == "timeout"
==============================================================================
