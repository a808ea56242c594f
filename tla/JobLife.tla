------------------------------- MODULE JobLife -------------------------------
(***************************************************************************)
(* What backend/app/jobs.py promises of the status of a job, as seen in    *)
(* the jobs table: queued, running, then one end.  A job never starts      *)
(* again, never goes back, and stays ended as it ended; the sweep marks    *)
(* jobs that never reported back.                                          *)
(***************************************************************************)
EXTENDS JobStatus

CONSTANT Job
VARIABLE status

Init == status = [j \in Job |-> "none"]

Move(j, from, to) ==
    /\ status[j] \in from
    /\ status' = [status EXCEPT ![j] = to]

Queue(j)  == Move(j, {"none"}, "queued")
Start(j)  == Move(j, {"queued"}, "running")
Finish(j) == \E end \in TerminalJob : Move(j, ActiveJob, end)

\* sweep_stale: only what never reported back.
Sweep(js) ==
    /\ \A j \in js : status[j] \in ActiveJob
    /\ status' = [j \in Job |-> IF j \in js THEN "timeout" ELSE status[j]]

Next == \/ \E j \in Job : Queue(j) \/ Start(j) \/ Finish(j)
        \/ \E js \in SUBSET Job : Sweep(js)

Spec == Init /\ [][Next]_status
=============================================================================
