------------------------- MODULE ActionTablesProofs -------------------------
(***************************************************************************)
(* The two tables of ActionRunner agree, and a restart is earned: theorems *)
(* for every number of sockets, requests, rows and faults.                 *)
(*                                                                         *)
(* Every step is first read as what it may do to one job (JobMove), to one *)
(* row (RowMove), to what the agent works on (DeliveredMove) and to the    *)
(* locals of one coroutine (SendMove, ListMove, EndMove).  The invariant   *)
(* then follows from these readings, without looking at actions again.     *)
(***************************************************************************)
EXTENDS ActionRunnerProofs

Senders == Runners \cup Installs

-----------------------------------------------------------------------------
\* The invariant.

\* An install has ended well, of an action somebody wanted followed by a restart.
Earned == \E j \in JobId : /\ jobs[j].kind = "patch_install" /\ EndedWell(j)
                           /\ jobs[j].action # 0 /\ actions[jobs[j].action].asked

\* What the agent works on was sent to it, over one socket, and has not been
\* reported yet: only the sweep may have ended it.
DeliveredInv ==
    \A s \in Sockets : \A j \in delivered[s] :
        /\ jobs[j].sent /\ jobs[j].status \in ActiveJob \cup {"timeout"}
        /\ jobs[j].report = "none"
        /\ \A u \in Sockets : u # s => j \notin delivered[u]

\* A row gets its job when it is dispatched.
BareInv == \A a \in ActionId : actions[a].state \in {"none", "pending"} => actions[a].job = 0

\* Only the agent's word makes a job done, and only a wish a row a restart.
WordInv == /\ \A j \in JobId : jobs[j].status = "done" => EndedWell(j)
           /\ \A j \in JobId : ~jobs[j].sent => jobs[j].report = "none"
           /\ \A a \in ActionId : actions[a].reboot => actions[a].asked

TableInv ==
    /\ \A j \in JobId : jobs[j].sent => jobs[j].status # "none"
    /\ WordInv
    /\ DeliveredInv
    /\ BareInv
    /\ \A e \in ended : e.outcome = "done" => EndedWell(e.job)

\* The job a coroutine is about to send, or could not send, is its own.
Unsent(t) == /\ pc[t] \in {"send", "undo"} => ~jobs[job[t]].sent
             /\ pc[t] = "send" => jobs[job[t]].status \in {"queued", "timeout"}

\* run_due has a sent job where it writes dispatched, of the row's kind, and
\* the rows it has listed have no job yet.
Carries(t) ==
    /\ pc[t] = "mark" => jobs[job[t]].sent
    /\ pc[t] \in {"send", "mark", "undo"} => jobs[job[t]].kind = cur[t].kind
    /\ pc[t] \in Holding \cup {"pick"} =>
         \A r \in todo[t] : actions[r.id].job = 0 /\ actions[r.id].kind = r.kind
    /\ pc[t] \in Holding => actions[cur[t].id].job = 0 /\ actions[cur[t].id].kind = cur[t].kind

\* Two requests of the direct route have two jobs.
OwnJobs ==
    \A t, u \in Installs :
        t # u /\ pc[t] \in {"send", "undo"} /\ pc[u] \in {"send", "undo"} => job[t] # job[u]

\* What on_job_finished knows between its statements.
Ends(t) ==
    /\ pc[t] \in {"match", "settle"} =>
         job[t] \in JobId /\ (arg[t].outcome = "done" => EndedWell(job[t]))
    /\ pc[t] = "settle" =>
         /\ cur[t].id \in ActionId /\ actions[cur[t].id].job = job[t]
         /\ actions[cur[t].id].kind = cur[t].kind
         /\ cur[t].reboot => actions[cur[t].id].asked
    /\ pc[t] \in {"find", "write"} /\ cur[t].kind = "reboot" => Earned

\* What pending_actions.create has read of the row it is about to widen.
Found(t) == pc[t] = "write" /\ arg[t].found.reboot =>
               LET a == arg[t].found.id IN
               a \in ActionId /\ actions[a].state # "none" /\ actions[a].asked

LocalInv ==
    /\ \A t \in Senders : Unsent(t)
    /\ \A t \in Runners : Carries(t)
    /\ OwnJobs
    /\ \A t \in Tasks : Ends(t) /\ Found(t)

AgreeInv == TableInv /\ LocalInv /\ TablesAgree /\ RebootEarned

-----------------------------------------------------------------------------
\* What a step may do.

\* EndedWell, after the step.
WellAfter(j) == jobs'[j].report = "done"

KeepsJob(j) == /\ jobs'[j].kind = jobs[j].kind /\ jobs'[j].action = jobs[j].action
               /\ jobs'[j].sent = jobs[j].sent

\* Somebody is done with sending job j, at label.
LeavesJob(j, label) ==
    \E t \in Senders : pc[t] = label /\ job[t] = j /\ pc'[t] \notin {"send", "undo"}

JobMove(j) ==
    \/ KeepsJob(j) /\ jobs'[j].status = jobs[j].status /\ jobs'[j].report = jobs[j].report
    \/ jobs[j].status = "none" /\ jobs'[j].status = "queued" /\ ~jobs'[j].sent
       /\ jobs'[j].report = "none"
    \/ /\ KeepsJob(j) /\ jobs[j].status # "none" /\ jobs'[j].report = jobs[j].report
       /\ \/ jobs'[j].status = "timeout"
          \/ /\ LeavesJob(j, "undo")
             /\ jobs'[j].status = AfterUndispatched(jobs[j].status)
          \/ /\ \E s \in Sockets : j \in delivered[s]
             /\ jobs'[j].status = AfterStarted(jobs[j].status)
    \/ /\ KeepsJob(j) /\ jobs[j].status # "none"
       /\ \E r \in AgentResult : /\ jobs'[j].status = AfterResult(jobs[j].status, r)
                                 /\ jobs'[j].report = ActionEnd(r)
       /\ \E s \in Sockets : /\ j \in delivered[s] /\ j \notin delivered'[s]
                             /\ \A u \in Sockets : u # s => delivered'[u] = delivered[u]
    \/ /\ jobs'[j].kind = jobs[j].kind /\ jobs'[j].action = jobs[j].action
       /\ jobs'[j].status = jobs[j].status /\ jobs'[j].report = jobs[j].report
       /\ jobs'[j].sent
       /\ LeavesJob(j, "send")

\* A wish is never taken back, and no restart is noted without one.
AskedMove(a) == /\ actions[a].state # "none" /\ actions[a].asked => actions'[a].asked
                /\ actions'[a].reboot => actions'[a].asked

RowMove(a) ==
    \/ /\ actions'[a].kind = actions[a].kind /\ actions'[a].job = actions[a].job
       /\ actions'[a].state = "none" <=> actions[a].state = "none"
       /\ actions'[a].state = "pending" => actions[a].state = "pending"
       /\ actions'[a].state = "done" =>
            actions[a].state = "done" \/ actions[a].job = 0 \/ EndedWell(actions[a].job)
    \/ /\ actions[a].state = "none" /\ actions'[a].job = 0
       /\ \E t \in Tasks : pc[t] = "write" /\ actions'[a].kind = cur[t].kind
    \/ /\ actions'[a].kind = actions[a].kind /\ actions'[a].state = "dispatched"
       /\ \E t \in Runners : /\ pc[t] = "mark" /\ cur[t].id = a /\ pc'[t] \notin Holding
                             /\ actions'[a].job = job[t]

\* Job j is on its way over socket s.
GivenOver(s, j) ==
    /\ \E t \in Senders : pc[t] = "send" /\ job[t] = j
    /\ jobs'[j].sent
    /\ \A u \in Sockets : u # s => delivered'[u] = delivered[u]

DeliveredMove(s) == \A j \in delivered'[s] : j \in delivered[s] \/ GivenOver(s, j)

\* A coroutine that has a job to send had it before, or has just inserted it.
SendMove(t) ==
    /\ pc'[t] \in {"send", "undo"} =>
         \/ /\ pc[t] \in {"send", "undo"} /\ (pc'[t] = "send" => pc[t] = "send")
            /\ job'[t] = job[t] /\ cur'[t] = cur[t]
         \/ /\ pc'[t] = "send" /\ job'[t] \in NewJob
            /\ jobs'[job'[t]].status = "queued" /\ ~jobs'[job'[t]].sent
            /\ t \in Runners => jobs'[job'[t]].kind = cur'[t].kind
            /\ \A u \in Senders : u # t => pc'[u] = pc[u] /\ job'[u] = job[u]
    /\ pc'[t] = "mark" =>
         /\ job'[t] = job[t] /\ cur'[t] = cur[t]
         /\ pc[t] = "mark" \/ (pc[t] = "send" /\ jobs'[job[t]].sent)

\* What run_due still has to do it had to do before, or it has just listed it.
ListMove(t) ==
    /\ pc'[t] \in Holding \cup {"pick"} =>
         \/ pc[t] \in Holding \cup {"pick"} /\ todo'[t] \subseteq todo[t]
         \/ todo'[t] \subseteq DueRows /\ actions' = actions
    /\ pc'[t] \in Holding =>
         \/ pc[t] \in Holding /\ cur'[t] = cur[t]
         \/ pc[t] = "pick" /\ cur'[t] \in todo[t]

EndMove(t) ==
    /\ pc'[t] \in {"match", "settle"} =>
         \/ /\ pc[t] \in {"match", "settle"}
            /\ job'[t] = job[t] /\ arg'[t].outcome = arg[t].outcome
         \/ /\ pc'[t] = "match" /\ job'[t] \in JobId
            /\ arg'[t].outcome = "done" => WellAfter(job'[t])
    /\ pc'[t] = "settle" =>
         /\ job'[t] = job[t]
         /\ \/ pc[t] = "settle" /\ cur'[t] = cur[t]
            \/ /\ pc[t] = "match" /\ actions' = actions
               /\ \E a \in ActionId : actions[a].job = job[t] /\ cur'[t] = SnapshotOf(a)
    /\ pc'[t] \in {"find", "write"} /\ cur'[t].kind = "reboot" =>
         \/ pc[t] \in {"find", "write"} /\ cur'[t] = cur[t]
         \/ /\ pc[t] = "settle" /\ arg[t].outcome = "done"
            /\ cur[t].kind = "patch_install" /\ cur[t].reboot
    /\ pc'[t] = "write" =>
         \/ pc[t] = "write" /\ arg'[t].found = arg[t].found
         \/ arg'[t].found = NoRow
         \/ /\ actions' = actions
            /\ \E a \in ActionId : actions[a].state # "none" /\ arg'[t].found = SnapshotOf(a)

Moves ==
    /\ \A j \in JobId : JobMove(j)
    /\ \A a \in ActionId : RowMove(a) /\ AskedMove(a)
    /\ \A s \in Sockets : DeliveredMove(s)
    /\ \A e \in ended' : e \in ended \/ (e.outcome = "done" => WellAfter(e.job))
    /\ \A t \in Senders : SendMove(t)
    /\ \A t \in Runners : ListMove(t)
    /\ \A t \in Tasks : EndMove(t)

-----------------------------------------------------------------------------
\* The invariant follows from the moves.

\* No two coroutines have the same job to send.
LEMMA NotShared ==
    ASSUME TypeOK, SendInv, OwnJobs, NEW t \in Senders, NEW u \in Senders, t # u,
           pc[t] \in {"send", "undo"}, pc[u] \in {"send", "undo"}
    PROVE  job[t] # job[u]
<1>1. \A v \in Runners : pc[v] \in {"send", "undo"} => jobs[job[v]].action # 0
  BY BoundsAssumption DEF SendInv, JobInv, RowInv, Holding, ActionId
<1>2. \A v \in Installs : pc[v] \in {"send", "undo"} => jobs[job[v]].action = 0
  BY DEF SendInv, JobInv
<1>3. CASE t \in Runners /\ u \in Runners
  BY <1>3 DEF SendInv, LockInv, Critical
<1>4. CASE t \in Installs /\ u \in Installs
  BY <1>4 DEF OwnJobs
<1> QED
  BY <1>1, <1>2, <1>3, <1>4 DEF Senders

\* Whoever has a job to send has it in the table.
LEMMA HasJob ==
    ASSUME SendInv, NEW t \in Senders, pc[t] \in {"send", "undo"}
    PROVE  job[t] \in JobId /\ jobs[job[t]].status # "none"
BY DEF SendInv, JobInv, Senders

\* What no step takes back from a job.
JobStays(j) ==
    jobs[j].status # "none" =>
        /\ jobs'[j].status # "none"
        /\ jobs'[j].kind = jobs[j].kind /\ jobs'[j].action = jobs[j].action
        /\ jobs[j].sent => jobs'[j].sent
        /\ EndedWell(j) => WellAfter(j)

LEMMA JobsStay ==
    ASSUME TypeOK, TableInv, Moves, NEW j \in JobId
    PROVE  JobStays(j)
<1>1. JobMove(j) /\ jobs[j].status \in JobState
  BY DEF Moves, TypeOK, JobRow
<1>2. (\E s \in Sockets : j \in delivered[s]) =>
          jobs[j].status \in ActiveJob \cup {"timeout"} /\ jobs[j].report = "none"
  BY DEF TableInv, DeliveredInv
<1> QED
  BY <1>1, <1>2
  DEF JobMove, JobStays, KeepsJob, EndedWell, WellAfter, JobState, ActiveJob, TerminalJob, AgentResult,
      AfterStarted, AfterResult, AfterUndispatched

LEMMA EarnedStays ==
    ASSUME TypeOK, SendInv, TableInv, Moves, Earned
    PROVE  Earned'
<1>1. PICK j \in JobId : /\ jobs[j].kind = "patch_install" /\ EndedWell(j)
                         /\ jobs[j].action # 0 /\ actions[jobs[j].action].asked
  BY DEF Earned
<1>2. jobs[j].status # "none"
  BY <1>1 DEF TableInv, WordInv, EndedWell
<1>3. JobStays(j) /\ jobs[j].action \in ActionId /\ actions[jobs[j].action].state # "none"
  BY <1>1, JobsStay, BoundsAssumption DEF TypeOK, JobRow, ActionId, SendInv, RowInv
<1>4. AskedMove(jobs[j].action)
  BY <1>3 DEF Moves
<1> QED
  BY <1>1, <1>2, <1>3, <1>4 DEF JobStays, AskedMove, Earned, EndedWell, WellAfter

\* What the table of jobs and the agent's messages keep.
LEMMA TableKept ==
    ASSUME TypeOK, TypeOK', SendInv, SendInv', TableInv, LocalInv, Moves
    PROVE  TableInv'
<1>1. ASSUME NEW j \in JobId, jobs'[j].sent
      PROVE  jobs'[j].status # "none"
  <2>1. LeavesJob(j, "send") => jobs[j].status # "none"
    BY HasJob DEF LeavesJob
  <2> QED
    BY <1>1, <2>1, JobsStay DEF TableInv, Moves, JobMove, KeepsJob, JobStays
<1>2. ASSUME NEW s \in Sockets, NEW j \in delivered'[s]
      PROVE  /\ jobs'[j].sent /\ jobs'[j].status \in ActiveJob \cup {"timeout"}
             /\ jobs'[j].report = "none"
             /\ \A u \in Sockets : u # s => j \notin delivered'[u]
  <2>0. j \in JobId /\ JobMove(j) /\ JobStays(j)
    BY JobsStay DEF TypeOK, Moves
  <2>1. CASE j \in delivered[s]
    <3>1. /\ jobs[j].sent /\ jobs[j].status \in ActiveJob \cup {"timeout"}
          /\ jobs[j].report = "none"
          /\ \A u \in Sockets : u # s => j \notin delivered[u]
      BY <2>1 DEF TableInv, DeliveredInv
    <3>2. \A t \in Senders : pc[t] \in {"send", "undo"} => job[t] # j
      BY <3>1 DEF LocalInv, Unsent
    <3>3. jobs'[j].sent
      BY <2>0, <3>1 DEF JobStays, ActiveJob
    <3>4. jobs'[j].status \in ActiveJob \cup {"timeout"} /\ jobs'[j].report = "none"
      BY <1>2, <2>0, <2>1, <3>1, <3>2
      DEF JobMove, LeavesJob, ActiveJob, AfterStarted
    <3>5. \A u \in Sockets : u # s => j \notin delivered'[u]
      BY <3>1, <3>2 DEF Moves, DeliveredMove, GivenOver
    <3> QED
      BY <3>3, <3>4, <3>5
  <2>2. CASE j \notin delivered[s]
    <3>1. GivenOver(s, j)
      BY <1>2, <2>2 DEF Moves, DeliveredMove
    <3>2. PICK t \in Senders : pc[t] = "send" /\ job[t] = j
      BY <3>1 DEF GivenOver
    <3>3. ~jobs[j].sent /\ jobs[j].status \in {"queued", "timeout"}
      BY <3>2 DEF LocalInv, Unsent
    <3>4. \A u \in Sockets : j \notin delivered[u]
      BY <3>3 DEF TableInv, DeliveredInv
    <3>5. jobs'[j].status = jobs[j].status /\ jobs'[j].report = jobs[j].report
      BY <2>0, <3>1, <3>3 DEF JobMove, KeepsJob, GivenOver
    <3>6. jobs[j].report = "none"
      BY <2>0, <3>3 DEF TableInv, WordInv
    <3> QED
      BY <3>1, <3>3, <3>4, <3>5, <3>6 DEF GivenOver, ActiveJob
  <2> QED
    BY <2>1, <2>2
<1>3. ASSUME NEW a \in ActionId, actions'[a].state \in {"none", "pending"}
      PROVE  actions'[a].job = 0
  BY <1>3 DEF TableInv, BareInv, Moves, RowMove
<1>4. ASSUME NEW e \in ended', e.outcome = "done"
      PROVE  WellAfter(e.job)
  <2>1. CASE e \in ended
    <3>1. EndedWell(e.job) /\ e.job \in JobId
      BY <1>4, <2>1 DEF TableInv, TypeOK
    <3>2. JobStays(e.job) /\ jobs[e.job].status # "none"
      BY <3>1, JobsStay DEF TableInv, WordInv, EndedWell
    <3> QED
      BY <3>1, <3>2 DEF JobStays
  <2> QED
    BY <1>4, <2>1 DEF Moves
<1>5. ASSUME NEW j \in JobId
      PROVE  /\ jobs'[j].status = "done" => WellAfter(j)
             /\ ~jobs'[j].sent => jobs'[j].report = "none"
  <2>1. /\ jobs[j].status = "done" => EndedWell(j)
        /\ ~jobs[j].sent => jobs[j].report = "none"
        /\ JobMove(j)
    <3>1. JobMove(j)
      BY DEF Moves
    <3>2. /\ jobs[j].status = "done" => EndedWell(j)
          /\ ~jobs[j].sent => jobs[j].report = "none"
      BY DEF TableInv, WordInv
    <3> QED
      BY <3>1, <3>2
  <2>2. (\E s \in Sockets : j \in delivered[s]) =>
            jobs[j].sent /\ jobs[j].status \in ActiveJob \cup {"timeout"}
    BY DEF TableInv, DeliveredInv
  <2> QED
    BY <2>1, <2>2
    DEF JobMove, KeepsJob, EndedWell, WellAfter, AfterUndispatched, AfterStarted, AfterResult,
        ActionEnd, ActiveJob, TerminalJob
<1>6. \A a \in ActionId : actions'[a].reboot => actions'[a].asked
  BY DEF Moves, AskedMove
<1> QED
  BY <1>1, <1>2, <1>3, <1>4, <1>5, <1>6
  DEF TableInv, WordInv, DeliveredInv, BareInv, EndedWell, WellAfter

LEMMA UnsentKept ==
    ASSUME TypeOK, TypeOK', SendInv, SendInv', TableInv, LocalInv, Moves, NEW t \in Senders
    PROVE  Unsent(t)'
<1> SUFFICES ASSUME pc'[t] \in {"send", "undo"}
             PROVE  /\ ~jobs'[job'[t]].sent
                    /\ pc'[t] = "send" => jobs'[job'[t]].status \in {"queued", "timeout"}
  BY DEF Unsent
<1>1. SendMove(t)
  BY DEF Moves
<1>2. CASE pc[t] \in {"send", "undo"} /\ (pc'[t] = "send" => pc[t] = "send") /\ job'[t] = job[t]
  <2> DEFINE j == job[t]
  <2>1. j \in JobId /\ jobs[j].status # "none"
    BY <1>2, HasJob
  <2>2. ~jobs[j].sent /\ (pc[t] = "send" => jobs[j].status \in {"queued", "timeout"})
    BY <1>2 DEF LocalInv, Unsent
  <2>3. ~LeavesJob(j, "send") /\ ~LeavesJob(j, "undo")
    BY <1>2, NotShared DEF LeavesJob, LocalInv
  <2>4. \A s \in Sockets : j \notin delivered[s]
    BY <2>2 DEF TableInv, DeliveredInv
  <2>5. JobMove(j)
    BY <2>1 DEF Moves
  <2> QED
    BY <1>2, <2>1, <2>2, <2>3, <2>4, <2>5 DEF JobMove, KeepsJob
<1> QED
  BY <1>1, <1>2 DEF SendMove

LEMMA OwnJobsKept ==
    ASSUME TypeOK, TypeOK', SendInv, SendInv', TableInv, LocalInv, Moves
    PROVE  OwnJobs'
<1> SUFFICES ASSUME NEW t \in Installs, NEW u \in Installs, t # u,
                    pc'[t] \in {"send", "undo"}, pc'[u] \in {"send", "undo"}
             PROVE  job'[t] # job'[u]
  BY DEF OwnJobs
<1>0. t \in Senders /\ u \in Senders /\ SendMove(t) /\ SendMove(u)
  BY DEF Moves, Senders
<1>1. ASSUME NEW v \in Senders, pc[v] \in {"send", "undo"}
      PROVE  job[v] \notin NewJob
  BY <1>1, HasJob DEF NewJob
<1>2. CASE pc[t] \in {"send", "undo"} /\ job'[t] = job[t]
  <2>1. CASE pc[u] \in {"send", "undo"} /\ job'[u] = job[u]
    BY <1>2, <2>1 DEF LocalInv, OwnJobs
  <2>2. CASE job'[u] \in NewJob
    BY <1>0, <1>1, <1>2, <2>2
  <2> QED
    BY <1>0, <2>1, <2>2 DEF SendMove
<1>3. CASE job'[t] \in NewJob /\ pc'[u] = pc[u] /\ job'[u] = job[u]
  BY <1>0, <1>1, <1>3
<1> QED
  BY <1>0, <1>2, <1>3 DEF SendMove

LEMMA CarriesKept ==
    ASSUME TypeOK, TypeOK', SendInv, SendInv', TableInv, LocalInv, Moves, NEW t \in Runners
    PROVE  Carries(t)'
<1>0. /\ SendMove(t) /\ ListMove(t) /\ Carries(t) /\ Knows(t) /\ LockInv
      /\ t \in Senders
  BY Parts DEF Moves, LocalInv, Senders
<1>1. pc'[t] = "mark" => jobs'[job'[t]].sent
  <2>1. pc[t] = "mark" => /\ job[t] \in JobId /\ jobs[job[t]].status # "none"
                          /\ jobs[job[t]].sent
    BY <1>0 DEF Knows, Carries
  <2> QED
    BY <1>0, <2>1, JobsStay DEF SendMove, JobStays
<1>2. pc'[t] \in {"send", "mark", "undo"} => jobs'[job'[t]].kind = cur'[t].kind
  <2>1. pc[t] \in {"send", "mark", "undo"} =>
          /\ job[t] \in JobId /\ jobs[job[t]].status # "none"
          /\ jobs[job[t]].kind = cur[t].kind
    BY <1>0 DEF Knows, Carries
  <2> QED
    BY <1>0, <2>1, JobsStay DEF SendMove, JobStays
<1>3. ASSUME NEW a \in ActionId, actions[a].state # "none", actions[a].job = 0,
             pc[t] \in Holding \cup {"pick"},
             pc[t] = "mark" /\ cur[t].id = a => pc'[t] \in Holding
      PROVE  actions'[a].job = 0 /\ actions'[a].kind = actions[a].kind
  <2>1. RowMove(a)
    BY DEF Moves
  <2>2. ~ \E u \in Runners : /\ pc[u] = "mark" /\ cur[u].id = a /\ pc'[u] \notin Holding
    BY <1>0, <1>3 DEF LockInv, Critical, Holding
  <2> QED
    BY <1>3, <2>1, <2>2 DEF RowMove
<1>4. ASSUME pc'[t] \in Holding \cup {"pick"}, NEW r \in todo'[t]
      PROVE  actions'[r.id].job = 0 /\ actions'[r.id].kind = r.kind
  <2>1. CASE pc[t] \in Holding \cup {"pick"} /\ r \in todo[t]
    <3>1. /\ r.id \in ActionId /\ actions[r.id].state # "none"
          /\ actions[r.id].job = 0 /\ actions[r.id].kind = r.kind
          /\ pc[t] \in Holding => r.id # cur[t].id
      BY <1>0, <2>1 DEF Knows, Carries
    <3> QED
      BY <1>3, <2>1, <3>1 DEF Holding
  <2>2. CASE r \in DueRows /\ actions' = actions
    <3>1. PICK a \in ActionId : actions[a].state = "pending" /\ r = SnapshotOf(a)
      BY <2>2 DEF DueRows
    <3>2. r.id = a /\ r.kind = actions[a].kind /\ actions[a].job = 0
      BY <3>1 DEF SnapshotOf, TableInv, BareInv
    <3> QED
      BY <2>2, <3>2
  <2> QED
    BY <1>0, <1>4, <2>1, <2>2 DEF ListMove
<1>5. ASSUME pc'[t] \in Holding
      PROVE  actions'[cur'[t].id].job = 0 /\ actions'[cur'[t].id].kind = cur'[t].kind
  <2>1. CASE pc[t] \in Holding /\ cur'[t] = cur[t]
    <3>1. /\ cur[t].id \in ActionId /\ actions[cur[t].id].state # "none"
          /\ actions[cur[t].id].job = 0 /\ actions[cur[t].id].kind = cur[t].kind
      BY <1>0, <2>1 DEF Knows, Carries
    <3> QED
      BY <1>3, <1>5, <2>1, <3>1
  <2>2. CASE pc[t] = "pick" /\ cur'[t] \in todo[t]
    <3>1. /\ cur'[t].id \in ActionId /\ actions[cur'[t].id].state # "none"
          /\ actions[cur'[t].id].job = 0 /\ actions[cur'[t].id].kind = cur'[t].kind
      BY <1>0, <2>2 DEF Knows, Carries
    <3> QED
      BY <1>3, <1>5, <2>2, <3>1
  <2> QED
    BY <1>0, <1>5, <2>1, <2>2 DEF ListMove
<1> QED
  BY <1>1, <1>2, <1>4, <1>5 DEF Carries

\* A dispatched row keeps its job and its kind.
LEMMA RowStays ==
    ASSUME TypeOK, SendInv, TableInv, LocalInv, Moves, NEW a \in ActionId, actions[a].job # 0
    PROVE  actions'[a].job = actions[a].job /\ actions'[a].kind = actions[a].kind
<1>1. RowMove(a) /\ actions[a].state # "none"
  BY DEF Moves, TableInv, BareInv
<1>2. \A t \in Runners : pc[t] = "mark" /\ cur[t].id = a => FALSE
  BY DEF LocalInv, Carries, Holding
<1> QED
  BY <1>1, <1>2 DEF RowMove

LEMMA EndsKept ==
    ASSUME TypeOK, TypeOK', SendInv, TableInv, LocalInv, TablesAgree, Moves, NEW t \in Tasks
    PROVE  Ends(t)' /\ Found(t)'
<1>0. EndMove(t) /\ Ends(t) /\ Found(t)
  BY DEF Moves, LocalInv
<1>asked. ASSUME NEW a \in ActionId, actions[a].asked, actions[a].state # "none"
          PROVE  actions'[a].asked /\ actions'[a].state # "none"
  <2>1. AskedMove(a) /\ RowMove(a)
    BY DEF Moves
  <2> QED
    BY <1>asked, <2>1 DEF AskedMove, RowMove
<1>1. ASSUME pc'[t] \in {"match", "settle"}
      PROVE  job'[t] \in JobId /\ (arg'[t].outcome = "done" => WellAfter(job'[t]))
  <2>1. CASE /\ pc[t] \in {"match", "settle"}
             /\ job'[t] = job[t] /\ arg'[t].outcome = arg[t].outcome
    <3>1. job[t] \in JobId /\ (arg[t].outcome = "done" => EndedWell(job[t]))
      BY <1>0, <2>1 DEF Ends
    <3>2. EndedWell(job[t]) => WellAfter(job[t])
      BY <3>1, JobsStay DEF JobStays, EndedWell, TableInv, WordInv
    <3>3. WellAfter(job[t]) => WellAfter(job'[t])
      BY <2>1
    <3> QED
      BY <2>1, <3>1, <3>2, <3>3
  <2> QED
    BY <1>0, <1>1, <2>1 DEF EndMove
<1>2. ASSUME pc'[t] = "settle"
      PROVE  /\ cur'[t].id \in ActionId /\ actions'[cur'[t].id].job = job'[t]
             /\ actions'[cur'[t].id].kind = cur'[t].kind
             /\ cur'[t].reboot => actions'[cur'[t].id].asked
  <2>0. job'[t] = job[t]
    BY <1>0, <1>2 DEF EndMove
  <2>1. CASE pc[t] = "settle" /\ cur'[t] = cur[t]
    <3>1. /\ cur[t].id \in ActionId /\ actions[cur[t].id].job = job[t]
          /\ actions[cur[t].id].kind = cur[t].kind /\ job[t] \in JobId
          /\ cur[t].reboot => actions[cur[t].id].asked
      BY <1>0, <2>1 DEF Ends
    <3>2. actions[cur[t].id].job # 0 /\ actions[cur[t].id].state # "none"
      BY <3>1, BoundsAssumption DEF JobId, TableInv, BareInv
    <3> QED
      BY <1>asked, <2>0, <2>1, <3>1, <3>2, RowStays
  <2>2. CASE actions' = actions /\ \E a \in ActionId : actions[a].job = job[t] /\ cur'[t] = SnapshotOf(a)
    BY <2>0, <2>2 DEF SnapshotOf, TableInv, WordInv
  <2> QED
    BY <1>0, <1>2, <2>1, <2>2 DEF EndMove
<1>3. ASSUME pc'[t] \in {"find", "write"}, cur'[t].kind = "reboot"
      PROVE  Earned'
  <2>1. CASE pc[t] \in {"find", "write"} /\ cur'[t] = cur[t]
    BY <1>0, <1>3, <2>1, EarnedStays DEF Ends
  <2>2. CASE /\ pc[t] = "settle" /\ arg[t].outcome = "done"
             /\ cur[t].kind = "patch_install" /\ cur[t].reboot
    <3>1. /\ actions[cur[t].id].asked
          /\ job[t] \in JobId /\ EndedWell(job[t]) /\ cur[t].id \in ActionId
          /\ actions[cur[t].id].job = job[t] /\ actions[cur[t].id].kind = "patch_install"
      BY <1>0, <2>2 DEF Ends
    <3>2. actions[cur[t].id].job # 0 /\ cur[t].id # 0
      BY <3>1, BoundsAssumption DEF JobId, ActionId
    <3>3. jobs[job[t]].action = cur[t].id /\ jobs[job[t]].kind = "patch_install"
      BY <3>1, <3>2 DEF TablesAgree
    <3> QED
      BY <3>1, <3>2, <3>3, EarnedStays DEF Earned
  <2> QED
    BY <1>0, <1>3, <2>1, <2>2 DEF EndMove
<1>4. ASSUME pc'[t] = "write", arg'[t].found.reboot
      PROVE  LET a == arg'[t].found.id IN
             a \in ActionId /\ actions'[a].state # "none" /\ actions'[a].asked
  <2>1. CASE pc[t] = "write" /\ arg'[t].found = arg[t].found
    BY <1>0, <1>4, <1>asked, <2>1 DEF Found
  <2>2. CASE arg'[t].found = NoRow
    BY <1>4, <2>2 DEF NoRow, Want
  <2>3. CASE /\ actions' = actions
             /\ \E a \in ActionId : actions[a].state # "none" /\ arg'[t].found = SnapshotOf(a)
    BY <1>4, <2>3 DEF SnapshotOf, TableInv, WordInv
  <2> QED
    BY <1>0, <1>4, <2>1, <2>2, <2>3 DEF EndMove
<1> QED
  BY <1>1, <1>2, <1>3, <1>4 DEF Ends, Found, EndedWell, WellAfter

LEMMA AgreeKept ==
    ASSUME TypeOK, TypeOK', SendInv, TableInv, LocalInv, TablesAgree, Moves
    PROVE  TablesAgree'
<1> SUFFICES ASSUME NEW a \in ActionId, actions'[a].job # 0
             PROVE  LET j == actions'[a].job IN
                    /\ jobs'[j].sent /\ jobs'[j].action = a
                    /\ jobs'[j].kind = actions'[a].kind
                    /\ actions'[a].state = "done" => WellAfter(j)
  BY DEF TablesAgree, EndedWell, WellAfter
<1> DEFINE j == actions'[a].job
<1>0. RowMove(a) /\ j \in JobId
  BY BoundsAssumption DEF Moves, TypeOK, ActionRow, JobId
<1>1. CASE actions[a].job # 0
  <2>1. j = actions[a].job /\ actions'[a].kind = actions[a].kind
    BY <1>1, RowStays
  <2>2. /\ jobs[j].sent /\ jobs[j].action = a /\ jobs[j].kind = actions[a].kind
        /\ actions[a].state = "done" => EndedWell(j)
    BY <1>1, <2>1 DEF TablesAgree
  <2>3. JobStays(j) /\ jobs[j].status # "none"
    BY <1>0, <2>2, JobsStay DEF TableInv
  <2>4. actions'[a].state = "done" => EndedWell(j)
    <3>1. actions[a].job = j /\ j # 0
      BY <1>1, <2>1
    <3> QED
      BY <1>0, <2>2, <3>1 DEF RowMove
  <2> QED
    BY <2>1, <2>2, <2>3, <2>4 DEF JobStays
<1>2. CASE actions[a].job = 0
  <2>1. PICK t \in Runners : pc[t] = "mark" /\ cur[t].id = a /\ j = job[t]
    BY <1>0, <1>2 DEF RowMove
  <2>2. actions'[a].kind = actions[a].kind /\ actions'[a].state = "dispatched"
    BY <1>0, <1>2 DEF RowMove
  <2>3. /\ jobs[j].sent /\ jobs[j].kind = cur[t].kind /\ actions[a].kind = cur[t].kind
    BY <2>1 DEF LocalInv, Carries, Holding
  <2>4. jobs[j].status # "none" /\ jobs[j].action = a
    BY <2>1 DEF SendInv, JobInv
  <2>5. JobStays(j)
    BY <1>0, JobsStay
  <2> QED
    BY <2>2, <2>3, <2>4, <2>5 DEF JobStays
<1> QED
  BY <1>1, <1>2

LEMMA EarnedKept ==
    ASSUME TypeOK, TypeOK', SendInv, TableInv, LocalInv, RebootEarned, Moves
    PROVE  RebootEarned'
<1> SUFFICES ASSUME NEW a \in ActionId, actions'[a].kind = "reboot", actions'[a].state # "none"
             PROVE  Earned'
  BY DEF RebootEarned, Earned
<1>1. RowMove(a)
  BY DEF Moves
<1>2. CASE actions[a].kind = "reboot" /\ actions[a].state # "none"
  BY <1>2, EarnedStays DEF RebootEarned, Earned
<1>3. ASSUME NEW t \in Tasks, pc[t] = "write", cur[t].kind = "reboot"
      PROVE  Earned'
  BY <1>3, EarnedStays DEF LocalInv, Ends
<1>4. ASSUME NEW t \in Runners, pc[t] = "mark", cur[t].id = a
      PROVE  actions[a].state # "none"
  BY <1>4 DEF SendInv, RowInv, Holding
<1> QED
  BY <1>1, <1>2, <1>3, <1>4 DEF RowMove

LEMMA MovesKeep ==
    ASSUME Inv, Inv', AgreeInv, Moves
    PROVE  AgreeInv'
<1>1. TypeOK /\ TypeOK' /\ SendInv /\ SendInv' /\ TableInv /\ LocalInv /\ TablesAgree /\ RebootEarned
  BY DEF Inv, AgreeInv
<1> QED
  BY <1>1, TableKept, UnsentKept, OwnJobsKept, CarriesKept, EndsKept, AgreeKept, EarnedKept
  DEF AgreeInv, LocalInv

-----------------------------------------------------------------------------
\* The moves of the locals.

SameLocals(t) == /\ pc'[t] = pc[t] /\ todo'[t] = todo[t] /\ cur'[t] = cur[t]
                 /\ job'[t] = job[t] /\ arg'[t].outcome = arg[t].outcome
                 /\ arg'[t].found = arg[t].found

\* Between the functions this is about.
Away == {"off", "idle", "wait", "list", "gather", "ended", "stale", "sweep"}

LocalMove(t) == SendMove(t) /\ EndMove(t) /\ (t \in Runners => ListMove(t))

\* A step of coroutine t.
StepOf(t) == LocalMove(t) /\ \A u \in Tasks : u # t => SameLocals(u)

LEMMA SameMove ==
    ASSUME NEW t \in Tasks, SameLocals(t)
    PROVE  LocalMove(t)
BY DEF SameLocals, LocalMove, SendMove, ListMove, EndMove

LEMMA AwayMove ==
    ASSUME NEW t \in Tasks, pc'[t] \in Away
    PROVE  LocalMove(t)
BY DEF Away, LocalMove, SendMove, ListMove, EndMove, Holding

\* The coroutines that return, or turn to the next row.
LEMMA ReturnDoes ==
    ASSUME TypeOK, NEW t \in Tasks, Return(t)
    PROVE  pc'[t] \in {"idle", "ended"} /\ \A u \in Tasks : u # t => SameLocals(u)
BY DEF TypeOK, Return, Goto, SameLocals

LEMMA NextRowDoes ==
    ASSUME TypeOK, NEW t \in Tasks, NextRow(t)
    PROVE  /\ pc'[t] \in {"idle", "ended"} \/ (pc'[t] = "pick" /\ todo'[t] = todo[t])
           /\ \A u \in Tasks : u # t => SameLocals(u)
<1>1. CASE todo[t] = {}
  BY <1>1, ReturnDoes DEF NextRow
<1>2. CASE todo[t] # {}
  BY <1>2 DEF TypeOK, NextRow, Goto, SameLocals
<1> QED
  BY <1>1, <1>2

LEMMA AfterWriteDoes ==
    ASSUME TypeOK, NEW t \in Tasks, AfterWrite(t)
    PROVE  pc'[t] \in Away /\ \A u \in Tasks : u # t => SameLocals(u)
<1>1. CASE Return(t)
  BY <1>1, ReturnDoes DEF Away
<1>2. CASE /\ Goto(t, "wait") /\ UNCHANGED <<todo, job>>
           /\ cur' = [cur EXCEPT ![t] = NoRow] /\ arg' = [arg EXCEPT ![t] = NoArg]
  BY <1>2 DEF TypeOK, Goto, SameLocals, Away
<1> QED
  BY <1>1, <1>2 DEF AfterWrite

LEMMA PickMoves ==
    ASSUME TypeOK, NEW t \in Runners, pc[t] = "pick", NEW r \in todo[t],
           \/ Skip(t, r)
           \/ \E label \in {"ids", "insert", "close"} :
                /\ Take(t, r, label)
                /\ arg' = arg \/ \E end \in {"done", "failed"} : arg' = [arg EXCEPT ![t].outcome = end]
    PROVE  StepOf(t)
<1>0. t \in Tasks
  BY DEF Tasks
<1>1. CASE Skip(t, r)
  <2>1. CASE Return(t)
    BY <1>0, <2>1, ReturnDoes, AwayMove DEF StepOf, Away
  <2>2. CASE todo' = [todo EXCEPT ![t] = @ \ {r}] /\ UNCHANGED <<pc, cur, job, arg>>
    <3>1. todo'[t] \subseteq todo[t] /\ \A u \in Tasks : u # t => SameLocals(u)
      BY <1>0, <2>2 DEF TypeOK, SameLocals
    <3> QED
      BY <2>2, <3>1 DEF StepOf, LocalMove, SendMove, ListMove, EndMove, Holding
  <2> QED
    BY <1>1, <2>1, <2>2 DEF Skip
<1>2. ASSUME NEW label \in {"ids", "insert", "close"}, Take(t, r, label),
             arg' = arg \/ \E end \in {"done", "failed"} : arg' = [arg EXCEPT ![t].outcome = end]
      PROVE  StepOf(t)
  <2>1. \A u \in Tasks : u # t => SameLocals(u)
    BY <1>0, <1>2 DEF TypeOK, Take, Goto, SameLocals
  <2>2. pc'[t] = label /\ cur'[t] = r /\ todo'[t] \subseteq todo[t]
    BY <1>0, <1>2 DEF TypeOK, Take, Goto
  <2> QED
    BY <2>1, <2>2 DEF StepOf, LocalMove, SendMove, ListMove, EndMove, Holding
<1> QED
  BY <1>1, <1>2

LEMMA CreationMoves ==
    ASSUME TypeOK, NEW t \in Tasks, Creation(t)
    PROVE  StepOf(t)
<1>1. CASE Find(t)
  <2>1. /\ pc[t] = "find" /\ pc'[t] = "write" /\ cur' = cur
        /\ \A u \in Tasks : u # t => SameLocals(u)
    BY <1>1 DEF Find, Goto, TypeOK, SameLocals
  <2>2. \/ arg'[t].found = NoRow
        \/ /\ actions' = actions
           /\ \E a \in ActionId : actions[a].state # "none" /\ arg'[t].found = SnapshotOf(a)
    <3>1. arg[t] \in Arg /\ arg \in [Tasks -> Arg]
      BY DEF TypeOK
    <3>2. PICK row : /\ arg' = [arg EXCEPT ![t].found = row]
                     /\ \/ row = NoRow
                        \/ \E a \in ActionId : actions[a].state # "none" /\ row = SnapshotOf(a)
      BY <1>1 DEF Find, PendingRows
    <3>3. arg'[t].found = row
      BY <3>1, <3>2 DEF Arg
    <3> QED
      BY <1>1, <3>2, <3>3 DEF Find, tables
  <2> QED
    BY <2>1, <2>2 DEF StepOf, LocalMove, SendMove, ListMove, EndMove, Holding
<1>2. CASE Widen(t)
  BY <1>2, AfterWriteDoes, AwayMove DEF Widen, StepOf
<1>3. CASE Add(t)
  BY <1>3, AfterWriteDoes, ReturnDoes, AwayMove DEF Add, StepOf, Away
<1> QED
  BY <1>1, <1>2, <1>3 DEF Creation

LEMMA FinishingMoves ==
    ASSUME TypeOK, NEW t \in Tasks, Finishing(t)
    PROVE  StepOf(t)
<1>1. CASE Return(t)
  BY <1>1, ReturnDoes, AwayMove DEF StepOf, Away
<1>2. CASE Match(t) /\ ~Return(t)
  <2>1. PICK a \in ActionId : actions[a].job = job[t] /\ cur' = [cur EXCEPT ![t] = SnapshotOf(a)]
    BY <1>2 DEF Match
  <2>2. /\ pc[t] = "match" /\ pc'[t] = "settle" /\ cur'[t] = SnapshotOf(a)
        /\ actions' = actions /\ job' = job /\ arg' = arg
        /\ \A u \in Tasks : u # t => SameLocals(u)
    BY <1>2, <2>1 DEF Match, Goto, TypeOK, SameLocals, tables
  <2> QED
    BY <2>1, <2>2 DEF StepOf, LocalMove, SendMove, ListMove, EndMove, Holding
<1>3. CASE Settle(t) /\ ~Return(t)
  <2>1. /\ pc[t] = "settle" /\ pc'[t] = "find" /\ arg[t].outcome = "done"
        /\ cur[t].kind = "patch_install" /\ cur[t].reboot
        /\ \A u \in Tasks : u # t => SameLocals(u)
    BY <1>3 DEF Settle, Goto, TypeOK, SameLocals
  <2> QED
    BY <2>1 DEF StepOf, LocalMove, SendMove, ListMove, EndMove, Holding
<1> QED
  BY <1>1, <1>2, <1>3 DEF Finishing

LEMMA AskMoves ==
    ASSUME TypeOK, NEW t \in Tasks, QueueAction(t) \/ WindowTick(t)
    PROVE  StepOf(t)
<1>1. PICK w \in Wishes : cur' = [cur EXCEPT ![t] = w]
  BY DEF QueueAction, WindowTick
<1>2. w.kind # "reboot"
  BY WishesAssumption
<1>3. /\ pc'[t] = "find" /\ cur'[t] = w
      /\ \A u \in Tasks : u # t => SameLocals(u)
  BY <1>1 DEF QueueAction, WindowTick, Goto, TypeOK, SameLocals
<1> QED
  BY <1>2, <1>3 DEF StepOf, LocalMove, SendMove, ListMove, EndMove, Holding

\* create_job leaves the coroutine with a new job to send.
LEMMA InsertedMoves ==
    ASSUME TypeOK, NEW t \in Senders, NEW j \in NewJob, NEW kind, NEW scope, NEW action,
           t \in Runners => kind = cur[t].kind, pc[t] \in {"ids", "insert"},
           jobs' = [jobs EXCEPT ![j] = NewJobRow(kind, scope, action)],
           job' = [job EXCEPT ![t] = j], Goto(t, "send"), UNCHANGED <<todo, cur, arg>>
    PROVE  StepOf(t)
<1>1. t \in Tasks /\ j \in JobId
  BY DEF Senders, Tasks, NewJob
<1>2. \A u \in Tasks : u # t => SameLocals(u)
  BY <1>1 DEF TypeOK, Goto, SameLocals
<1>3. pc'[t] = "send" /\ job'[t] = j /\ jobs'[j] = NewJobRow(kind, scope, action)
  BY <1>1 DEF TypeOK, Goto
<1>4. jobs'[j].status = "queued" /\ ~jobs'[j].sent /\ jobs'[j].kind = kind
  BY <1>3 DEF NewJobRow
<1>5. \A u \in Senders : u # t => pc'[u] = pc[u] /\ job'[u] = job[u]
  BY <1>2 DEF Senders, Tasks, SameLocals
<1>6. SendMove(t)
  BY <1>3, <1>4, <1>5 DEF SendMove
<1>7. EndMove(t) /\ ListMove(t)
  BY <1>3 DEF EndMove, ListMove, Holding
<1> QED
  BY <1>2, <1>6, <1>7 DEF StepOf, LocalMove

LEMMA RunDueMoves ==
    ASSUME TypeOK, SendInv, NEW t \in Runners, RunDue(t)
    PROVE  StepOf(t)
<1>0. t \in Tasks /\ t \in Senders
  BY DEF Tasks, Senders
<1>1. CASE Acquire(t)
  <2>1. pc'[t] = "list" /\ \A u \in Tasks : u # t => SameLocals(u)
    BY <1>0, <1>1 DEF Acquire, Goto, TypeOK, SameLocals
  <2> QED
    BY <1>0, <2>1, AwayMove DEF StepOf, Away
<1>2. CASE List(t)
  <2>1. CASE Return(t)
    BY <1>0, <2>1, ReturnDoes, AwayMove DEF StepOf, Away
  <2>2. CASE ~Return(t)
    <3>1. /\ pc'[t] = "pick" /\ todo'[t] = DueRows /\ actions' = actions
          /\ \A u \in Tasks : u # t => SameLocals(u)
      BY <1>0, <1>2, <2>2 DEF List, Goto, TypeOK, SameLocals, tables
    <3> QED
      BY <3>1 DEF StepOf, LocalMove, SendMove, ListMove, EndMove, Holding
  <2> QED
    BY <2>1, <2>2
<1>3. CASE PickInstall(t) \/ PickScript(t) \/ PickReboot(t)
  <2>1. pc[t] = "pick" /\ First(t) \subseteq todo[t]
    BY <1>3 DEF PickInstall, PickScript, PickReboot, First
  <2>2. PICK r \in First(t) :
           \/ Skip(t, r)
           \/ \E label \in {"ids", "insert", "close"} :
                /\ Take(t, r, label)
                /\ \/ arg' = arg
                   \/ \E end \in {"done", "failed"} : arg' = [arg EXCEPT ![t].outcome = end]
    BY <1>3 DEF PickInstall, PickScript, PickReboot
  <2> QED
    BY <2>1, <2>2, PickMoves
<1>4. CASE Ids(t)
  <2>1. /\ pc[t] = "ids" /\ pc'[t] \in {"close", "insert"} /\ todo' = todo /\ cur' = cur
        /\ \A u \in Tasks : u # t => SameLocals(u)
    BY <1>0, <1>4 DEF Ids, Goto, TypeOK, SameLocals
  <2> QED
    BY <2>1 DEF StepOf, LocalMove, SendMove, ListMove, EndMove, Holding
<1>5. CASE Insert(t)
  <2>1. CASE Return(t)
    BY <1>0, <2>1, ReturnDoes, AwayMove DEF StepOf, Away
  <2>2. CASE ~Return(t)
    BY <1>0, <1>5, <2>2, InsertedMoves DEF Insert
  <2> QED
    BY <2>1, <2>2
<1>6. CASE Send(t)
  <2>1. /\ pc[t] = "send" /\ todo' = todo /\ cur' = cur /\ job' = job /\ arg' = arg
        /\ pc'[t] \in {"mark", "undo"}
        /\ \A u \in Tasks : u # t => SameLocals(u)
    BY <1>0, <1>6 DEF Send, Goto, TypeOK, SameLocals
  <2>2. pc'[t] = "mark" => jobs'[job[t]].sent
    <3>1. job[t] \in JobId
      BY <1>0, <2>1, HasJob
    <3>2. Sent(t) => jobs'[job[t]].sent
      BY <3>1 DEF Sent, TypeOK, JobRow
    <3>3. Goto(t, "undo") => pc'[t] = "undo"
      BY <1>0 DEF Goto, TypeOK
    <3> QED
      BY <1>6, <3>2, <3>3 DEF Send
  <2> QED
    BY <2>1, <2>2 DEF StepOf, LocalMove, SendMove, ListMove, EndMove, Holding
<1>7. CASE Mark(t) \/ Undo(t) \/ Close(t)
  <2>1. pc[t] \in Holding /\ NextRow(t)
    BY <1>7 DEF Mark, Undo, Close, Holding
  <2>2. CASE pc'[t] \in {"idle", "ended"}
    BY <1>0, <2>1, <2>2, NextRowDoes, AwayMove DEF StepOf, Away
  <2>3. CASE pc'[t] = "pick" /\ todo'[t] = todo[t]
    BY <1>0, <2>1, <2>3, NextRowDoes
    DEF StepOf, LocalMove, SendMove, ListMove, EndMove, Holding
  <2> QED
    BY <1>0, <2>1, <2>2, <2>3, NextRowDoes
<1> QED
  BY <1>1, <1>2, <1>3, <1>4, <1>5, <1>6, <1>7 DEF RunDue

LEMMA DirectMoves ==
    ASSUME TypeOK, SendInv, NEW t \in Installs, Direct(t)
    PROVE  StepOf(t)
<1>0. t \in Tasks /\ t \in Senders /\ t \notin Runners
  BY TasksAssumption DEF Tasks, Senders, Runners
<1>1. CASE Return(t)
  BY <1>0, <1>1, ReturnDoes, AwayMove DEF StepOf, Away
<1>2. CASE DirectCheck(t)
  <2>1. pc'[t] = "ids" /\ \A u \in Tasks : u # t => SameLocals(u)
    BY <1>0, <1>2 DEF DirectCheck, Goto, TypeOK, SameLocals
  <2> QED
    BY <1>0, <2>1 DEF StepOf, LocalMove, SendMove, EndMove
<1>3. CASE DirectInsert(t) /\ ~Return(t)
  BY <1>0, <1>3, InsertedMoves DEF DirectInsert
<1>4. CASE DirectSend(t) /\ ~Return(t)
  <2>1. /\ pc[t] = "send" /\ pc'[t] = "undo" /\ cur' = cur /\ job' = job /\ arg' = arg
        /\ \A u \in Tasks : u # t => SameLocals(u)
    BY <1>0, <1>4 DEF DirectSend, Goto, TypeOK, SameLocals
  <2> QED
    BY <1>0, <2>1 DEF StepOf, LocalMove, SendMove, EndMove
<1> QED
  BY <1>1, <1>2, <1>3, <1>4 DEF Direct, DirectUndo

LEMMA AgentMoves ==
    ASSUME TypeOK, TableInv, NEW s \in Sockets, Agent(s)
    PROVE  StepOf(s)
<1>0. s \in Tasks
  BY DEF Tasks, Runners
<1>1. CASE JobResult(s)
  <2>1. PICK j \in delivered[s], r \in AgentResult :
          /\ jobs' = [jobs EXCEPT ![j] = Reported(j, r)]
          /\ job' = [job EXCEPT ![s] = j]
          /\ arg' = [arg EXCEPT ![s].outcome = ActionEnd(r)]
    BY <1>1 DEF JobResult
  <2>2. j \in JobId
    BY DEF TypeOK
  <2>3. /\ pc'[s] = "match" /\ job'[s] = j /\ arg'[s].outcome = ActionEnd(r)
        /\ \A u \in Tasks : u # s => SameLocals(u)
    BY <1>0, <1>1, <2>1 DEF JobResult, Goto, TypeOK, Arg, SameLocals
  <2>4. jobs'[j].report = ActionEnd(r)
    BY <2>1, <2>2, ReportedRow DEF TypeOK
  <2>5. ActionEnd(r) = "done" => WellAfter(j)
    BY <2>4 DEF WellAfter
  <2> QED
    BY <2>2, <2>3, <2>5 DEF StepOf, LocalMove, SendMove, ListMove, EndMove, Holding
<1>2. CASE Heartbeat(s) \/ PatchReport(s) \/ JobStarted(s)
  <2>1. UNCHANGED <<pc, todo, cur, job, arg>> => StepOf(s)
    BY <1>0, SameMove DEF SameLocals, StepOf
  <2>2. CASE Goto(s, "wait")
    <3>1. pc'[s] = "wait" /\ \A u \in Tasks : u # s => SameLocals(u)
      BY <1>0, <1>2, <2>2
      DEF Heartbeat, PatchReport, JobStarted, Goto, TypeOK, SameLocals, locals
    <3> QED
      BY <1>0, <3>1, AwayMove DEF StepOf, Away
  <2> QED
    BY <1>2, <2>1, <2>2 DEF Heartbeat, PatchReport, JobStarted, locals
<1>3. CASE Connect(s) \/ Disconnect(s)
  <2>1. pc'[s] \in {"idle", "off"} /\ \A u \in Tasks : u # s => SameLocals(u)
    BY <1>0, <1>3 DEF Connect, Disconnect, CloseSocket, Goto, TypeOK, SameLocals
  <2> QED
    BY <1>0, <2>1, AwayMove DEF StepOf, Away
<1> QED
  BY <1>1, <1>2, <1>3 DEF Agent

LEMMA CleanupMoves ==
    ASSUME TypeOK, TableInv, CleanupStep
    PROVE  StepOf(Cleanup)
<1>0. Cleanup \in Tasks
  BY DEF Tasks
<1>1. CASE Expire \/ Gather \/ SelectStale \/ Sweep
  <2>1. /\ pc'[Cleanup] \in {"gather", "ended", "sweep", "idle"}
        /\ \A u \in Tasks : u # Cleanup => SameLocals(u)
    BY <1>0, <1>1
    DEF Expire, Gather, SelectStale, Sweep, CleanupGoto, Goto, TypeOK, SameLocals
  <2> QED
    BY <1>0, <2>1, AwayMove DEF StepOf, Away
<1>2. CASE NextEnded
  <2>1. CASE CleanupGoto("stale")
    <3>1. pc'[Cleanup] = "stale" /\ \A u \in Tasks : u # Cleanup => SameLocals(u)
      BY <1>0, <2>1 DEF CleanupGoto, Goto, TypeOK, SameLocals
    <3> QED
      BY <1>0, <3>1, AwayMove DEF StepOf, Away
  <2>2. CASE ~CleanupGoto("stale")
    <3>1. PICK e \in ended :
            /\ job' = [job EXCEPT ![Cleanup] = e.job]
            /\ arg' = [arg EXCEPT ![Cleanup].outcome = e.outcome]
            /\ Goto(Cleanup, "match") /\ UNCHANGED <<todo, cur>>
      BY <1>2, <2>2 DEF NextEnded
    <3>2. e.job \in JobId /\ (e.outcome = "done" => EndedWell(e.job)) /\ jobs' = jobs
      BY <1>2 DEF NextEnded, TypeOK, TableInv, tables
    <3>3. /\ pc'[Cleanup] = "match" /\ job'[Cleanup] = e.job
          /\ arg'[Cleanup].outcome = e.outcome
          /\ \A u \in Tasks : u # Cleanup => SameLocals(u)
      BY <1>0, <3>1 DEF Goto, TypeOK, Arg, SameLocals
    <3> QED
      BY <3>2, <3>3
      DEF StepOf, LocalMove, SendMove, ListMove, EndMove, Holding, EndedWell, WellAfter
  <2> QED
    BY <2>1, <2>2
<1> QED
  BY <1>0, <1>1, <1>2, CreationMoves, FinishingMoves DEF CleanupStep

LEMMA FaultMoves ==
    ASSUME TypeOK, Fault
    PROVE  \A t \in Tasks : LocalMove(t)
<1>1. ASSUME NEW t \in Tasks, pc'[t] \in Away, \A u \in Tasks : u # t => SameLocals(u)
      PROVE  \A u \in Tasks : LocalMove(u)
  BY <1>1, AwayMove, SameMove
<1>2. ASSUME NEW t \in Tasks, StatementFails(t)
      PROVE  \A u \in Tasks : LocalMove(u)
  BY <1>1, <1>2, ReturnDoes DEF StatementFails, Away
<1>3. CASE TickFails
  <2>1. /\ Cleanup \in Tasks /\ pc'[Cleanup] = "idle"
        /\ \A u \in Tasks : u # Cleanup => SameLocals(u)
    BY <1>3 DEF TickFails, Goto, TypeOK, SameLocals, Tasks
  <2> QED
    BY <1>1, <2>1 DEF Away
<1>4. ASSUME NEW s \in Sockets, ReceiveFails(s)
      PROVE  \A u \in Tasks : LocalMove(u)
  <2>1. s \in Tasks /\ pc'[s] = "off" /\ \A u \in Tasks : u # s => SameLocals(u)
    BY <1>4 DEF ReceiveFails, CloseSocket, Goto, TypeOK, SameLocals, Tasks, Runners
  <2> QED
    BY <1>1, <2>1 DEF Away
<1>5. CASE Restart
  BY <1>5, AwayMove DEF Restart, Away
<1> QED
  BY <1>2, <1>3, <1>4, <1>5 DEF Fault

\* Whatever the step, every coroutine moves as said.
LEMMA LocalsMove ==
    ASSUME TypeOK, SendInv, TableInv, [Next]_vars
    PROVE  \A t \in Tasks : LocalMove(t)
<1>1. ASSUME NEW t \in Tasks, StepOf(t)
      PROVE  \A u \in Tasks : LocalMove(u)
  BY <1>1, SameMove DEF StepOf
<1>2. ASSUME UNCHANGED locals
      PROVE  \A u \in Tasks : LocalMove(u)
  BY <1>2, SameMove DEF locals, SameLocals
<1>3. /\ Runners \subseteq Tasks /\ Installs \subseteq Tasks /\ Sockets \subseteq Tasks
      /\ Requests \subseteq Tasks /\ Windows \subseteq Tasks /\ Cleanup \in Tasks
  BY DEF Tasks, Runners
<1>4. CASE \/ \E t \in Runners : RunDue(t) \/ Creation(t)
           \/ \E t \in Requests : QueueAction(t)
           \/ \E t \in Windows : WindowTick(t)
           \/ \E s \in Sockets : Agent(s) \/ Finishing(s)
           \/ \E t \in Installs : Direct(t)
           \/ CleanupStep
  BY <1>1, <1>3, <1>4, RunDueMoves, CreationMoves, AskMoves, AgentMoves, FinishingMoves,
     DirectMoves, CleanupMoves
<1>5. CASE Time \/ ScanRequest \/ (\E a \in ActionId : CancelAction(a)) \/ UNCHANGED vars
  BY <1>2, <1>5 DEF Time, Lapse, Ripen, Age, ForgetScan, ScanRequest, CancelAction, vars
<1> QED
  BY <1>4, <1>5, FaultMoves DEF Next

-----------------------------------------------------------------------------
\* The moves of the jobs.

LEMMA SameJobs ==
    ASSUME jobs' = jobs
    PROVE  \A j \in JobId : JobMove(j)
BY DEF JobMove, KeepsJob

\* One status is written.
LEMMA StatusMove ==
    ASSUME TypeOK, NEW j \in JobId, NEW status, jobs' = [jobs EXCEPT ![j] = JobRowAs(j, status)]
    PROVE  /\ KeepsJob(j) /\ jobs'[j].status = status /\ jobs'[j].report = jobs[j].report
           /\ \A i \in JobId : i # j => JobMove(i)
<1>1. jobs'[j] = JobRowAs(j, status) /\ \A i \in JobId : i # j => jobs'[i] = jobs[i]
  BY DEF TypeOK
<1> QED
  BY <1>1 DEF TypeOK, JobRow, JobRowAs, KeepsJob, JobMove

LEMMA InsertedJobs ==
    ASSUME TypeOK, NEW j \in NewJob, NEW kind, NEW scope, NEW action,
           jobs' = [jobs EXCEPT ![j] = NewJobRow(kind, scope, action)]
    PROVE  \A i \in JobId : JobMove(i)
<1>1. /\ j \in JobId /\ jobs[j].status = "none" /\ jobs'[j] = NewJobRow(kind, scope, action)
      /\ \A i \in JobId : i # j => jobs'[i] = jobs[i]
  BY DEF TypeOK, NewJob
<1>2. jobs'[j].status = "queued" /\ ~jobs'[j].sent /\ jobs'[j].report = "none"
  BY <1>1 DEF NewJobRow
<1> QED
  BY <1>1, <1>2 DEF JobMove, KeepsJob

LEMMA SentJobs ==
    ASSUME TypeOK, SendInv, NEW t \in Senders, pc[t] = "send", Sent(t),
           pc'[t] \notin {"send", "undo"}
    PROVE  \A j \in JobId : JobMove(j)
<1>1. job[t] \in JobId
  BY HasJob
<1>2. /\ jobs'[job[t]].kind = jobs[job[t]].kind /\ jobs'[job[t]].action = jobs[job[t]].action
      /\ jobs'[job[t]].status = jobs[job[t]].status /\ jobs'[job[t]].sent
      /\ jobs'[job[t]].report = jobs[job[t]].report
      /\ \A j \in JobId : j # job[t] => jobs'[j] = jobs[j]
  BY <1>1 DEF Sent, TypeOK, JobRow
<1>3. LeavesJob(job[t], "send")
  BY DEF LeavesJob
<1> QED
  BY <1>2, <1>3 DEF JobMove, KeepsJob

LEMMA UndoneJobs ==
    ASSUME TypeOK, SendInv, NEW t \in Senders, pc[t] = "undo", pc'[t] \notin {"send", "undo"},
           jobs' = [jobs EXCEPT ![job[t]] =
                       JobRowAs(job[t], AfterUndispatched(jobs[job[t]].status))]
    PROVE  \A j \in JobId : JobMove(j)
<1>1. job[t] \in JobId /\ jobs[job[t]].status # "none" /\ LeavesJob(job[t], "undo")
  BY HasJob DEF LeavesJob
<1> DEFINE status == AfterUndispatched(jobs[job[t]].status)
<1>2. /\ KeepsJob(job[t]) /\ jobs'[job[t]].status = status
      /\ jobs'[job[t]].report = jobs[job[t]].report
      /\ \A i \in JobId : i # job[t] => JobMove(i)
  BY <1>1, StatusMove
<1>3. JobMove(job[t])
  BY <1>1, <1>2 DEF JobMove
<1> QED
  BY <1>2, <1>3

LEMMA ReportedJobs ==
    ASSUME TypeOK, TableInv, NEW s \in Sockets, JobStarted(s) \/ JobResult(s)
    PROVE  \A j \in JobId : JobMove(j)
<1>1. \A j \in delivered[s] : j \in JobId /\ jobs[j].status # "none"
  BY DEF TypeOK, TableInv, DeliveredInv, ActiveJob
<1>2. CASE JobStarted(s)
  <2>1. PICK j \in delivered[s] :
          jobs' = [jobs EXCEPT ![j] = JobRowAs(j, AfterStarted(jobs[j].status))]
    BY <1>2 DEF JobStarted
  <2>2. /\ KeepsJob(j) /\ jobs'[j].status = AfterStarted(jobs[j].status)
        /\ jobs'[j].report = jobs[j].report
        /\ \A i \in JobId : i # j => JobMove(i)
    BY <1>1, <2>1, StatusMove
  <2>3. JobMove(j)
    BY <1>1, <2>2 DEF JobMove
  <2> QED
    BY <2>2, <2>3
<1>3. CASE JobResult(s)
  <2>1. PICK j \in delivered[s], r \in AgentResult :
          /\ jobs' = [jobs EXCEPT ![j] = Reported(j, r)]
          /\ delivered' = [delivered EXCEPT ![s] = @ \ {j}]
    BY <1>3 DEF JobResult
  <2>2. j \notin delivered'[s] /\ \A u \in Sockets : u # s => delivered'[u] = delivered[u]
    BY <2>1 DEF TypeOK
  <2>3. /\ jobs'[j] = Reported(j, r) /\ j \in JobId
        /\ \A i \in JobId : i # j => jobs'[i] = jobs[i]
    BY <1>1, <2>1 DEF TypeOK
  <2>4. /\ KeepsJob(j) /\ jobs'[j].status = AfterResult(jobs[j].status, r)
        /\ jobs'[j].report = ActionEnd(r)
    BY <2>3, ReportedRow DEF KeepsJob
  <2>5. JobMove(j)
    BY <1>1, <2>1, <2>2, <2>4 DEF JobMove
  <2> QED
    BY <2>3, <2>5 DEF JobMove, KeepsJob
<1> QED
  BY <1>2, <1>3

LEMMA SweptJobs ==
    ASSUME TypeOK, SendInv, Sweep
    PROVE  \A j \in JobId : JobMove(j)
<1> SUFFICES ASSUME NEW j \in JobId PROVE JobMove(j)
  OBVIOUS
<1>1. CASE j \notin stale
  <2>1. jobs'[j] = jobs[j]
    BY <1>1 DEF Sweep
  <2> QED
    BY <2>1 DEF JobMove, KeepsJob
<1>2. CASE j \in stale
  <2>1. jobs[j] \in JobRow /\ jobs[j].status # "none"
    BY <1>2 DEF TypeOK, SendInv, JobInv
  <2>2. jobs'[j] = JobRowAs(j, "timeout")
    BY <1>2 DEF Sweep, AfterSweep
  <2> QED
    BY <2>1, <2>2 DEF JobMove, KeepsJob, JobRowAs, JobRow
<1> QED
  BY <1>1, <1>2

LEMMA JobsMove ==
    ASSUME TypeOK, SendInv, TableInv, [Next]_vars
    PROVE  \A j \in JobId : JobMove(j)
<1>1. ASSUME NEW t \in Runners, RunDue(t)
      PROVE  \A j \in JobId : JobMove(j)
  <2>0. t \in Tasks /\ t \in Senders
    BY DEF Tasks, Senders
  <2>1. CASE Insert(t)
    BY <2>1, SameJobs, InsertedJobs DEF Insert
  <2>2. CASE Send(t)
    <3>1. pc[t] = "send" /\ (Goto(t, "mark") => pc'[t] = "mark")
      BY <2>0, <2>2 DEF Send, Goto, TypeOK
    <3> QED
      BY <2>0, <2>2, <3>1, SameJobs, SentJobs DEF Send
  <2>3. CASE Undo(t)
    <3>1. pc[t] = "undo" /\ pc'[t] \in {"idle", "ended", "pick"}
      BY <2>0, <2>3, NextRowDoes DEF Undo
    <3> QED
      BY <2>0, <2>3, <3>1, UndoneJobs DEF Undo
  <2>4. CASE \/ Acquire(t) \/ List(t) \/ PickInstall(t) \/ PickScript(t) \/ PickReboot(t)
             \/ Ids(t) \/ Mark(t) \/ Close(t)
    BY <2>4, SameJobs
    DEF Acquire, List, PickInstall, PickScript, PickReboot, Ids, Mark, Close, tables
  <2> QED
    BY <1>1, <2>1, <2>2, <2>3, <2>4 DEF RunDue
<1>2. ASSUME NEW t \in Installs, Direct(t)
      PROVE  \A j \in JobId : JobMove(j)
  <2>0. t \in Tasks /\ t \in Senders
    BY DEF Tasks, Senders
  <2>1. CASE DirectCheck(t)
    BY <2>1, SameJobs DEF DirectCheck, tables
  <2>2. CASE DirectInsert(t)
    BY <2>2, SameJobs, InsertedJobs DEF DirectInsert
  <2>3. CASE DirectSend(t)
    BY <2>0, <2>3, SameJobs, SentJobs, ReturnDoes DEF DirectSend
  <2>4. CASE DirectUndo(t)
    BY <2>0, <2>4, UndoneJobs, ReturnDoes DEF DirectUndo
  <2> QED
    BY <1>2, <2>1, <2>2, <2>3, <2>4 DEF Direct
<1>3. ASSUME NEW s \in Sockets, Agent(s)
      PROVE  \A j \in JobId : JobMove(j)
  <2>1. CASE Connect(s) \/ Disconnect(s) \/ Heartbeat(s) \/ PatchReport(s)
    BY <2>1, SameJobs DEF Connect, Disconnect, Heartbeat, PatchReport, tables
  <2> QED
    BY <1>3, <2>1, ReportedJobs DEF Agent
<1>4. ASSUME NEW j \in JobId, Age(j)
      PROVE  \A i \in JobId : JobMove(i)
  BY <1>4 DEF Age, TypeOK, JobRow, JobMove, KeepsJob
<1>5. CASE \/ \E t \in Tasks : Creation(t) \/ Finishing(t)
           \/ Expire \/ Gather \/ NextEnded \/ SelectStale
           \/ \E t \in Requests : QueueAction(t)
           \/ \E t \in Windows : WindowTick(t)
           \/ \E a \in ActionId : CancelAction(a) \/ Lapse(a) \/ Ripen(a)
           \/ ForgetScan \/ ScanRequest \/ Fault \/ UNCHANGED vars
  BY <1>5, SameJobs
  DEF Creation, Find, Widen, Add, Finishing, Match, Settle, Expire, Gather, NextEnded,
      SelectStale, QueueAction, WindowTick, CancelAction, Lapse, Ripen, ForgetScan, ScanRequest,
      Fault, StatementFails, TickFails, ReceiveFails, Restart, tables, vars
<1>6. Runners \subseteq Tasks /\ Sockets \subseteq Tasks /\ Cleanup \in Tasks
  BY DEF Tasks, Runners
<1> QED
  BY <1>1, <1>2, <1>3, <1>4, <1>5, <1>6, SweptJobs DEF Next, CleanupStep, Time

-----------------------------------------------------------------------------
\* The moves of the rows.

LEMMA SameRows ==
    ASSUME actions' = actions
    PROVE  \A a \in ActionId : RowMove(a)
BY DEF RowMove

\* One row is given an end, or waits no longer.
LEMMA ClosedRow ==
    ASSUME TypeOK, NEW a \in ActionId, actions[a].state # "none",
           NEW state \in ClosedAction, actions' = [actions EXCEPT ![a] = Row(a, state)],
           state = "done" => actions[a].job = 0 \/ EndedWell(actions[a].job)
    PROVE  \A b \in ActionId : RowMove(b)
<1>1. actions[a] \in ActionRow
  BY DEF TypeOK
<1>2. /\ actions'[a].kind = actions[a].kind /\ actions'[a].job = actions[a].job
      /\ actions'[a].state = state
      /\ \A b \in ActionId : b # a => actions'[b] = actions[b]
  BY <1>1 DEF TypeOK, Row, ActionRow
<1> QED
  BY <1>2 DEF RowMove, ClosedAction

LEMMA CreatedRows ==
    ASSUME TypeOK, NEW t \in Tasks, Creation(t)
    PROVE  \A a \in ActionId : RowMove(a)
<1>1. CASE Widen(t)
  <2> DEFINE id == arg[t].found.id
  <2>1. id \in ActionId
    <3>1. arg[t].found \in Snapshot
      BY DEF TypeOK, Arg
    <3> QED
      BY <1>1, <3>1, BoundsAssumption DEF Widen, Snapshot, ActionId
  <2>2. PICK scope, reboot, asked :
          actions' = [actions EXCEPT ![id] =
                        [actions[id] EXCEPT !.scope = scope, !.reboot = reboot, !.lapsed = FALSE,
                                            !.asked = asked]]
    BY <1>1 DEF Widen
  <2>3. /\ actions'[id].kind = actions[id].kind /\ actions'[id].job = actions[id].job
        /\ actions'[id].state = actions[id].state
        /\ \A a \in ActionId : a # id => actions'[a] = actions[a]
    BY <2>1, <2>2 DEF TypeOK, ActionRow
  <2> QED
    BY <2>3 DEF RowMove
<1>2. CASE Add(t) /\ actions' # actions
  <2>1. PICK a \in NewAction :
          actions' = [actions EXCEPT ![a] =
             [state |-> "pending", kind |-> cur[t].kind, scope |-> cur[t].scope,
              reboot |-> cur[t].reboot, job |-> 0, lapsed |-> FALSE, aged |-> FALSE,
              asked |-> cur[t].reboot]]
    BY <1>2 DEF Add, NewQueued
  <2>2. a \in ActionId /\ actions[a].state = "none" /\ pc[t] = "write"
    BY <1>2 DEF NewAction, Add
  <2>3. /\ actions'[a].kind = cur[t].kind /\ actions'[a].job = 0
        /\ \A b \in ActionId : b # a => actions'[b] = actions[b]
    BY <2>1, <2>2 DEF TypeOK
  <2> QED
    BY <2>2, <2>3 DEF RowMove
<1> QED
  BY <1>1, <1>2, SameRows DEF Creation, Find, tables

LEMMA SettledRows ==
    ASSUME TypeOK, TableInv, LocalInv, NEW t \in Tasks, Settle(t)
    PROVE  \A a \in ActionId : RowMove(a)
<1>1. /\ cur[t].id \in ActionId /\ actions[cur[t].id].job = job[t] /\ job[t] \in JobId
      /\ arg[t].outcome = "done" => EndedWell(job[t])
  BY DEF LocalInv, Ends, Settle
<1>2. actions[cur[t].id].state # "none"
  BY <1>1, BoundsAssumption DEF TableInv, BareInv, JobId
<1>3. arg[t].outcome \in ClosedAction
  BY DEF TypeOK, Arg, ClosedAction
<1> QED
  BY <1>1, <1>2, <1>3, ClosedRow DEF Settle

LEMMA MarkedRows ==
    ASSUME TypeOK, SendInv, LocalInv, NEW t \in Runners, Mark(t) \/ Close(t)
    PROVE  \A a \in ActionId : RowMove(a)
<1>1. pc[t] \in Holding /\ NextRow(t) /\ t \in Tasks
  BY DEF Mark, Close, Holding, Tasks
<1>2. /\ cur[t].id \in ActionId /\ actions[cur[t].id].state # "none"
      /\ actions[cur[t].id].job = 0
  BY <1>1 DEF SendInv, RowInv, LocalInv, Carries
<1>3. CASE Close(t)
  <2>1. arg[t].outcome \in ClosedAction
    BY <1>1 DEF TypeOK, Arg, ClosedAction
  <2> QED
    BY <1>2, <1>3, <2>1, ClosedRow DEF Close
<1>4. CASE Mark(t)
  <2> DEFINE a == cur[t].id
  <2>1. /\ actions'[a].kind = actions[a].kind /\ actions'[a].state = "dispatched"
        /\ actions'[a].job = job[t]
        /\ \A b \in ActionId : b # a => actions'[b] = actions[b]
    <3>1. actions[a] \in ActionRow
      BY <1>2 DEF TypeOK
    <3> QED
      BY <1>2, <1>4, <3>1 DEF Mark, TypeOK, Row, ActionRow
  <2>2. pc[t] = "mark" /\ pc'[t] \notin Holding
    BY <1>1, <1>4, NextRowDoes DEF Mark, Holding
  <2>3. RowMove(a)
    BY <2>1, <2>2 DEF RowMove
  <2> QED
    BY <2>1, <2>3 DEF RowMove
<1> QED
  BY <1>3, <1>4

\* A row that waits is cancelled, expires, or grows older.
LEMMA WaitingRows ==
    ASSUME TypeOK,
           \/ Expire
           \/ \E a \in ActionId : CancelAction(a) \/ Lapse(a) \/ Ripen(a)
    PROVE  \A b \in ActionId : RowMove(b)
<1>1. CASE Expire
  <2> SUFFICES ASSUME NEW b \in ActionId PROVE RowMove(b)
    OBVIOUS
  <2>1. actions[b] \in ActionRow
    BY DEF TypeOK
  <2>2. CASE actions[b].state = "pending" /\ actions[b].lapsed
    <3>1. actions'[b] = Row(b, "expired")
      BY <1>1, <2>2 DEF Expire
    <3> QED
      BY <2>1, <2>2, <3>1 DEF Row, ActionRow, RowMove
  <2>3. CASE ~(actions[b].state = "pending" /\ actions[b].lapsed)
    <3>1. actions'[b] = actions[b]
      BY <1>1, <2>3 DEF Expire
    <3> QED
      BY <3>1 DEF RowMove
  <2> QED
    BY <2>2, <2>3
<1>2. ASSUME NEW a \in ActionId, CancelAction(a)
      PROVE  \A b \in ActionId : RowMove(b)
  BY <1>2, ClosedRow DEF CancelAction, ClosedAction
<1>3. ASSUME NEW a \in ActionId, Lapse(a) \/ Ripen(a)
      PROVE  \A b \in ActionId : RowMove(b)
  <2>1. /\ actions'[a].kind = actions[a].kind /\ actions'[a].job = actions[a].job
        /\ actions'[a].state = actions[a].state
        /\ \A b \in ActionId : b # a => actions'[b] = actions[b]
    BY <1>3 DEF Lapse, Ripen, TypeOK, ActionRow
  <2> QED
    BY <2>1 DEF RowMove
<1> QED
  BY <1>1, <1>2, <1>3

LEMMA RowsMove ==
    ASSUME TypeOK, SendInv, TableInv, LocalInv, [Next]_vars
    PROVE  \A a \in ActionId : RowMove(a)
<1>0. Runners \subseteq Tasks /\ Sockets \subseteq Tasks /\ Cleanup \in Tasks
  BY DEF Tasks, Runners
<1>1. CASE \E t \in Tasks : Creation(t)
  BY <1>1, CreatedRows
<1>2. CASE \E t \in Tasks : Finishing(t)
  BY <1>2, SettledRows, SameRows DEF Finishing, Match, tables
<1>3. ASSUME NEW t \in Runners, RunDue(t)
      PROVE  \A a \in ActionId : RowMove(a)
  <2>1. CASE \/ Acquire(t) \/ List(t) \/ PickInstall(t) \/ PickScript(t) \/ PickReboot(t)
             \/ Ids(t) \/ Insert(t) \/ Send(t) \/ Undo(t)
    BY <2>1, SameRows
    DEF Acquire, List, PickInstall, PickScript, PickReboot, Ids, Insert, Send, Undo, tables
  <2> QED
    BY <1>3, <2>1, MarkedRows DEF RunDue
<1>4. CASE Expire \/ (\E a \in ActionId : CancelAction(a) \/ Lapse(a) \/ Ripen(a))
  BY <1>4, WaitingRows
<1>5. CASE \/ \E t \in Installs : Direct(t)
           \/ \E s \in Sockets : Agent(s)
           \/ \E t \in Requests : QueueAction(t)
           \/ \E t \in Windows : WindowTick(t)
           \/ Gather \/ NextEnded \/ SelectStale \/ Sweep
           \/ ForgetScan \/ ScanRequest \/ Fault \/ UNCHANGED vars
           \/ \E j \in JobId : Age(j)
  BY <1>5, SameRows
  DEF Direct, DirectCheck, DirectInsert, DirectSend, DirectUndo, Agent, Connect, Disconnect,
      Heartbeat, PatchReport, JobStarted, JobResult, QueueAction, WindowTick, Gather, NextEnded,
      SelectStale, Sweep, ForgetScan, ScanRequest, Fault, StatementFails, TickFails,
      ReceiveFails, Restart, Age, tables, vars
<1> QED
  BY <1>0, <1>1, <1>2, <1>3, <1>4, <1>5 DEF Next, CleanupStep, Time

\* Wishes are noted and never lost.
LEMMA SameWishes ==
    ASSUME WordInv, \A a \in ActionId : /\ actions'[a].asked = actions[a].asked
                                       /\ actions'[a].reboot = actions[a].reboot
    PROVE  \A a \in ActionId : AskedMove(a)
BY DEF WordInv, AskedMove

LEMMA OneWish ==
    ASSUME TypeOK, WordInv, NEW b \in ActionId, NEW row, actions' = [actions EXCEPT ![b] = row],
           row.asked = actions[b].asked, row.reboot = actions[b].reboot
    PROVE  \A a \in ActionId : AskedMove(a)
BY SameWishes DEF TypeOK

\* The rows that get another state keep their wish.
LEMMA StateWishes ==
    ASSUME TypeOK, WordInv,
           \/ \E a \in ActionId : \E state : actions' = [actions EXCEPT ![a] = Row(a, state)]
           \/ \E a \in ActionId : \E state, j :
                actions' = [actions EXCEPT ![a] = [Row(a, state) EXCEPT !.job = j]]
           \/ Expire
           \/ \E a \in ActionId : Lapse(a) \/ Ripen(a)
    PROVE  \A a \in ActionId : AskedMove(a)
<1>0. ASSUME NEW a \in ActionId, NEW state
      PROVE  /\ Row(a, state).asked = actions[a].asked
             /\ Row(a, state).reboot = actions[a].reboot
             /\ \A j : /\ [Row(a, state) EXCEPT !.job = j].asked = actions[a].asked
                       /\ [Row(a, state) EXCEPT !.job = j].reboot = actions[a].reboot
  <2>1. actions[a] \in ActionRow
    BY DEF TypeOK
  <2> QED
    BY <2>1 DEF Row, ActionRow
<1>1. ASSUME NEW a \in ActionId, NEW state, actions' = [actions EXCEPT ![a] = Row(a, state)]
      PROVE  \A b \in ActionId : AskedMove(b)
  BY <1>0, <1>1, OneWish
<1>2. ASSUME NEW a \in ActionId, NEW state, NEW j,
             actions' = [actions EXCEPT ![a] = [Row(a, state) EXCEPT !.job = j]]
      PROVE  \A b \in ActionId : AskedMove(b)
  <2> DEFINE row == [Row(a, state) EXCEPT !.job = j]
  <2>1. row.asked = actions[a].asked /\ row.reboot = actions[a].reboot
    BY <1>0
  <2>2. actions' = [actions EXCEPT ![a] = row]
    BY <1>2
  <2> HIDE DEF row
  <2> QED
    BY <2>1, <2>2, OneWish
<1>3. CASE Expire
  <2>1. ASSUME NEW a \in ActionId
        PROVE  actions'[a].asked = actions[a].asked /\ actions'[a].reboot = actions[a].reboot
    <3>1. actions'[a] = actions[a] \/ actions'[a] = Row(a, "expired")
      BY <1>3 DEF Expire
    <3> QED
      BY <1>0, <3>1
  <2> QED
    BY <2>1, SameWishes
<1>4. ASSUME NEW a \in ActionId, Lapse(a) \/ Ripen(a)
      PROVE  \A b \in ActionId : AskedMove(b)
  <2>1. actions[a] \in ActionRow
    BY DEF TypeOK
  <2>2. \/ actions' = [actions EXCEPT ![a] = [actions[a] EXCEPT !.lapsed = TRUE]]
        \/ actions' = [actions EXCEPT ![a] = [actions[a] EXCEPT !.aged = TRUE]]
    BY <1>4 DEF Lapse, Ripen, TypeOK
  <2>3. /\ [actions[a] EXCEPT !.lapsed = TRUE].asked = actions[a].asked
        /\ [actions[a] EXCEPT !.lapsed = TRUE].reboot = actions[a].reboot
        /\ [actions[a] EXCEPT !.aged = TRUE].asked = actions[a].asked
        /\ [actions[a] EXCEPT !.aged = TRUE].reboot = actions[a].reboot
    BY <2>1 DEF ActionRow
  <2> QED
    BY <2>2, <2>3, OneWish
<1> QED
  BY <1>1, <1>2, <1>3, <1>4

LEMMA AskedMoves ==
    ASSUME TypeOK, SendInv, TableInv, LocalInv, [Next]_vars
    PROVE  \A a \in ActionId : AskedMove(a)
<1>0. WordInv /\ Runners \subseteq Tasks /\ Sockets \subseteq Tasks /\ Cleanup \in Tasks
  BY DEF TableInv, Tasks, Runners
<1>1. CASE actions' = actions
  BY <1>0, <1>1, SameWishes
<1>2. ASSUME NEW t \in Tasks, Widen(t)
      PROVE  \A a \in ActionId : AskedMove(a)
  <2> DEFINE id == arg[t].found.id
             reboot == arg[t].found.reboot \/ cur[t].reboot
             asked == actions[id].asked \/ cur[t].reboot
  <2>1. id \in ActionId /\ (arg[t].found.reboot => actions[id].asked)
    <3>1. arg[t].found \in Snapshot
      BY DEF TypeOK, Arg
    <3> QED
      BY <1>2, <3>1, BoundsAssumption DEF Widen, Snapshot, ActionId, LocalInv, Found
  <2>2. PICK scope :
          actions' = [actions EXCEPT ![id] =
                        [actions[id] EXCEPT !.scope = scope, !.reboot = reboot, !.lapsed = FALSE,
                                            !.asked = asked]]
    BY <1>2 DEF Widen
  <2>3. actions[id] \in ActionRow /\ actions \in [ActionId -> ActionRow]
    BY <2>1 DEF TypeOK
  <2>4. actions'[id].reboot = reboot /\ actions'[id].asked = asked
    <3> HIDE DEF reboot, asked, id
    <3> QED
      BY <2>1, <2>2, <2>3 DEF ActionRow
  <2>5. \A a \in ActionId : a # id => actions'[a] = actions[a]
    BY <2>1, <2>2, <2>3
  <2>6. AskedMove(id)
    BY <2>1, <2>4 DEF AskedMove
  <2> QED
    BY <1>0, <2>5, <2>6 DEF WordInv, AskedMove
<1>3. ASSUME NEW t \in Tasks, Add(t), actions' # actions
      PROVE  \A a \in ActionId : AskedMove(a)
  <2>1. PICK b \in NewAction : /\ actions'[b].reboot = cur[t].reboot
                               /\ actions'[b].asked = cur[t].reboot
                               /\ \A a \in ActionId : a # b => actions'[a] = actions[a]
    <3>1. PICK b \in NewAction :
            actions' = [actions EXCEPT ![b] =
                          [state |-> "pending", kind |-> cur[t].kind, scope |-> cur[t].scope,
                           reboot |-> cur[t].reboot, job |-> 0, lapsed |-> FALSE, aged |-> FALSE,
                           asked |-> cur[t].reboot]]
      BY <1>3 DEF Add, NewQueued
    <3> DEFINE row == [state |-> "pending", kind |-> cur[t].kind, scope |-> cur[t].scope,
                       reboot |-> cur[t].reboot, job |-> 0, lapsed |-> FALSE, aged |-> FALSE,
                       asked |-> cur[t].reboot]
    <3>2. row.reboot = cur[t].reboot /\ row.asked = cur[t].reboot
      OBVIOUS
    <3>3. b \in ActionId /\ actions \in [ActionId -> ActionRow]
      BY <3>1 DEF NewAction, TypeOK
    <3>4. actions' = [actions EXCEPT ![b] = row]
      BY <3>1
    <3> HIDE DEF row
    <3> QED
      BY <3>1, <3>2, <3>3, <3>4
  <2>2. actions[b].state = "none" /\ b \in ActionId
    BY DEF NewAction
  <2> QED
    BY <1>0, <2>1, <2>2 DEF WordInv, AskedMove
<1>4. CASE Expire \/ \E a \in ActionId : CancelAction(a) \/ Lapse(a) \/ Ripen(a)
  BY <1>0, <1>4, StateWishes DEF CancelAction
<1>5. ASSUME NEW t \in Tasks, Settle(t)
      PROVE  \A a \in ActionId : AskedMove(a)
  <2>1. cur[t].id \in ActionId
    BY <1>5 DEF Settle, LocalInv, Ends
  <2> QED
    BY <1>0, <1>5, <2>1, StateWishes DEF Settle
<1>6. ASSUME NEW t \in Runners, RunDue(t)
      PROVE  \A a \in ActionId : AskedMove(a)
  <2>1. CASE Mark(t) \/ Close(t)
    <3>1. cur[t].id \in ActionId
      BY <2>1 DEF Mark, Close, SendInv, RowInv, Holding
    <3> QED
      BY <1>0, <2>1, <3>1, StateWishes DEF Mark, Close
  <2>2. CASE \/ Acquire(t) \/ List(t) \/ PickInstall(t) \/ PickScript(t) \/ PickReboot(t)
             \/ Ids(t) \/ Insert(t) \/ Send(t) \/ Undo(t)
    BY <1>1, <2>2
    DEF Acquire, List, PickInstall, PickScript, PickReboot, Ids, Insert, Send, Undo, tables
  <2> QED
    BY <1>6, <2>1, <2>2 DEF RunDue
<1>7. CASE \E t \in Tasks : Find(t) \/ Match(t)
  BY <1>1, <1>7 DEF Find, Match, tables
<1>8. CASE \/ \E t \in Installs : Direct(t)
           \/ \E s \in Sockets : Agent(s)
           \/ \E t \in Requests : QueueAction(t)
           \/ \E t \in Windows : WindowTick(t)
           \/ Gather \/ NextEnded \/ SelectStale \/ Sweep
           \/ ForgetScan \/ ScanRequest \/ Fault \/ UNCHANGED vars
           \/ \E j \in JobId : Age(j)
  BY <1>1, <1>8
  DEF Direct, DirectCheck, DirectInsert, DirectSend, DirectUndo, Agent, Connect, Disconnect,
      Heartbeat, PatchReport, JobStarted, JobResult, QueueAction, WindowTick, Gather, NextEnded,
      SelectStale, Sweep, ForgetScan, ScanRequest, Fault, StatementFails, TickFails,
      ReceiveFails, Restart, Age, tables, vars
<1>9. \A t \in Tasks : /\ Creation(t) => Find(t) \/ Widen(t) \/ Add(t)
                       /\ Finishing(t) => Match(t) \/ Settle(t)
  BY DEF Creation, Finishing
<1> QED
  BY <1>0, <1>1, <1>2, <1>3, <1>4, <1>5, <1>6, <1>7, <1>8, <1>9 DEF Next, CleanupStep, Time

-----------------------------------------------------------------------------
\* The moves of what the agent works on, and of housekeeping's list.

LEMMA SentOver ==
    ASSUME TypeOK, SendInv, NEW t \in Senders, pc[t] = "send", Sent(t)
    PROVE  \A s \in Sockets : DeliveredMove(s)
<1>1. job[t] \in JobId
  BY HasJob
<1>2. jobs'[job[t]].sent /\ conn \in Sockets
  BY <1>1 DEF Sent, TypeOK, JobRow
<1>3. /\ delivered'[conn] = delivered[conn] \cup {job[t]}
      /\ \A u \in Sockets : u # conn => delivered'[u] = delivered[u]
  BY <1>2 DEF Sent, TypeOK
<1>4. GivenOver(conn, job[t])
  BY <1>2, <1>3 DEF GivenOver
<1> QED
  BY <1>3, <1>4 DEF DeliveredMove

LEMMA DeliveriesMove ==
    ASSUME TypeOK, SendInv, [Next]_vars
    PROVE  \A s \in Sockets : DeliveredMove(s)
<1>1. ASSUME \A s \in Sockets : delivered'[s] \subseteq delivered[s]
      PROVE  \A s \in Sockets : DeliveredMove(s)
  BY <1>1 DEF DeliveredMove
<1>2. CASE delivered' = delivered
  BY <1>1, <1>2
<1>3. ASSUME NEW t \in Runners, RunDue(t)
      PROVE  \A s \in Sockets : DeliveredMove(s)
  <2>1. CASE Send(t)
    BY <1>2, <2>1, SentOver DEF Send, Senders
  <2>2. CASE ~Send(t)
    BY <1>2, <1>3, <2>2
    DEF RunDue, Acquire, List, PickInstall, PickScript, PickReboot, Ids, Insert, Mark, Undo,
        Close, world
  <2> QED
    BY <2>1, <2>2
<1>4. ASSUME NEW t \in Installs, Direct(t)
      PROVE  \A s \in Sockets : DeliveredMove(s)
  <2>1. CASE DirectSend(t)
    BY <1>2, <2>1, SentOver DEF DirectSend, Senders
  <2> QED
    BY <1>2, <1>4, <2>1 DEF Direct, DirectCheck, DirectInsert, DirectUndo, world
<1>5. ASSUME NEW s \in Sockets, Agent(s) \/ ReceiveFails(s)
      PROVE  \A u \in Sockets : DeliveredMove(u)
  <2>1. \A u \in Sockets : delivered'[u] \subseteq delivered[u]
    BY <1>5
    DEF Agent, Connect, Disconnect, Heartbeat, PatchReport, JobStarted, JobResult, ReceiveFails,
        CloseSocket, TypeOK, world
  <2> QED
    BY <1>1, <2>1
<1>6. CASE Restart
  BY <1>1, <1>6 DEF Restart
<1>7. CASE \/ \E t \in Tasks : Creation(t) \/ Finishing(t) \/ StatementFails(t)
           \/ \E t \in Requests : QueueAction(t)
           \/ \E t \in Windows : WindowTick(t)
           \/ \E a \in ActionId : CancelAction(a)
           \/ Expire \/ Gather \/ NextEnded \/ SelectStale \/ Sweep
           \/ Time \/ ScanRequest \/ TickFails \/ UNCHANGED vars
  BY <1>2, <1>7
  DEF Creation, Find, Widen, Add, Finishing, Match, Settle, StatementFails, QueueAction,
      WindowTick, CancelAction, Expire, Gather, NextEnded, SelectStale, Sweep, Time, Lapse,
      Ripen, Age, ForgetScan, ScanRequest, TickFails, world, vars
<1>8. Runners \subseteq Tasks /\ Sockets \subseteq Tasks /\ Cleanup \in Tasks
  BY DEF Tasks, Runners
<1> QED
  BY <1>3, <1>4, <1>5, <1>6, <1>7, <1>8 DEF Next, CleanupStep, Fault

LEMMA EndedMoves ==
    ASSUME TableInv, [Next]_vars
    PROVE  \A e \in ended' : e \in ended \/ (e.outcome = "done" => WellAfter(e.job))
<1>1. CASE Gather
  <2> SUFFICES ASSUME NEW e \in ended', e.outcome = "done" PROVE WellAfter(e.job)
    OBVIOUS
  <2>1. PICK j \in JobId : e = [job |-> j, outcome |-> ActionEnd(jobs[j].status)]
    BY <1>1 DEF Gather
  <2>2. jobs[j].status = "done" /\ jobs' = jobs
    BY <1>1, <2>1 DEF ActionEnd, Gather, tables
  <2>3. EndedWell(j)
    BY <2>2 DEF TableInv, WordInv
  <2> QED
    BY <2>1, <2>2, <2>3 DEF WellAfter, EndedWell
<1>2. CASE ended' \subseteq ended
  BY <1>2
<1>3. \/ ended' \subseteq ended \/ Gather
  BY DEF Next, RunDue, Acquire, List, PickInstall, PickScript, PickReboot, Ids, Insert, Send,
         Mark, Undo, Close, Creation, Find, Widen, Add, QueueAction, WindowTick, CancelAction,
         Agent, Connect, Disconnect, Heartbeat, PatchReport, JobStarted, JobResult, Finishing,
         Match, Settle, ScanRequest, Direct, DirectCheck, DirectInsert, DirectSend, DirectUndo,
         CleanupStep, Expire, NextEnded, SelectStale, Sweep, Time, Lapse, Ripen, Age,
         ForgetScan, Fault, StatementFails, TickFails, ReceiveFails, Restart, loop, vars
<1> QED
  BY <1>1, <1>2, <1>3

-----------------------------------------------------------------------------
\* The theorems.

LEMMA AllMove ==
    ASSUME Inv, AgreeInv, [Next]_vars
    PROVE  Moves
<1>1. TypeOK /\ SendInv /\ TableInv /\ LocalInv
  BY DEF Inv, AgreeInv
<1>2. Runners \subseteq Tasks /\ Senders \subseteq Tasks
  BY DEF Senders, Tasks
<1> QED
  BY <1>1, <1>2, LocalsMove, JobsMove, RowsMove, AskedMoves, DeliveriesMove, EndedMoves
  DEF Moves, LocalMove

LEMMA AgreeInit == Init => AgreeInv
<1> SUFFICES ASSUME Init PROVE AgreeInv
  OBVIOUS
<1>1. \A t \in Tasks : pc[t] \in {"off", "idle"}
  BY DEF Init
<1>2. Runners \subseteq Tasks /\ Senders \subseteq Tasks
  BY DEF Senders, Tasks
<1>3. LocalInv
  BY <1>1, <1>2 DEF LocalInv, Unsent, Carries, OwnJobs, Ends, Found, Holding, Senders
<1>4. TableInv
  BY DEF Init, TableInv, WordInv, DeliveredInv, BareInv
<1>5. TablesAgree /\ RebootEarned
  BY DEF Init, TablesAgree, RebootEarned
<1> QED
  BY <1>3, <1>4, <1>5 DEF AgreeInv

\* What the coroutines know of the two tables between their statements always
\* holds.
THEOREM Agreement == Spec => [](Inv /\ AgreeInv)
<1>1. Init => Inv /\ AgreeInv
  BY InvInit, AgreeInit
<1>2. Inv /\ AgreeInv /\ [Next]_vars => (Inv /\ AgreeInv)'
  BY InvStep, AllMove, MovesKeep
<1> QED
  BY <1>1, <1>2, PTL DEF Spec

\* The two tables agree, whatever the sockets, requests, sweeps, restarts and
\* failed statements do between their writes: a row that has a job has one that
\* was sent for it, of its kind, and is closed as done only if the agent
\* reported that job as done.
THEOREM TablesStayTrue == Spec => []TablesAgree
<1>1. AgreeInv => TablesAgree
  BY DEF AgreeInv
<1> QED
  BY <1>1, Agreement, PTL

\* A restart of the device is queued only once the agent has reported an
\* install as done whose action somebody wanted followed by a restart: what
\* Settle read of the row and the report is still true when the follow-up is
\* written, two statements later.
THEOREM RestartIsEarned == Spec => []RebootEarned
<1>1. AgreeInv => RebootEarned
  BY DEF AgreeInv
<1> QED
  BY <1>1, Agreement, PTL
=============================================================================
