---------------------------- MODULE ActionRunner ----------------------------
(***************************************************************************)
(* Actions queued for one device and the coroutines that carry them out:  *)
(* backend/app/pending_actions.py (the table), action_runner.py (run_due,  *)
(* on_job_finished, housekeeping) and their callers in routers/agent.py,   *)
(* routers/actions.py, routers/patches.py, automation.py and main.py.      *)
(*                                                                         *)
(* The backend is one process with one event loop.  Coroutines interleave  *)
(* at their awaits, so a step of this module is what runs between two      *)
(* awaits that matter: one database statement, or one send.  Rows and the  *)
(* lock are per device, and devices share nothing here, so one device is   *)
(* modelled.                                                               *)
(*                                                                         *)
(* Time is abstracted to the comparisons the code makes: a row's lifetime  *)
(* has lapsed, a reboot row is old enough to be decided, a job is older    *)
(* than its sweep limit, a scan request is recent.                         *)
(***************************************************************************)
EXTENDS Naturals, FiniteSets, JobStatus

CONSTANTS
    Sockets,     \* agent_ws receive loops: the device's connections over time
    Requests,    \* POST /api/devices/{id}/actions handlers
    Installs,    \* POST /api/devices/{id}/patches/install handlers
    Windows,     \* the alert loop, in its patch window tick
    Cleanup,     \* the cleanup loop
    NoTask,
    Severities,  \* the severities an update of the device can have
    Wishes,      \* what is asked for: kind, scope, and restart afterwards
    Sweeping,    \* does the cleanup loop run?
    MaxActions,  \* rows of pending_actions
    MaxQueued,   \* of which not reboots
    MaxJobs,     \* rows of jobs
    MaxScans,    \* scan requests
    MaxFaults    \* restarts of the server and database errors

Runners == Sockets \cup Requests \cup Windows
Tasks   == Runners \cup Installs \cup {Cleanup}

ASSUME BoundsAssumption ==
    /\ MaxActions \in Nat /\ MaxQueued \in Nat /\ MaxJobs \in Nat
    /\ MaxScans \in Nat /\ MaxFaults \in Nat
    /\ Sweeping \in BOOLEAN

ASSUME TasksAssumption ==
    /\ NoTask \notin Tasks
    /\ Windows \cap (Sockets \cup Requests \cup Installs) = {}
    /\ Cleanup \notin Runners \cup Installs
    /\ Sockets \cap Requests = {}
    /\ Installs \cap (Sockets \cup Requests) = {}

VARIABLES
    actions,    \* table pending_actions
    jobs,       \* table jobs
    patches,    \* table patches: which severities have something pending
    lastScan,   \* devices.last_patch_scan_at: the request it answered
    scan,       \* patch_scan._requested: the last request, and is it recent
    conn,       \* agents_ws.manager: the device's live socket
    delivered,  \* jobs the agent works on, by the socket it got them on
    lock,       \* action_runner._locks: who holds the device's lock
    pc,         \* where each coroutine is suspended
    todo, cur,  \* run_due: rows of due_for_device left, and the current one
    job,        \* the job a coroutine has created or was told about
    arg,        \* the other local variables of the coroutines
    ended,      \* housekeeping: dispatched rows whose job is over
    stale,      \* sweep_stale: the ids it has selected
    faults      \* restarts and errors so far

tables == <<actions, jobs, patches, lastScan>>
world  == <<scan, conn, delivered>>
locals == <<pc, todo, cur, job, arg>>
loop   == <<ended, stale>>
vars   == <<tables, world, lock, locals, loop, faults>>

ActionId == 1 .. MaxActions
JobId    == 1 .. MaxJobs
Kind     == {"patch_install", "script", "reboot"}
Scope    == {"security", "all"}        \* security_only, and its negation
Reboot   == {"yes", "no", "absent"}    \* "no": false or unknown; "absent": no heartbeat

ClosedAction == {"done", "failed", "expired", "cancelled"}
ActionState  == {"none", "pending", "dispatched"} \cup ClosedAction

\* lapsed: expires_at has passed.  aged: REBOOT_DECISION_S since created_at.
\* asked is history: somebody who created or widened the row asked for a
\* restart.
ActionRow == [state: ActionState, kind: Kind, scope: Scope, reboot: BOOLEAN,
              job: 0 .. MaxJobs, lapsed: BOOLEAN, aged: BOOLEAN, asked: BOOLEAN]

\* old: created_at is before the cutoff of sweep_stale.  The others are
\* history: the action the job carries out, whether the send succeeded, how
\* many faults had happened when it was created, and the end the agent
\* reported ("none" so far), whatever the sweep has made of the status.
JobRow == [status: JobState, kind: Kind, scope: Scope, old: BOOLEAN,
           action: 0 .. MaxActions, sent: BOOLEAN, epoch: Nat,
           report: {"none", "done", "failed"}]

\* What a coroutine keeps of a row it has read, or is about to write; id 0
\* is no row.
Snapshot == [id: 0 .. MaxActions, kind: Kind, scope: Scope, reboot: BOOLEAN]
Want(kind, scope, reboot) ==
    [id |-> 0, kind |-> kind, scope |-> scope, reboot |-> reboot]
NoRow == Want("script", "all", FALSE)

ASSUME WishesAssumption ==
    /\ Severities \subseteq {"security", "other"}
    /\ Wishes \subseteq [id: {0}, kind: {"patch_install", "script"},
                         scope: Scope, reboot: BOOLEAN]

\* hb: reboot_required of the heartbeat; seen: last_patch_scan_at as read;
\* online: is_connected as read; outcome: the state the action gets;
\* found: the open row pending_actions.create has read.
Arg   == [hb: Reboot, seen: Nat, online: BOOLEAN,
          outcome: {"done", "failed"}, found: Snapshot]
NoArg == [hb |-> "absent", seen |-> 0, online |-> FALSE,
          outcome |-> "failed", found |-> NoRow]

Critical == {"list", "pick", "ids", "insert", "send", "mark", "undo", "close"}
PC == {"off", "idle", "wait", "find", "write", "match", "settle", "ended", "gather", "stale", "sweep"}
      \cup Critical

TypeOK ==
    /\ actions \in [ActionId -> ActionRow]
    /\ jobs \in [JobId -> JobRow]
    /\ patches \in SUBSET Severities
    /\ lastScan \in Nat
    /\ scan \in [asked: Nat, fresh: BOOLEAN]
    /\ conn \in Sockets \cup {NoTask}
    /\ delivered \in [Sockets -> SUBSET JobId]
    /\ lock \in Tasks \cup {NoTask}
    /\ pc \in [Tasks -> PC]
    /\ todo \in [Tasks -> SUBSET Snapshot]
    /\ cur \in [Tasks -> Snapshot]
    /\ job \in [Tasks -> 0 .. MaxJobs]
    /\ arg \in [Tasks -> Arg]
    /\ ended \in SUBSET [job: JobId, outcome: {"done", "failed"}]
    /\ stale \in SUBSET JobId
    /\ faults \in Nat

Init ==
    /\ actions = [a \in ActionId |->
                    [state |-> "none", kind |-> "script", scope |-> "all",
                     reboot |-> FALSE, job |-> 0, lapsed |-> FALSE, aged |-> FALSE,
                     asked |-> FALSE]]
    /\ jobs = [j \in JobId |->
                    [status |-> "none", kind |-> "script", scope |-> "all",
                     old |-> FALSE, action |-> 0, sent |-> FALSE, epoch |-> 0,
                     report |-> "none"]]
    /\ patches = Severities
    /\ lastScan = 0
    /\ scan = [asked |-> 0, fresh |-> FALSE]
    /\ conn = NoTask
    /\ delivered = [s \in Sockets |-> {}]
    /\ lock = NoTask
    /\ pc = [t \in Tasks |-> IF t \in Sockets THEN "off" ELSE "idle"]
    /\ todo = [t \in Tasks |-> {}]
    /\ cur = [t \in Tasks |-> NoRow]
    /\ job = [t \in Tasks |-> 0]
    /\ arg = [t \in Tasks |-> NoArg]
    /\ ended = {}
    /\ stale = {}
    /\ faults = 0

-----------------------------------------------------------------------------
\* Queries.

ActiveInstall ==
    \E j \in JobId : jobs[j].kind = "patch_install" /\ jobs[j].status \in ActiveJob

\* AUTOINCREMENT: the next row gets the next id.
NewAction == {a \in ActionId : /\ actions[a].state = "none"
                               /\ \A b \in ActionId : b < a => actions[b].state # "none"}
NewJob    == {j \in JobId : /\ jobs[j].status = "none"
                            /\ \A i \in JobId : i < j => jobs[i].status # "none"}

PendingIds(scope) == IF scope = "security" THEN patches \cap {"security"} ELSE patches

\* A scan was requested after the last report the coroutine knows of.
AwaitingReport(seen) == scan.fresh /\ scan.asked > seen

SnapshotOf(a) == [id |-> a, kind |-> actions[a].kind,
                  scope |-> actions[a].scope, reboot |-> actions[a].reboot]

DueRows == {SnapshotOf(a) : a \in {b \in ActionId : /\ actions[b].state = "pending"
                                                    /\ ~actions[b].lapsed}}

PendingRows(kind) == {a \in ActionId : actions[a].state = "pending" /\ actions[a].kind = kind}

-----------------------------------------------------------------------------
\* Control flow shared by the coroutines.

Goto(t, label) == pc' = [pc EXCEPT ![t] = label]

\* The coroutine is back in its caller: the receive loop, the finished HTTP
\* request, or the housekeeping loop over ended rows.
Return(t) ==
    /\ Goto(t, IF t = Cleanup THEN "ended" ELSE "idle")
    /\ todo' = [todo EXCEPT ![t] = {}]
    /\ cur'  = [cur EXCEPT ![t] = NoRow]
    /\ job'  = [job EXCEPT ![t] = 0]
    /\ arg'  = [arg EXCEPT ![t] = NoArg]

\* _set_state.  The expiry is of no interest once a row is not pending.
Row(a, state) == [actions[a] EXCEPT !.state = state, !.lapsed = FALSE]

\* Neither is the age of a job that has ended.
JobRowAs(j, status) ==
    [jobs[j] EXCEPT !.status = status, !.old = @ /\ status \in ActiveJob]

\* The head of run_due, without the lock: is the agent connected and is
\* anything pending?  has_due does not look at the expiry.
Due == conn # NoTask /\ \E a \in ActionId : actions[a].state = "pending"

\* run_due turns to the next row of its list, or leaves the lock.
NextRow(t) ==
    IF todo[t] = {}
    THEN /\ lock' = NoTask
         /\ Return(t)
    ELSE /\ Goto(t, "pick")
         /\ cur' = [cur EXCEPT ![t] = NoRow]
         /\ job' = [job EXCEPT ![t] = 0]
         /\ UNCHANGED <<lock, todo, arg>>

-----------------------------------------------------------------------------
\* pending_actions.create, and the callers that end up in it.

\* The SELECT for a pending row of the same kind.
Find(t) ==
    /\ pc[t] = "find"
    /\ \/ /\ PendingRows(cur[t].kind) = {}
          /\ arg' = [arg EXCEPT ![t].found = NoRow]
       \/ \E a \in PendingRows(cur[t].kind) :
            /\ \A b \in PendingRows(cur[t].kind) : a <= b
            /\ arg' = [arg EXCEPT ![t].found = SnapshotOf(a)]
    /\ Goto(t, "write")
    /\ UNCHANGED <<tables, world, lock, todo, cur, job, loop, faults>>

\* An HTTP request goes on to run_due, the patch window if the device was
\* online, a follow-up not at all.  There is a pending row now (or the next
\* list is empty), so the head of run_due depends on the connection alone.
AfterWrite(t) ==
    IF conn # NoTask /\ (t \in Requests \/ (t \in Windows /\ arg[t].online))
    THEN /\ Goto(t, "wait")
         /\ cur' = [cur EXCEPT ![t] = NoRow]
         /\ arg' = [arg EXCEPT ![t] = NoArg]
         /\ UNCHANGED <<todo, job>>
    ELSE Return(t)

\* The UPDATE that widens the row found.  It names the row by id alone and
\* writes values computed from what the SELECT returned.
Widen(t) ==
    /\ pc[t] = "write" /\ arg[t].found.id # 0
    /\ LET old == arg[t].found
           row == actions[old.id]
       IN actions' = [actions EXCEPT ![old.id] =
            [row EXCEPT !.scope  = IF old.scope = "security" THEN cur[t].scope ELSE "all",
                        !.reboot = old.reboot \/ cur[t].reboot,
                        !.lapsed = FALSE,
                        !.asked  = row.asked \/ cur[t].reboot]]
    /\ AfterWrite(t)
    /\ UNCHANGED <<jobs, patches, lastScan, world, lock, loop, faults>>

\* The INSERT.  MaxQueued leaves rows for the follow-ups; beyond the bounds
\* it raises.
NewQueued ==
    IF Cardinality({a \in ActionId : /\ actions[a].state # "none"
                                     /\ actions[a].kind # "reboot"}) < MaxQueued
    THEN NewAction ELSE {}

Add(t) ==
    /\ pc[t] = "write" /\ arg[t].found.id = 0
    /\ LET room == IF cur[t].kind = "reboot" THEN NewAction ELSE NewQueued IN
       \/ /\ \E a \in room :
               actions' = [actions EXCEPT ![a] =
                  [state |-> "pending", kind |-> cur[t].kind, scope |-> cur[t].scope,
                   reboot |-> cur[t].reboot, job |-> 0, lapsed |-> FALSE, aged |-> FALSE,
                   asked |-> cur[t].reboot]]
          /\ AfterWrite(t)
       \/ room = {} /\ Return(t) /\ UNCHANGED actions
    /\ UNCHANGED <<jobs, patches, lastScan, world, lock, loop, faults>>

\* queue_action: an install with its options, or the script.
QueueAction(t) ==
    /\ t \in Requests /\ pc[t] = "idle"
    /\ \E w \in Wishes : cur' = [cur EXCEPT ![t] = w]
    /\ Goto(t, "find")
    /\ UNCHANGED <<tables, world, lock, todo, job, arg, loop, faults>>

\* run_patch_window for this device, in scope, with catch-up days set: a
\* device that is online and has nothing to install gets no row.
WindowTick(t) ==
    /\ t \in Windows /\ pc[t] = "idle"
    /\ \E w \in Wishes :
         /\ w.kind = "patch_install"
         /\ conn # NoTask => PendingIds(w.scope) # {}
         /\ cur' = [cur EXCEPT ![t] = w]
    /\ arg' = [arg EXCEPT ![t].online = (conn # NoTask)]
    /\ Goto(t, "find")
    /\ UNCHANGED <<tables, world, lock, todo, job, loop, faults>>

\* pending_actions.cancel: the one guarded UPDATE.
CancelAction(a) ==
    /\ actions[a].state = "pending"
    /\ actions' = [actions EXCEPT ![a] = Row(a, "cancelled")]
    /\ UNCHANGED <<jobs, patches, lastScan, world, lock, locals, loop, faults>>

-----------------------------------------------------------------------------
\* The agent's messages, in the receive loop of one socket.

Connect(s) ==
    /\ pc[s] = "off"
    /\ conn' = s
    /\ Goto(s, "idle")
    /\ UNCHANGED <<tables, scan, delivered, lock, todo, cur, job, arg, loop, faults>>

\* The loop sees the end of its socket.  The agent cancels what it got over
\* it (agent/client.go, connectAndServe).
CloseSocket(s) ==
    /\ conn' = IF conn = s THEN NoTask ELSE conn
    /\ delivered' = [delivered EXCEPT ![s] = {}]
    /\ Goto(s, "off")
    /\ job' = [job EXCEPT ![s] = 0]
    /\ arg' = [arg EXCEPT ![s] = NoArg]

Disconnect(s) ==
    /\ pc[s] = "idle"
    /\ CloseSocket(s)
    /\ UNCHANGED <<tables, scan, lock, todo, cur, loop, faults>>

\* _maybe_request_patch_scan asks for a scan unless an install is running;
\* whether the device is past its slot is left open.  Then run_due.
Heartbeat(s) ==
    /\ pc[s] = "idle"
    /\ \/ UNCHANGED scan
       \/ /\ ~ActiveInstall /\ scan.asked < MaxScans
          /\ scan' = [asked |-> scan.asked + 1, fresh |-> TRUE]
    /\ IF Due
       THEN /\ \E r \in Reboot \ {"absent"} : arg' = [arg EXCEPT ![s].hb = r]
            /\ Goto(s, "wait")
       ELSE UNCHANGED <<pc, arg>>
    /\ UNCHANGED <<tables, conn, delivered, lock, todo, cur, job, loop, faults>>

\* apply_scan and mark_patch_scan, then run_due without a heartbeat.
PatchReport(s) ==
    /\ pc[s] = "idle"
    /\ patches' \in SUBSET Severities
    /\ lastScan' = scan.asked
    /\ IF Due THEN Goto(s, "wait") ELSE UNCHANGED pc
    /\ UNCHANGED <<actions, jobs, world, lock, todo, cur, job, arg, loop, faults>>

JobStarted(s) ==
    /\ pc[s] = "idle"
    /\ \E j \in delivered[s] :
         jobs' = [jobs EXCEPT ![j] = JobRowAs(j, AfterStarted(jobs[j].status))]
    /\ UNCHANGED <<actions, patches, lastScan, world, lock, locals, loop, faults>>

\* on_job_finished knows two ends of an action.
ActionEnd(status) == IF status = "done" THEN "done" ELSE "failed"

Reported(j, r) == [JobRowAs(j, AfterResult(jobs[j].status, r)) EXCEPT !.report = ActionEnd(r)]

\* finish_job, then on_job_finished with the status the agent reported.
JobResult(s) ==
    /\ pc[s] = "idle"
    /\ \E j \in delivered[s], r \in AgentResult :
         /\ jobs' = [jobs EXCEPT ![j] = Reported(j, r)]
         /\ job' = [job EXCEPT ![s] = j]
         /\ arg' = [arg EXCEPT ![s].outcome = ActionEnd(r)]
         /\ delivered' = [delivered EXCEPT ![s] = @ \ {j}]
    /\ Goto(s, "match")
    /\ UNCHANGED <<actions, patches, lastScan, scan, conn, lock, todo, cur, loop, faults>>

\* The operator's scan button (scan_patches).
ScanRequest ==
    /\ conn # NoTask /\ scan.asked < MaxScans
    /\ scan' = [asked |-> scan.asked + 1, fresh |-> TRUE]
    /\ UNCHANGED <<tables, conn, delivered, lock, locals, loop, faults>>

-----------------------------------------------------------------------------
\* run_due.

\* Mutation: a coroutine that does not wait for the lock.
AcquireAnyway(t) ==
    /\ pc[t] = "wait"
    /\ lock' = t
    /\ arg' = [arg EXCEPT ![t].seen = lastScan]
    /\ Goto(t, "list")
    /\ UNCHANGED <<tables, world, todo, cur, job, loop, faults>>

\* async with _lock(device_id), and get_device under it.
Acquire(t) ==
    /\ pc[t] = "wait" /\ lock = NoTask
    /\ lock' = t
    /\ arg' = [arg EXCEPT ![t].seen = lastScan]
    /\ Goto(t, "list")
    /\ UNCHANGED <<tables, world, todo, cur, job, loop, faults>>

List(t) ==
    /\ pc[t] = "list"
    /\ IF DueRows = {}
       THEN lock' = NoTask /\ Return(t)
       ELSE /\ todo' = [todo EXCEPT ![t] = DueRows]
            /\ Goto(t, "pick")
            /\ UNCHANGED <<lock, cur, job, arg>>
    /\ UNCHANGED <<tables, world, loop, faults>>

\* The rows come ordered by id.
First(t) == {r \in todo[t] : \A q \in todo[t] : r.id <= q.id}

\* The row r is left alone this time.
Skip(t, r) ==
    /\ IF todo[t] = {r}
       THEN /\ lock' = NoTask
            /\ Return(t)
       ELSE /\ todo' = [todo EXCEPT ![t] = @ \ {r}]
            /\ UNCHANGED <<lock, pc, cur, job, arg>>

Take(t, r, label) ==
    /\ todo' = [todo EXCEPT ![t] = @ \ {r}]
    /\ cur' = [cur EXCEPT ![t] = r]
    /\ Goto(t, label)
    /\ UNCHANGED <<lock, job>>

\* Mutation: a running install is no obstacle.
PickInstallAnyway(t) ==
    /\ pc[t] = "pick"
    /\ \E r \in First(t) :
         /\ r.kind = "patch_install"
         /\ IF AwaitingReport(arg[t].seen)
            THEN Skip(t, r)
            ELSE Take(t, r, "ids") /\ UNCHANGED arg
    /\ UNCHANGED <<tables, world, loop, faults>>

\* _patch_install up to the list of updates.
PickInstall(t) ==
    /\ pc[t] = "pick"
    /\ \E r \in First(t) :
         /\ r.kind = "patch_install"
         /\ IF ActiveInstall \/ AwaitingReport(arg[t].seen)
            THEN Skip(t, r)
            ELSE Take(t, r, "ids") /\ UNCHANGED arg
    /\ UNCHANGED <<tables, world, loop, faults>>

\* _script: the script may be gone, or be for another system.
PickScript(t) ==
    /\ pc[t] = "pick"
    /\ \E r \in First(t) :
         /\ r.kind = "script"
         /\ \/ Take(t, r, "insert") /\ UNCHANGED arg
            \/ /\ Take(t, r, "close")
               /\ arg' = [arg EXCEPT ![t].outcome = "failed"]
    /\ UNCHANGED <<tables, world, loop, faults>>

\* Mutation: no look at a running install.
PickRebootAnyway(t) ==
    /\ pc[t] = "pick"
    /\ \E r \in First(t) :
         /\ r.kind = "reboot"
         /\ IF arg[t].hb # "yes"
            THEN Skip(t, r)
            ELSE Take(t, r, "insert") /\ UNCHANGED arg
    /\ UNCHANGED <<tables, world, loop, faults>>

\* _reboot: only a heartbeat decides.  A "no" or silence closes the row once
\* it is old enough; a system without a restart command fails it.
PickReboot(t) ==
    /\ pc[t] = "pick"
    /\ \E r \in First(t) :
         /\ r.kind = "reboot"
         /\ IF \/ arg[t].hb = "absent" \/ ActiveInstall
               \/ arg[t].hb # "yes" /\ ~actions[r.id].aged
            THEN Skip(t, r)
            ELSE IF arg[t].hb # "yes"
                 THEN /\ Take(t, r, "close")
                      /\ arg' = [arg EXCEPT ![t].outcome = "done"]
                 ELSE \/ Take(t, r, "insert") /\ UNCHANGED arg
                      \/ /\ Take(t, r, "close")
                         /\ arg' = [arg EXCEPT ![t].outcome = "failed"]
    /\ UNCHANGED <<tables, world, loop, faults>>

\* pending_ids for the scope the row had when it was listed.
Ids(t) ==
    /\ pc[t] = "ids"
    /\ IF PendingIds(cur[t].scope) = {}
       THEN /\ Goto(t, "close")
            /\ arg' = [arg EXCEPT ![t].outcome = "done"]
       ELSE Goto(t, "insert") /\ UNCHANGED arg
    /\ UNCHANGED <<tables, world, lock, todo, cur, job, loop, faults>>

NewJobRow(kind, scope, action) ==
    [status |-> "queued", kind |-> kind, scope |-> scope, old |-> FALSE,
     action |-> action, sent |-> FALSE, epoch |-> faults, report |-> "none"]

\* create_job.  Beyond MaxJobs it raises.
Insert(t) ==
    /\ pc[t] = "insert"
    /\ \/ /\ \E j \in NewJob :
               /\ jobs' = [jobs EXCEPT ![j] =
                              NewJobRow(cur[t].kind, cur[t].scope, cur[t].id)]
               /\ job' = [job EXCEPT ![t] = j]
          /\ Goto(t, "send")
          /\ UNCHANGED <<lock, todo, cur, arg>>
       \/ NewJob = {} /\ lock' = NoTask /\ Return(t) /\ UNCHANGED jobs
    /\ UNCHANGED <<actions, patches, lastScan, world, loop, faults>>

\* manager.send: nobody there, a dead socket, or a message on its way.
Sent(t) ==
    /\ conn # NoTask
    /\ delivered' = [delivered EXCEPT ![conn] = @ \cup {job[t]}]
    /\ jobs' = [jobs EXCEPT ![job[t]].sent = TRUE]

Send(t) ==
    /\ pc[t] = "send"
    /\ \/ Sent(t) /\ Goto(t, "mark")
       \/ Goto(t, "undo") /\ UNCHANGED <<delivered, jobs>>
    /\ UNCHANGED <<actions, patches, lastScan, scan, conn, lock,
                   todo, cur, job, arg, loop, faults>>

\* mark_dispatched: an UPDATE by id alone.
Mark(t) ==
    /\ pc[t] = "mark"
    /\ actions' = [actions EXCEPT ![cur[t].id] =
                       [Row(cur[t].id, "dispatched") EXCEPT !.job = job[t]]]
    /\ NextRow(t)
    /\ UNCHANGED <<jobs, patches, lastScan, world, loop, faults>>

\* fail_undispatched; the action stays pending.
Undo(t) ==
    /\ pc[t] = "undo"
    /\ jobs' = [jobs EXCEPT ![job[t]] =
                    JobRowAs(job[t], AfterUndispatched(jobs[job[t]].status))]
    /\ NextRow(t)
    /\ UNCHANGED <<actions, patches, lastScan, world, loop, faults>>

\* _close: an UPDATE by id alone as well.
Close(t) ==
    /\ pc[t] = "close"
    /\ actions' = [actions EXCEPT ![cur[t].id] = Row(cur[t].id, arg[t].outcome)]
    /\ NextRow(t)
    /\ UNCHANGED <<jobs, patches, lastScan, world, loop, faults>>

-----------------------------------------------------------------------------
\* install_patches: the direct route, which takes no lock.

DirectCheck(t) ==
    /\ t \in Installs /\ pc[t] = "idle"
    /\ ~ActiveInstall
    /\ \E scope \in Scope :
         cur' = [cur EXCEPT ![t] = Want("patch_install", scope, FALSE)]
    /\ Goto(t, "ids")
    /\ UNCHANGED <<tables, world, lock, todo, job, arg, loop, faults>>

DirectInsert(t) ==
    /\ t \in Installs /\ pc[t] = "ids"
    /\ IF PendingIds(cur[t].scope) = {}
          \/ NewJob = {}
       THEN Return(t) /\ UNCHANGED jobs
       ELSE /\ \E j \in NewJob :
                 /\ jobs' = [jobs EXCEPT ![j] =
                                NewJobRow("patch_install", cur[t].scope, 0)]
                 /\ job' = [job EXCEPT ![t] = j]
            /\ Goto(t, "send")
            /\ UNCHANGED <<todo, cur, arg>>
    /\ UNCHANGED <<actions, patches, lastScan, world, lock, loop, faults>>

DirectSend(t) ==
    /\ t \in Installs /\ pc[t] = "send"
    /\ \/ Sent(t) /\ Return(t)
       \/ Goto(t, "undo") /\ UNCHANGED <<delivered, jobs, todo, cur, job, arg>>
    /\ UNCHANGED <<actions, patches, lastScan, scan, conn, lock, loop, faults>>

DirectUndo(t) ==
    /\ t \in Installs /\ pc[t] = "undo"
    /\ jobs' = [jobs EXCEPT ![job[t]] =
                    JobRowAs(job[t], AfterUndispatched(jobs[job[t]].status))]
    /\ Return(t)
    /\ UNCHANGED <<actions, patches, lastScan, world, lock, loop, faults>>

-----------------------------------------------------------------------------
\* on_job_finished, in a receive loop or in housekeeping.

\* action_for_job
Match(t) ==
    /\ pc[t] = "match"
    /\ LET mine == {a \in ActionId : /\ actions[a].state = "dispatched"
                                     /\ actions[a].job = job[t]}
       IN IF mine = {}
          THEN Return(t)
          ELSE /\ \E a \in mine : cur' = [cur EXCEPT ![t] = SnapshotOf(a)]
               /\ Goto(t, "settle")
               /\ UNCHANGED <<todo, job, arg>>
    /\ UNCHANGED <<tables, world, lock, loop, faults>>

\* Mutations: the follow-up whatever the install's end; every end a success.
SettleAlways(t) ==
    /\ pc[t] = "settle"
    /\ actions' = [actions EXCEPT ![cur[t].id] = Row(cur[t].id, arg[t].outcome)]
    /\ IF cur[t].kind = "patch_install" /\ cur[t].reboot
       THEN /\ cur' = [cur EXCEPT ![t] = Want("reboot", "all", FALSE)]
            /\ Goto(t, "find")
            /\ UNCHANGED <<todo, job, arg>>
       ELSE Return(t)
    /\ UNCHANGED <<jobs, patches, lastScan, world, lock, loop, faults>>

SettleDone(t) ==
    /\ pc[t] = "settle"
    /\ actions' = [actions EXCEPT ![cur[t].id] = Row(cur[t].id, "done")]
    /\ Return(t)
    /\ UNCHANGED <<jobs, patches, lastScan, world, lock, loop, faults>>

\* Close the row; a successful install that asked for it is followed by a
\* reboot row.
Settle(t) ==
    /\ pc[t] = "settle"
    /\ actions' = [actions EXCEPT ![cur[t].id] =
                       Row(cur[t].id, arg[t].outcome)]
    /\ IF arg[t].outcome = "done" /\ cur[t].kind = "patch_install" /\ cur[t].reboot
       THEN /\ cur' = [cur EXCEPT ![t] = Want("reboot", "all", FALSE)]
            /\ Goto(t, "find")
            /\ UNCHANGED <<todo, job, arg>>
       ELSE Return(t)
    /\ UNCHANGED <<jobs, patches, lastScan, world, lock, loop, faults>>

-----------------------------------------------------------------------------
\* The cleanup loop: housekeeping, then sweep_stale.

CleanupGoto(label) == Goto(Cleanup, label) /\ UNCHANGED <<todo, cur, job, arg>>

Expire ==
    /\ Sweeping /\ pc[Cleanup] = "idle"
    /\ actions' = [a \in ActionId |->
                     IF actions[a].state = "pending" /\ actions[a].lapsed
                     THEN Row(a, "expired") ELSE actions[a]]
    /\ CleanupGoto("gather")
    /\ UNCHANGED <<jobs, patches, lastScan, world, lock, loop, faults>>

\* Mutation: jobs that were swept to timeout are forgotten.
GatherReported ==
    /\ pc[Cleanup] = "gather"
    /\ ended' = {[job |-> j, outcome |-> ActionEnd(jobs[j].status)] :
                   j \in {i \in JobId : /\ jobs[i].status \in {"done", "failed"}
                                        /\ \E a \in ActionId :
                                             /\ actions[a].state = "dispatched"
                                             /\ actions[a].job = i}}
    /\ CleanupGoto("ended")
    /\ UNCHANGED <<tables, world, lock, stale, faults>>

\* dispatched_with_finished_job
Gather ==
    /\ pc[Cleanup] = "gather"
    /\ ended' = {[job |-> j, outcome |-> ActionEnd(jobs[j].status)] :
                   j \in {i \in JobId : /\ jobs[i].status \in TerminalJob
                                        /\ \E a \in ActionId :
                                             /\ actions[a].state = "dispatched"
                                             /\ actions[a].job = i}}
    /\ CleanupGoto("ended")
    /\ UNCHANGED <<tables, world, lock, stale, faults>>

NextEnded ==
    /\ pc[Cleanup] = "ended"
    /\ IF ended = {}
       THEN CleanupGoto("stale") /\ UNCHANGED ended
       ELSE \E e \in ended :
              /\ ended' = ended \ {e}
              /\ job' = [job EXCEPT ![Cleanup] = e.job]
              /\ arg' = [arg EXCEPT ![Cleanup].outcome = e.outcome]
              /\ Goto(Cleanup, "match")
              /\ UNCHANGED <<todo, cur>>
    /\ UNCHANGED <<tables, world, lock, stale, faults>>

\* Mutation: only jobs that have started are swept.
SelectStaleRunning ==
    /\ pc[Cleanup] = "stale"
    /\ stale' = {j \in JobId : jobs[j].status = "running" /\ jobs[j].old}
    /\ CleanupGoto("sweep")
    /\ UNCHANGED <<tables, world, lock, ended, faults>>

\* sweep_stale selects the old jobs, then updates them one by one by id and
\* commits once.
SelectStale ==
    /\ pc[Cleanup] = "stale"
    /\ stale' = {j \in JobId : jobs[j].status \in ActiveJob /\ jobs[j].old}
    /\ CleanupGoto("sweep")
    /\ UNCHANGED <<tables, world, lock, ended, faults>>

Sweep ==
    /\ pc[Cleanup] = "sweep"
    /\ jobs' = [j \in JobId |-> IF j \in stale
                                THEN JobRowAs(j, AfterSweep(jobs[j].status))
                                ELSE jobs[j]]
    /\ stale' = {}
    /\ CleanupGoto("idle")
    /\ UNCHANGED <<actions, patches, lastScan, world, lock, ended, faults>>

-----------------------------------------------------------------------------
\* Time.

Lapse(a) ==
    /\ actions[a].state = "pending" /\ ~actions[a].lapsed
    /\ actions' = [actions EXCEPT ![a].lapsed = TRUE]
    /\ UNCHANGED <<jobs, patches, lastScan, world, lock, locals, loop, faults>>

Ripen(a) ==
    /\ actions[a].state # "none" /\ actions[a].kind = "reboot" /\ ~actions[a].aged
    /\ actions' = [actions EXCEPT ![a].aged = TRUE]
    /\ UNCHANGED <<jobs, patches, lastScan, world, lock, locals, loop, faults>>

Age(j) ==
    /\ Sweeping /\ jobs[j].status \in ActiveJob /\ ~jobs[j].old
    /\ jobs' = [jobs EXCEPT ![j].old = TRUE]
    /\ UNCHANGED <<actions, patches, lastScan, world, lock, locals, loop, faults>>

ForgetScan ==
    /\ scan.fresh
    /\ scan' = [scan EXCEPT !.fresh = FALSE]
    /\ UNCHANGED <<tables, conn, delivered, lock, locals, loop, faults>>

-----------------------------------------------------------------------------
\* Faults.

\* Mutation: the lock is not released when an exception leaves run_due.
StatementFailsLocked(t) ==
    /\ faults < MaxFaults
    /\ t # Cleanup
    /\ pc[t] \in (Critical \ {"send"}) \cup {"find", "write", "match", "settle"}
    /\ Return(t)
    /\ faults' = faults + 1
    /\ UNCHANGED <<tables, world, lock, loop>>

\* A statement of run_due or on_job_finished raises, most likely "database
\* is locked": the lock is released on the way out, the caller logs it.
StatementFails(t) ==
    /\ faults < MaxFaults
    /\ t # Cleanup
    /\ pc[t] \in (Critical \ {"send"}) \cup {"find", "write", "match", "settle"}
    /\ lock' = IF lock = t THEN NoTask ELSE lock
    /\ Return(t)
    /\ faults' = faults + 1
    /\ UNCHANGED <<tables, world, loop>>

\* In the cleanup loop it ends the tick.
TickFails ==
    /\ faults < MaxFaults
    /\ pc[Cleanup] # "idle"
    /\ Goto(Cleanup, "idle")
    /\ cur' = [cur EXCEPT ![Cleanup] = NoRow]
    /\ job' = [job EXCEPT ![Cleanup] = 0]
    /\ arg' = [arg EXCEPT ![Cleanup] = NoArg]
    /\ ended' = {} /\ stale' = {}
    /\ faults' = faults + 1
    /\ UNCHANGED <<tables, world, lock, todo>>

\* In a statement of the receive loop itself, finish_job say, it ends the
\* loop and with it the connection.
ReceiveFails(s) ==
    /\ faults < MaxFaults
    /\ pc[s] = "idle"
    /\ CloseSocket(s)
    /\ faults' = faults + 1
    /\ UNCHANGED <<tables, scan, lock, todo, cur, loop>>

\* The server restarts: what was in memory is gone, and the agent drops the
\* jobs it got over the lost connection.
Restart ==
    /\ faults < MaxFaults
    /\ scan' = [scan EXCEPT !.fresh = FALSE]
    /\ conn' = NoTask
    /\ delivered' = [s \in Sockets |-> {}]
    /\ lock' = NoTask
    /\ pc' = [t \in Tasks |-> IF t \in Sockets THEN "off" ELSE "idle"]
    /\ todo' = [t \in Tasks |-> {}]
    /\ cur' = [t \in Tasks |-> NoRow]
    /\ job' = [t \in Tasks |-> 0]
    /\ arg' = [t \in Tasks |-> NoArg]
    /\ ended' = {} /\ stale' = {}
    /\ faults' = faults + 1
    /\ UNCHANGED tables

-----------------------------------------------------------------------------
Creation(t)  == Find(t) \/ Widen(t) \/ Add(t)
Finishing(t) == Match(t) \/ Settle(t)
RunDue(t)    == \/ Acquire(t) \/ List(t)
                \/ PickInstall(t) \/ PickScript(t) \/ PickReboot(t)
                \/ Ids(t) \/ Insert(t) \/ Send(t) \/ Mark(t) \/ Undo(t) \/ Close(t)
Agent(s)     == \/ Connect(s) \/ Disconnect(s) \/ Heartbeat(s) \/ PatchReport(s)
                \/ JobStarted(s) \/ JobResult(s)
Direct(t)    == DirectCheck(t) \/ DirectInsert(t) \/ DirectSend(t) \/ DirectUndo(t)
CleanupStep  == \/ Expire \/ Gather \/ NextEnded \/ SelectStale \/ Sweep
                \/ Creation(Cleanup) \/ Finishing(Cleanup)
Time         == \/ \E a \in ActionId : Lapse(a) \/ Ripen(a)
                \/ \E j \in JobId : Age(j)
                \/ ForgetScan
Fault        == \/ \E t \in Tasks : StatementFails(t)
                \/ TickFails
                \/ \E s \in Sockets : ReceiveFails(s)
                \/ Restart

Next ==
    \/ \E t \in Runners : RunDue(t) \/ Creation(t)
    \/ \E t \in Requests : QueueAction(t)
    \/ \E t \in Windows : WindowTick(t)
    \/ \E a \in ActionId : CancelAction(a)
    \/ \E s \in Sockets : Agent(s) \/ Finishing(s)
    \/ ScanRequest
    \/ \E t \in Installs : Direct(t)
    \/ CleanupStep
    \/ Time
    \/ Fault

Spec == Init /\ [][Next]_vars

\* The event loop runs every coroutine that can go on; asyncio.Lock wakes its
\* waiters in turn; the cleanup loop ticks; time passes.
Fairness ==
    /\ \A t \in Runners : WF_vars(RunDue(t)) /\ SF_vars(Acquire(t))
    /\ WF_vars(CleanupStep)
    /\ \A j \in JobId : WF_vars(Age(j))

FairSpec == Spec /\ Fairness

-----------------------------------------------------------------------------
\* Safety.

\* No action is sent twice: of two jobs sent for one action, a restart or an
\* error of the server lies between their creations.  The job is sent before
\* the row says so, and only the lock keeps the others out in between.
NoDoubleSend ==
    \A i, j \in JobId :
        /\ i # j /\ jobs[i].sent /\ jobs[j].sent
        /\ jobs[i].action = jobs[j].action /\ jobs[i].action # 0
        => jobs[i].epoch # jobs[j].epoch

\* run_due alone never lets two installs of the device run at once, although
\* it looks for a running one several awaits before it inserts its own.  With
\* the direct route, which looks without the lock, it is refuted.
OneInstall ==
    \A i, j \in JobId :
        /\ jobs[i].kind = "patch_install" /\ jobs[i].status \in ActiveJob
        /\ jobs[j].kind = "patch_install" /\ jobs[j].status \in ActiveJob
        => i = j

\* A restart is sent only while no install is queued or running.
RebootSent(j) == jobs[j].kind = "reboot" /\ ~jobs[j].sent /\ jobs'[j].sent
NoRebootDuringInstall == [][\A j \in JobId : RebootSent(j) => ~ActiveInstall]_vars

\* The agent has reported a good end, whatever the sweep has made of it.
EndedWell(j) == jobs[j].report = "done"

\* Nobody asks for a restart as such: one is queued only after an install that
\* the agent reported as done, of an action somebody wanted followed by a
\* restart.  The report is read from the message or, in housekeeping, from a
\* job row a sweep may be writing; the wish from a row others may be widening.
RebootEarned ==
    \A a \in ActionId :
        actions[a].kind = "reboot" /\ actions[a].state # "none" =>
            \E j \in JobId : /\ jobs[j].kind = "patch_install" /\ EndedWell(j)
                             /\ jobs[j].action # 0 /\ actions[jobs[j].action].asked

\* The two tables agree: an action that has a job has one that was sent to the
\* device for it, and is done only if the agent reported that job as done; a
\* job swept to timeout never makes its action a success.
TablesAgree ==
    \A a \in ActionId : actions[a].job # 0 =>
        LET j == actions[a].job IN
        /\ jobs[j].sent /\ jobs[j].action = a /\ jobs[j].kind = actions[a].kind
        /\ actions[a].state = "done" => EndedWell(j)

\* What each job goes through is what JobLife allows, but for one step: the
\* sweep, which names its rows by id, puts timeout over a job that has reported
\* since it was selected.  No other writer ever touches a job that has ended.
Life == INSTANCE JobLife WITH Job <- JobId, status <- [j \in JobId |-> jobs[j].status]

SweptLate(j) == /\ j \in stale /\ jobs[j].status \in TerminalJob
                /\ \A i \in JobId : jobs'[i].status =
                     IF i \in stale THEN "timeout" ELSE jobs[i].status

LifeButLateSweep ==
    /\ Life!Init
    /\ [][Life!Next \/ \E j \in JobId : SweptLate(j)]_[j \in JobId |-> jobs[j].status]

-----------------------------------------------------------------------------
\* Why: what holds between the awaits of run_due.

\* Only run_due holds the lock, in its critical section and nowhere else.
LockInv ==
    /\ lock \in Runners \cup {NoTask}
    /\ \A t \in Runners : pc[t] \in Critical <=> lock = t

\* Where run_due has taken a row from its list.
Holding == {"ids", "insert", "send", "mark", "undo", "close"}

\* The job a coroutine has inserted is in the table, for the row it works on;
\* one of the direct route belongs to no action.
JobInv ==
    /\ \A t \in Runners : pc[t] \in {"send", "mark", "undo"} =>
         /\ job[t] \in JobId
         /\ jobs[job[t]].status # "none" /\ jobs[job[t]].action = cur[t].id
    /\ \A t \in Installs : pc[t] \in {"send", "undo"} =>
         /\ job[t] \in JobId
         /\ jobs[job[t]].status # "none" /\ jobs[job[t]].action = 0
    /\ \A j \in stale \cup UNION {delivered[s] : s \in Sockets} : jobs[j].status # "none"

\* The rows of a list exist and are all different, and so is the current one.
RowInv ==
    /\ \A j \in JobId : jobs[j].action # 0 => actions[jobs[j].action].state # "none"
    /\ \A t \in Runners : pc[t] \in Holding \cup {"pick"} =>
         /\ \A r \in todo[t] : r.id \in ActionId /\ actions[r.id].state # "none"
         /\ \A q, r \in todo[t] : q.id = r.id => q = r
    /\ \A t \in Runners : pc[t] \in Holding =>
         /\ cur[t].id \in ActionId /\ actions[cur[t].id].state # "none"
         /\ \A r \in todo[t] : r.id # cur[t].id

\* Was the action sent since the last fault, or together with job i?
SentNow(a) == \E j \in JobId : /\ jobs[j].sent /\ jobs[j].action = a
                              /\ jobs[j].epoch = faults
SentWith(a, i) == \E j \in JobId : /\ j # i /\ jobs[j].sent /\ jobs[j].action = a
                                   /\ jobs[j].epoch = jobs[i].epoch

\* A row that was sent is no longer pending, but for the moment between the
\* send and mark_dispatched; what run_due still has to do has not been sent.
SentInv ==
    /\ \A j \in JobId : jobs[j].epoch <= faults
    /\ \A a \in ActionId : actions[a].state = "pending" /\ SentNow(a) =>
         \E t \in Runners : pc[t] = "mark" /\ cur[t].id = a
    /\ \A t \in Runners : pc[t] \in Holding \cup {"pick"} =>
         \A r \in todo[t] : ~SentNow(r.id)
    /\ \A t \in Runners : pc[t] \in Holding \ {"mark"} => ~SentNow(cur[t].id)
    /\ \A t \in Runners : pc[t] = "send" => ~SentWith(cur[t].id, job[t])

\* run_due is past its look for a running install, and there is none.
InstallInv ==
    \A t \in Runners :
        \/ pc[t] \in {"ids", "insert"} /\ cur[t].kind \in {"patch_install", "reboot"}
        \/ pc[t] = "send" /\ jobs[job[t]].kind = "reboot"
        => ~ActiveInstall

SendInv == LockInv /\ JobInv /\ RowInv /\ SentInv

-----------------------------------------------------------------------------
\* What the documentation says and the code does not keep, for that step.
\* jobs.py: "a swept timeout if a running job never reports back".
FollowsJobLife == Life!Spec

-----------------------------------------------------------------------------
\* Liveness.

\* A dispatched action is closed: by the report, or by housekeeping once the
\* sweep has given up on its job.
ActionCloses ==
    \A a \in ActionId : actions[a].state = "dispatched" ~> actions[a].state # "dispatched"

\* No job is shown as queued or running forever, whoever crashed.
JobEnds == \A j \in JobId : jobs[j].status \in ActiveJob ~> jobs[j].status \in TerminalJob

\* Whoever waits for the device's lock gets it or is gone.
LockTaken == \A t \in Runners : pc[t] = "wait" ~> pc[t] # "wait"
=============================================================================
