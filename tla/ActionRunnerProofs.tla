------------------------- MODULE ActionRunnerProofs -------------------------
(***************************************************************************)
(* Theorems about ActionRunner, for every number of sockets, requests,     *)
(* rows and faults.                                                        *)
(*                                                                         *)
(* Most steps are quiet for run_due: they touch neither the lock nor the   *)
(* coroutine that holds it, and send nothing.  One lemma says so for every *)
(* such action, one that quiet steps keep the invariant; what remains are  *)
(* the steps of run_due itself, the direct route and the faults.  The      *)
(* types come first, one lemma per group of actions.                       *)
(***************************************************************************)
EXTENDS ActionRunner, TLAPS

-----------------------------------------------------------------------------
\* Types.

\* The status functions stay within the column's values.
LEMMA StatusTypes ==
    ASSUME NEW s \in JobState
    PROVE  /\ AfterStarted(s) \in JobState
           /\ \A r : AfterResult(s, r) \in JobState
           /\ AfterUndispatched(s) \in JobState
           /\ AfterSweep(s) \in JobState
BY DEF JobState, ActiveJob, TerminalJob, AfterStarted, AfterResult,
       AfterUndispatched, AfterSweep

\* A row of pending_actions that changes its state is still a row.
LEMMA RowType ==
    ASSUME TypeOK, NEW a \in ActionId, NEW state \in ActionState
    PROVE  Row(a, state) \in ActionRow
<1>1. actions[a] \in ActionRow
  BY DEF TypeOK
<1> QED
  BY <1>1 DEF Row, ActionRow

\* And so is a job whose status changes.
LEMMA JobRowType ==
    ASSUME TypeOK, NEW j \in JobId, NEW status \in JobState
    PROVE  JobRowAs(j, status) \in JobRow
<1>1. jobs[j] \in JobRow
  BY DEF TypeOK
<1> QED
  BY <1>1 DEF JobRowAs, JobRow

\* What a report makes of a job.
LEMMA ReportedRow ==
    ASSUME TypeOK, NEW j \in JobId, NEW r
    PROVE  /\ Reported(j, r) \in JobRow
           /\ Reported(j, r).status = AfterResult(jobs[j].status, r)
           /\ Reported(j, r).report = ActionEnd(r)
           /\ Reported(j, r).action = jobs[j].action
           /\ Reported(j, r).epoch = jobs[j].epoch
           /\ Reported(j, r).sent = jobs[j].sent
           /\ Reported(j, r).kind = jobs[j].kind
<1> DEFINE status == AfterResult(jobs[j].status, r)
           row == JobRowAs(j, status)
<1>1. jobs[j] \in JobRow
  BY DEF TypeOK
<1>2. status \in JobState
  BY <1>1, StatusTypes DEF JobRow
<1>3. row \in JobRow
  BY <1>2, JobRowType
<1>4. /\ row.status = status /\ row.action = jobs[j].action /\ row.epoch = jobs[j].epoch
      /\ row.sent = jobs[j].sent /\ row.kind = jobs[j].kind
  BY <1>1 DEF JobRowAs, JobRow
<1>5. ActionEnd(r) \in {"none", "done", "failed"}
  BY DEF ActionEnd
<1>6. Reported(j, r) = [row EXCEPT !.report = ActionEnd(r)]
  BY DEF Reported
<1> HIDE DEF row
<1> QED
  BY <1>3, <1>4, <1>5, <1>6 DEF JobRow

LEMMA NewJobRowType ==
    ASSUME TypeOK, NEW kind \in Kind, NEW scope \in Scope, NEW a \in 0 .. MaxActions
    PROVE  NewJobRow(kind, scope, a) \in JobRow
BY DEF TypeOK, NewJobRow, JobRow, JobState, ActiveJob

LEMMA SnapshotType ==
    ASSUME TypeOK, NEW a \in ActionId
    PROVE  SnapshotOf(a) \in Snapshot
BY BoundsAssumption DEF TypeOK, SnapshotOf, Snapshot, ActionRow, ActionId

LEMMA WantType ==
    ASSUME NEW kind \in Kind, NEW scope \in Scope, NEW reboot \in BOOLEAN
    PROVE  Want(kind, scope, reboot) \in Snapshot
BY BoundsAssumption DEF Want, Snapshot

LEMMA NoRowType == NoRow \in Snapshot /\ NoArg \in Arg
BY BoundsAssumption DEF NoRow, NoArg, Arg, Want, Snapshot, Kind, Scope, Reboot

\* The local variables of the coroutines.
LocalsType ==
    /\ pc \in [Tasks -> PC]
    /\ todo \in [Tasks -> SUBSET Snapshot]
    /\ cur \in [Tasks -> Snapshot]
    /\ job \in [Tasks -> 0 .. MaxJobs]
    /\ arg \in [Tasks -> Arg]

\* A coroutine that returns leaves well-typed locals.
LEMMA ReturnType ==
    ASSUME TypeOK, NEW t \in Tasks, Return(t)
    PROVE  LocalsType'
BY NoRowType, BoundsAssumption DEF TypeOK, LocalsType, Return, Goto, PC

LEMMA NextRowType ==
    ASSUME TypeOK, NEW t \in Tasks, NextRow(t)
    PROVE  LocalsType' /\ lock' \in Tasks \cup {NoTask}
<1>1. CASE todo[t] = {}
  BY <1>1, ReturnType DEF NextRow, TypeOK
<1>2. CASE todo[t] # {}
  BY <1>2, NoRowType, BoundsAssumption
  DEF NextRow, Goto, TypeOK, LocalsType, PC, Critical
<1> QED
  BY <1>1, <1>2

LEMMA AfterWriteType ==
    ASSUME TypeOK, NEW t \in Tasks, AfterWrite(t)
    PROVE  LocalsType'
<1>1. CASE conn # NoTask /\ (t \in Requests \/ (t \in Windows /\ arg[t].online))
  BY <1>1, NoRowType DEF AfterWrite, Goto, TypeOK, LocalsType, PC
<1>2. CASE ~(conn # NoTask /\ (t \in Requests \/ (t \in Windows /\ arg[t].online)))
  BY <1>2, ReturnType DEF AfterWrite
<1> QED
  BY <1>1, <1>2

LEMMA SkipType ==
    ASSUME TypeOK, NEW t \in Tasks, NEW r, Skip(t, r)
    PROVE  LocalsType' /\ lock' \in Tasks \cup {NoTask}
<1>1. CASE todo[t] = {r}
  BY <1>1, ReturnType DEF Skip, TypeOK
<1>2. CASE todo[t] # {r}
  BY <1>2 DEF Skip, TypeOK, LocalsType
<1> QED
  BY <1>1, <1>2

\* arg is what the caller of Take makes of it.
LEMMA TakeType ==
    ASSUME TypeOK, NEW t \in Tasks, NEW r \in todo[t], NEW label \in PC,
           Take(t, r, label), arg' \in [Tasks -> Arg]
    PROVE  LocalsType' /\ lock' \in Tasks \cup {NoTask}
BY DEF Take, Goto, TypeOK, LocalsType

\* Setting one field of a coroutine's arg.
LEMMA ArgType ==
    ASSUME TypeOK, NEW t \in Tasks
    PROVE  /\ \A end \in {"done", "failed"} :
                 [arg EXCEPT ![t].outcome = end] \in [Tasks -> Arg]
           /\ \A hb \in Reboot : [arg EXCEPT ![t].hb = hb] \in [Tasks -> Arg]
           /\ \A seen \in Nat : [arg EXCEPT ![t].seen = seen] \in [Tasks -> Arg]
           /\ \A online \in BOOLEAN : [arg EXCEPT ![t].online = online] \in [Tasks -> Arg]
           /\ \A row \in Snapshot : [arg EXCEPT ![t].found = row] \in [Tasks -> Arg]
<1>1. arg \in [Tasks -> Arg]
  BY DEF TypeOK
<1> QED
  BY <1>1 DEF Arg

\* pending_actions.create keeps the types.
LEMMA CreationType ==
    ASSUME TypeOK, NEW t \in Tasks, Creation(t)
    PROVE  TypeOK'
<1>1. CASE Find(t)
  <2>1. /\ NoRow \in Snapshot
        /\ \A a \in PendingRows(cur[t].kind) : SnapshotOf(a) \in Snapshot
    BY NoRowType, SnapshotType DEF PendingRows
  <2>2. PICK row \in Snapshot : arg' = [arg EXCEPT ![t].found = row]
    BY <1>1, <2>1 DEF Find
  <2>3. arg' \in [Tasks -> Arg]
    BY <2>2, ArgType
  <2> QED
    BY <1>1, <2>3 DEF Find, Goto, TypeOK, PC, tables, world, loop
<1>2. CASE Widen(t)
  <2> DEFINE id == arg[t].found.id
             scope == IF arg[t].found.scope = "security" THEN cur[t].scope ELSE "all"
             reboot == arg[t].found.reboot \/ cur[t].reboot
             asked == actions[id].asked \/ cur[t].reboot
             row == [actions[id] EXCEPT !.scope = scope, !.reboot = reboot, !.lapsed = FALSE,
                                        !.asked = asked]
  <2>1. /\ id \in ActionId /\ scope \in Scope /\ reboot \in BOOLEAN
        /\ actions' = [actions EXCEPT ![id] = row]
    <3>1. cur[t] \in Snapshot /\ arg[t].found \in Snapshot
      BY DEF TypeOK, Arg
    <3>2. id \in ActionId /\ scope \in Scope /\ reboot \in BOOLEAN
      BY <1>2, <3>1, BoundsAssumption DEF Widen, Snapshot, Scope, ActionId
    <3>4. actions' = [actions EXCEPT ![id] = row]
      BY <1>2 DEF Widen
    <3> QED
      BY <3>2, <3>4
  <2>2. row \in ActionRow
    <3>1. actions[id] \in ActionRow
      BY <2>1 DEF TypeOK
    <3>2. asked \in BOOLEAN
      OBVIOUS
    <3> HIDE DEF asked, scope, reboot, id
    <3> QED
      BY <2>1, <3>1, <3>2 DEF ActionRow
  <2>3. actions' \in [ActionId -> ActionRow]
    BY <2>1, <2>2 DEF TypeOK
  <2> QED
    BY <1>2, <2>3, AfterWriteType DEF Widen, TypeOK, LocalsType, world, loop
<1>3. CASE Add(t)
  <2>1. actions' \in [ActionId -> ActionRow]
    <3> DEFINE row == [state |-> "pending", kind |-> cur[t].kind, scope |-> cur[t].scope,
                       reboot |-> cur[t].reboot, job |-> 0, lapsed |-> FALSE, aged |-> FALSE,
                       asked |-> cur[t].reboot]
    <3>1. row \in ActionRow
      <4>1. cur[t] \in Snapshot
        BY DEF TypeOK
      <4> QED
        BY <4>1, BoundsAssumption DEF Snapshot, ActionRow, ActionState
    <3>2. actions' = actions \/ \E a \in ActionId : actions' = [actions EXCEPT ![a] = row]
      BY <1>3 DEF Add, NewQueued, NewAction
    <3> HIDE DEF row
    <3> QED
      BY <3>1, <3>2 DEF TypeOK
  <2>2. LocalsType'
    BY <1>3, AfterWriteType, ReturnType DEF Add
  <2> QED
    BY <1>3, <2>1, <2>2 DEF Add, TypeOK, LocalsType, world, loop
<1> QED
  BY <1>1, <1>2, <1>3 DEF Creation

\* What outsiders do keeps the types: operators, the patch window, time.
LEMMA OutsideType ==
    ASSUME TypeOK,
           \/ \E t \in Requests : QueueAction(t)
           \/ \E t \in Windows : WindowTick(t)
           \/ \E a \in ActionId : CancelAction(a)
           \/ ScanRequest \/ Time
    PROVE  TypeOK'
<1>1. \A w \in Wishes : w \in Snapshot
  BY WishesAssumption, BoundsAssumption DEF Snapshot, Kind
<1>2. CASE \E t \in Requests : QueueAction(t)
  BY <1>1, <1>2 DEF QueueAction, Goto, TypeOK, PC, Tasks, Runners, tables, world, loop
<1>3. CASE \E t \in Windows : WindowTick(t)
  <2>1. PICK t \in Windows : WindowTick(t)
    BY <1>3
  <2>2. arg' \in [Tasks -> Arg]
    BY <2>1, ArgType DEF WindowTick, Tasks, Runners
  <2> QED
    BY <1>1, <2>1, <2>2
    DEF WindowTick, Goto, TypeOK, PC, Tasks, Runners, tables, world, loop
<1>4. CASE \E a \in ActionId : CancelAction(a)
  <2>1. PICK a \in ActionId : CancelAction(a)
    BY <1>4
  <2>2. Row(a, "cancelled") \in ActionRow
    BY RowType DEF ActionState, ClosedAction
  <2> QED
    BY <2>1, <2>2 DEF CancelAction, TypeOK, world, locals, loop
<1>5. CASE ScanRequest
  BY <1>5 DEF ScanRequest, TypeOK, tables, locals, loop
<1>6. CASE Time
  <2>1. ASSUME NEW a \in ActionId, Lapse(a) \/ Ripen(a)
        PROVE  TypeOK'
    <3>1. actions[a] \in ActionRow
      BY DEF TypeOK
    <3>2. /\ [actions[a] EXCEPT !.lapsed = TRUE] \in ActionRow
          /\ [actions[a] EXCEPT !.aged = TRUE] \in ActionRow
      BY <3>1 DEF ActionRow
    <3>3. \/ actions' = [actions EXCEPT ![a] = [actions[a] EXCEPT !.lapsed = TRUE]]
          \/ actions' = [actions EXCEPT ![a] = [actions[a] EXCEPT !.aged = TRUE]]
      BY <2>1 DEF Lapse, Ripen, TypeOK
    <3>4. actions' \in [ActionId -> ActionRow]
      BY <3>2, <3>3 DEF TypeOK
    <3> QED
      BY <2>1, <3>4 DEF Lapse, Ripen, TypeOK, world, locals, loop
  <2>2. ASSUME NEW j \in JobId, Age(j)
        PROVE  TypeOK'
    <3> DEFINE row == [jobs[j] EXCEPT !.old = TRUE]
    <3>0. row \in JobRow /\ jobs' = [jobs EXCEPT ![j] = row]
      <4>1. jobs[j] \in JobRow
        BY DEF TypeOK
      <4> QED
        BY <2>2, <4>1 DEF Age, JobRow
    <3> HIDE DEF row
    <3>1. jobs' \in [JobId -> JobRow]
      BY <3>0 DEF TypeOK
    <3> QED
      BY <2>2, <3>1 DEF Age, TypeOK, world, locals, loop
  <2>3. CASE ForgetScan
    BY <2>3 DEF ForgetScan, TypeOK, tables, locals, loop
  <2> QED
    BY <1>6, <2>1, <2>2, <2>3 DEF Time
<1> QED
  BY <1>2, <1>3, <1>4, <1>5, <1>6

\* The messages of the agent keep the types.
LEMMA AgentType ==
    ASSUME TypeOK, NEW s \in Sockets, Agent(s)
    PROVE  TypeOK'
<1> s \in Tasks
  BY DEF Tasks, Runners
<1>1. CASE Connect(s)
  BY <1>1 DEF Connect, Goto, TypeOK, PC, tables, loop
<1>2. CASE Disconnect(s)
  BY <1>2, NoRowType, BoundsAssumption
  DEF Disconnect, CloseSocket, Goto, TypeOK, PC, tables, loop
<1>3. CASE Heartbeat(s)
  <2>1. arg' = arg \/ \E r \in Reboot : arg' = [arg EXCEPT ![s].hb = r]
    BY <1>3 DEF Heartbeat
  <2>2. arg' \in [Tasks -> Arg]
    <3>1. CASE arg' = arg
      BY <3>1 DEF TypeOK
    <3>2. ASSUME NEW r \in Reboot, arg' = [arg EXCEPT ![s].hb = r]
          PROVE  arg' \in [Tasks -> Arg]
      BY <3>2, ArgType
    <3> QED
      BY <2>1, <3>1, <3>2
  <2>3. scan' \in [asked: Nat, fresh: BOOLEAN]
    <3>1. scan \in [asked: Nat, fresh: BOOLEAN]
      BY DEF TypeOK
    <3>2. scan' = scan \/ scan' = [asked |-> scan.asked + 1, fresh |-> TRUE]
      BY <1>3 DEF Heartbeat
    <3>3. CASE scan' = scan
      BY <3>1, <3>3
    <3>4. CASE scan' = [asked |-> scan.asked + 1, fresh |-> TRUE]
      <4>1. scan.asked + 1 \in Nat
        BY <3>1
      <4> QED
        BY <3>4, <4>1
    <3> QED
      BY <3>2, <3>3, <3>4
  <2>4. pc' \in [Tasks -> PC]
    BY <1>3 DEF Heartbeat, Goto, TypeOK, PC
  <2> QED
    BY <1>3, <2>2, <2>3, <2>4 DEF Heartbeat, TypeOK, tables, loop
<1>4. CASE PatchReport(s)
  BY <1>4 DEF PatchReport, Goto, TypeOK, PC, world, loop
<1>5. CASE JobStarted(s)
  <2>1. PICK j \in delivered[s] :
           jobs' = [jobs EXCEPT ![j] = JobRowAs(j, AfterStarted(jobs[j].status))]
    BY <1>5 DEF JobStarted
  <2>2. j \in JobId /\ jobs[j].status \in JobState
    BY DEF TypeOK, JobRow
  <2>3. jobs' \in [JobId -> JobRow]
    BY <2>1, <2>2, StatusTypes, JobRowType DEF TypeOK
  <2> QED
    BY <1>5, <2>3 DEF JobStarted, TypeOK, world, locals, loop
<1>6. CASE JobResult(s)
  <2>1. PICK j \in delivered[s], r \in AgentResult :
           /\ jobs' = [jobs EXCEPT ![j] = Reported(j, r)]
           /\ job' = [job EXCEPT ![s] = j]
           /\ arg' = [arg EXCEPT ![s].outcome = ActionEnd(r)]
           /\ delivered' = [delivered EXCEPT ![s] = @ \ {j}]
    BY <1>6 DEF JobResult
  <2>2. j \in JobId /\ jobs[j].status \in JobState
    BY DEF TypeOK, JobRow
  <2>3. jobs' \in [JobId -> JobRow]
    BY <2>1, <2>2, ReportedRow DEF TypeOK
  <2>4. arg' \in [Tasks -> Arg]
    <3>1. ActionEnd(r) \in {"done", "failed"}
      BY DEF ActionEnd
    <3> QED
      BY <2>1, <3>1, ArgType
  <2>5. job' \in [Tasks -> 0 .. MaxJobs] /\ delivered' \in [Sockets -> SUBSET JobId]
    BY <2>1, <2>2, BoundsAssumption DEF TypeOK, JobId
  <2> QED
    BY <1>6, <2>3, <2>4, <2>5 DEF JobResult, Goto, TypeOK, PC, loop
<1> QED
  BY <1>1, <1>2, <1>3, <1>4, <1>5, <1>6 DEF Agent

\* A job that is inserted is well-typed, and so is the id the coroutine keeps.
LEMMA InsertType ==
    ASSUME TypeOK, NEW t \in Tasks, NEW j \in NewJob, NEW row \in JobRow,
           jobs' = [jobs EXCEPT ![j] = row], job' = [job EXCEPT ![t] = j]
    PROVE  jobs' \in [JobId -> JobRow] /\ job' \in [Tasks -> 0 .. MaxJobs]
BY BoundsAssumption DEF NewJob, JobId, TypeOK

\* Sending and failing a job keep the tables' types.
LEMMA SentType ==
    ASSUME TypeOK, NEW t \in Tasks, Sent(t)
    PROVE  /\ jobs' \in [JobId -> JobRow]
           /\ job[t] \in JobId => delivered' \in [Sockets -> SUBSET JobId]
<1>1. jobs' \in [JobId -> JobRow]
  <2> DEFINE row == [jobs[job[t]] EXCEPT !.sent = TRUE]
  <2>1. jobs' = [jobs EXCEPT ![job[t]] = row]
    BY DEF Sent
  <2>2. CASE job[t] \in JobId
    <3>1. row \in JobRow
      <4>1. jobs[job[t]] \in JobRow
        BY <2>2 DEF TypeOK
      <4> QED
        BY <4>1 DEF JobRow
    <3> HIDE DEF row
    <3> QED
      BY <2>1, <2>2, <3>1 DEF TypeOK
  <2>3. CASE job[t] \notin JobId
    BY <2>1, <2>3 DEF TypeOK
  <2> QED
    BY <2>2, <2>3
<1>2. ASSUME job[t] \in JobId
      PROVE  delivered' \in [Sockets -> SUBSET JobId]
  BY <1>2 DEF Sent, TypeOK
<1> QED
  BY <1>1, <1>2

LEMMA UndoneType ==
    ASSUME TypeOK, NEW j \in 0 .. MaxJobs,
           jobs' = [jobs EXCEPT ![j] = JobRowAs(j, AfterUndispatched(jobs[j].status))]
    PROVE  jobs' \in [JobId -> JobRow]
<1>1. CASE j \in JobId
  <2>1. jobs[j].status \in JobState
    BY <1>1 DEF TypeOK, JobRow
  <2> QED
    BY <1>1, <2>1, StatusTypes, JobRowType DEF TypeOK
<1>2. CASE j \notin JobId
  BY <1>2 DEF TypeOK
<1> QED
  BY <1>1, <1>2

\* A coroutine about to send has a job to send.
SendHasJob == \A t \in Runners \cup Installs : pc[t] = "send" => job[t] \in JobId

\* run_due keeps the types.
LEMMA RunDueType ==
    ASSUME TypeOK, SendHasJob, NEW t \in Runners, RunDue(t)
    PROVE  TypeOK'
<1> t \in Tasks
  BY DEF Tasks
<1>1. CASE Acquire(t)
  <2>1. lastScan \in Nat
    BY DEF TypeOK
  <2>2. arg' \in [Tasks -> Arg]
    BY <1>1, <2>1, ArgType DEF Acquire
  <2> QED
    BY <1>1, <2>2 DEF Acquire, Goto, TypeOK, PC, Critical, tables, world, loop
<1>2. CASE List(t)
  <2>1. DueRows \in SUBSET Snapshot
    BY SnapshotType DEF DueRows
  <2>2. LocalsType' /\ lock' \in Tasks \cup {NoTask}
    <3>1. CASE DueRows = {}
      BY <1>2, <3>1, ReturnType DEF List
    <3>2. CASE DueRows # {}
      BY <1>2, <2>1, <3>2 DEF List, Goto, TypeOK, LocalsType, PC, Critical
    <3> QED
      BY <3>1, <3>2
  <2> QED
    BY <1>2, <2>2 DEF List, TypeOK, LocalsType, tables, world, loop
<1> USE DEF First
<1>3. ASSUME NEW r \in First(t), NEW label \in PC, Take(t, r, label),
             arg' = arg \/ \E end \in {"done", "failed"} :
                                arg' = [arg EXCEPT ![t].outcome = end]
      PROVE  LocalsType' /\ lock' \in Tasks \cup {NoTask}
  <2>1. CASE arg' = arg
    <3>1. arg' \in [Tasks -> Arg]
      BY <2>1 DEF TypeOK
    <3> QED
      BY <1>3, <3>1, TakeType
  <2>2. CASE \E end \in {"done", "failed"} : arg' = [arg EXCEPT ![t].outcome = end]
    <3>1. PICK end \in {"done", "failed"} : arg' = [arg EXCEPT ![t].outcome = end]
      BY <2>2
    <3>2. arg' \in [Tasks -> Arg]
      BY <3>1, ArgType
    <3> QED
      BY <1>3, <3>2, TakeType
  <2> QED
    BY <1>3, <2>1, <2>2
<1>4. {"ids", "insert", "close"} \subseteq PC
  BY DEF PC, Critical
<1>5. CASE PickInstall(t)
  <2>1. LocalsType' /\ lock' \in Tasks \cup {NoTask}
    BY <1>3, <1>4, <1>5, SkipType DEF PickInstall
  <2> QED
    BY <1>5, <2>1 DEF PickInstall, TypeOK, LocalsType, tables, world, loop
<1>6. CASE PickScript(t)
  <2>1. LocalsType' /\ lock' \in Tasks \cup {NoTask}
    BY <1>3, <1>4, <1>6 DEF PickScript
  <2> QED
    BY <1>6, <2>1 DEF PickScript, TypeOK, LocalsType, tables, world, loop
<1>7. CASE PickReboot(t)
  <2>1. LocalsType' /\ lock' \in Tasks \cup {NoTask}
    BY <1>3, <1>4, <1>7, SkipType DEF PickReboot
  <2> QED
    BY <1>7, <2>1 DEF PickReboot, TypeOK, LocalsType, tables, world, loop
<1>8. CASE Ids(t)
  <2>1. arg' \in [Tasks -> Arg]
    <3>1. CASE PendingIds(cur[t].scope) = {}
      <4>1. arg' = [arg EXCEPT ![t].outcome = "done"]
        BY <1>8, <3>1 DEF Ids
      <4>2. "done" \in {"done", "failed"}
        OBVIOUS
      <4> QED
        BY <4>1, <4>2, ArgType
    <3>2. CASE PendingIds(cur[t].scope) # {}
      BY <1>8, <3>2 DEF Ids, TypeOK
    <3> QED
      BY <3>1, <3>2
  <2> QED
    BY <1>8, <2>1 DEF Ids, Goto, TypeOK, PC, Critical, tables, world, loop
<1>9. CASE Insert(t)
  <2>1. cur[t].kind \in Kind /\ cur[t].scope \in Scope /\ cur[t].id \in 0 .. MaxActions
    BY DEF TypeOK, Snapshot
  <2>2. jobs' \in [JobId -> JobRow] /\ LocalsType' /\ lock' \in Tasks \cup {NoTask}
    <3>1. ASSUME NEW j \in NewJob,
                 jobs' = [jobs EXCEPT ![j] =
                            NewJobRow(cur[t].kind, cur[t].scope, cur[t].id)],
                 job' = [job EXCEPT ![t] = j], Goto(t, "send"),
                 UNCHANGED <<lock, todo, cur, arg>>
          PROVE  jobs' \in [JobId -> JobRow] /\ LocalsType' /\ lock' \in Tasks \cup {NoTask}
      <4>1. jobs' \in [JobId -> JobRow] /\ job' \in [Tasks -> 0 .. MaxJobs]
        BY <2>1, <3>1, NewJobRowType, InsertType
      <4> QED
        BY <3>1, <4>1 DEF Goto, TypeOK, LocalsType, PC, Critical
    <3>2. CASE lock' = NoTask /\ Return(t) /\ UNCHANGED jobs
      BY <3>2, ReturnType DEF TypeOK
    <3> QED
      BY <1>9, <3>1, <3>2 DEF Insert
  <2> QED
    BY <1>9, <2>2 DEF Insert, TypeOK, LocalsType, world, loop
<1>10. CASE Send(t)
  <2>1. /\ jobs' \in [JobId -> JobRow] /\ delivered' \in [Sockets -> SUBSET JobId]
        /\ pc' \in [Tasks -> PC]
    <3>1. CASE Sent(t) /\ Goto(t, "mark")
      <4>1. job[t] \in JobId
        BY <1>10 DEF Send, SendHasJob
      <4> QED
        BY <3>1, <4>1, SentType DEF Goto, TypeOK, PC, Critical
    <3>2. CASE Goto(t, "undo") /\ UNCHANGED <<delivered, jobs>>
      BY <3>2 DEF Goto, TypeOK, PC, Critical
    <3> QED
      BY <1>10, <3>1, <3>2 DEF Send
  <2> QED
    BY <1>10, <2>1 DEF Send, TypeOK, loop
<1>11. CASE Mark(t)
  <2>1. actions' \in [ActionId -> ActionRow]
    <3>1. CASE cur[t].id \in ActionId
      <4> DEFINE row == [Row(cur[t].id, "dispatched") EXCEPT !.job = job[t]]
      <4>1. Row(cur[t].id, "dispatched") \in ActionRow
        BY <3>1, RowType DEF ActionState
      <4>2. row \in ActionRow
        BY <4>1 DEF ActionRow, TypeOK
      <4> QED
        BY <1>11, <4>2 DEF Mark, TypeOK
    <3>2. CASE cur[t].id \notin ActionId
      BY <1>11, <3>2 DEF Mark, TypeOK
    <3> QED
      BY <3>1, <3>2
  <2> QED
    BY <1>11, <2>1, NextRowType DEF Mark, TypeOK, LocalsType, world, loop
<1>12. CASE Undo(t)
  <2>1. jobs' \in [JobId -> JobRow]
    BY <1>12, UndoneType DEF Undo, TypeOK
  <2> QED
    BY <1>12, <2>1, NextRowType DEF Undo, TypeOK, LocalsType, world, loop
<1>13. CASE Close(t)
  <2>1. actions' \in [ActionId -> ActionRow]
    <3>1. CASE cur[t].id \in ActionId
      <4>1. Row(cur[t].id, arg[t].outcome) \in ActionRow
        BY <3>1, RowType DEF ActionState, ClosedAction, TypeOK, Arg
      <4> QED
        BY <1>13, <4>1 DEF Close, TypeOK
    <3>2. CASE cur[t].id \notin ActionId
      BY <1>13, <3>2 DEF Close, TypeOK
    <3> QED
      BY <3>1, <3>2
  <2> QED
    BY <1>13, <2>1, NextRowType DEF Close, TypeOK, LocalsType, world, loop
<1> QED
  BY <1>1, <1>2, <1>5, <1>6, <1>7, <1>8, <1>9, <1>10, <1>11, <1>12, <1>13 DEF RunDue

\* The direct route keeps the types.
LEMMA DirectType ==
    ASSUME TypeOK, SendHasJob, NEW t \in Installs, Direct(t)
    PROVE  TypeOK'
<1> t \in Tasks
  BY DEF Tasks
<1>1. CASE DirectCheck(t)
  <2>1. \A scope \in Scope : Want("patch_install", scope, FALSE) \in Snapshot
    BY WantType DEF Kind
  <2> QED
    BY <1>1, <2>1 DEF DirectCheck, Goto, TypeOK, PC, Critical, tables, world, loop
<1>2. CASE DirectInsert(t)
  <2>1. jobs' \in [JobId -> JobRow] /\ LocalsType'
    <3>1. ASSUME NEW j \in NewJob,
                 jobs' = [jobs EXCEPT ![j] = NewJobRow("patch_install", cur[t].scope, 0)],
                 job' = [job EXCEPT ![t] = j], Goto(t, "send"),
                 UNCHANGED <<todo, cur, arg>>
          PROVE  jobs' \in [JobId -> JobRow] /\ LocalsType'
      <4>1. cur[t].scope \in Scope /\ 0 \in 0 .. MaxActions /\ "patch_install" \in Kind
        BY BoundsAssumption DEF TypeOK, Snapshot, Kind
      <4>2. jobs' \in [JobId -> JobRow] /\ job' \in [Tasks -> 0 .. MaxJobs]
        BY <3>1, <4>1, NewJobRowType, InsertType
      <4> QED
        BY <3>1, <4>2 DEF Goto, TypeOK, LocalsType, PC, Critical
    <3>2. CASE Return(t) /\ UNCHANGED jobs
      BY <3>2, ReturnType DEF TypeOK
    <3> QED
      BY <1>2, <3>1, <3>2 DEF DirectInsert
  <2> QED
    BY <1>2, <2>1 DEF DirectInsert, TypeOK, LocalsType, world, loop
<1>3. CASE DirectSend(t)
  <2>1. /\ jobs' \in [JobId -> JobRow] /\ delivered' \in [Sockets -> SUBSET JobId]
        /\ LocalsType'
    <3>1. CASE Sent(t) /\ Return(t)
      <4>1. job[t] \in JobId
        BY <1>3 DEF DirectSend, SendHasJob
      <4> QED
        BY <3>1, <4>1, SentType, ReturnType
    <3>2. CASE Goto(t, "undo") /\ UNCHANGED <<delivered, jobs, todo, cur, job, arg>>
      BY <3>2 DEF Goto, TypeOK, LocalsType, PC, Critical
    <3> QED
      BY <1>3, <3>1, <3>2 DEF DirectSend
  <2> QED
    BY <1>3, <2>1 DEF DirectSend, TypeOK, LocalsType, loop
<1>4. CASE DirectUndo(t)
  <2>1. jobs' \in [JobId -> JobRow]
    BY <1>4, UndoneType DEF DirectUndo, TypeOK
  <2> QED
    BY <1>4, <2>1, ReturnType DEF DirectUndo, TypeOK, LocalsType, world, loop
<1> QED
  BY <1>1, <1>2, <1>3, <1>4 DEF Direct

\* on_job_finished keeps the types.
LEMMA FinishingType ==
    ASSUME TypeOK, NEW t \in Tasks, Finishing(t)
    PROVE  TypeOK'
<1>1. CASE Match(t)
  <2>1. LocalsType'
    <3>1. CASE Return(t)
      BY <3>1, ReturnType
    <3>2. ASSUME NEW a \in ActionId, cur' = [cur EXCEPT ![t] = SnapshotOf(a)],
                 Goto(t, "settle"), UNCHANGED <<todo, job, arg>>
          PROVE  LocalsType'
      BY <3>2, SnapshotType DEF Goto, TypeOK, LocalsType, PC
    <3> QED
      BY <1>1, <3>1, <3>2 DEF Match
  <2> QED
    BY <1>1, <2>1 DEF Match, TypeOK, LocalsType, tables, world, loop
<1>2. CASE Settle(t)
  <2>1. actions' \in [ActionId -> ActionRow]
    <3>1. CASE cur[t].id \in ActionId
      <4>1. Row(cur[t].id, arg[t].outcome) \in ActionRow
        BY <3>1, RowType DEF ActionState, ClosedAction, TypeOK, Arg
      <4> QED
        BY <1>2, <4>1 DEF Settle, TypeOK
    <3>2. CASE cur[t].id \notin ActionId
      BY <1>2, <3>2 DEF Settle, TypeOK
    <3> QED
      BY <3>1, <3>2
  <2>2. LocalsType'
    <3>1. CASE Return(t)
      BY <3>1, ReturnType
    <3>2. CASE /\ cur' = [cur EXCEPT ![t] = Want("reboot", "all", FALSE)]
               /\ Goto(t, "find") /\ UNCHANGED <<todo, job, arg>>
      BY <3>2, WantType DEF Goto, TypeOK, LocalsType, PC, Kind, Scope
    <3> QED
      BY <1>2, <3>1, <3>2 DEF Settle
  <2> QED
    BY <1>2, <2>1, <2>2 DEF Settle, TypeOK, LocalsType, world, loop
<1> QED
  BY <1>1, <1>2 DEF Finishing

\* The cleanup loop keeps the types.
LEMMA CleanupType ==
    ASSUME TypeOK, CleanupStep
    PROVE  TypeOK'
<1> Cleanup \in Tasks
  BY DEF Tasks
<1>1. CASE Expire
  <2>1. \A a \in ActionId : Row(a, "expired") \in ActionRow
    BY RowType DEF ActionState, ClosedAction
  <2>2. actions' \in [ActionId -> ActionRow]
    BY <1>1, <2>1 DEF Expire, TypeOK
  <2> QED
    BY <1>1, <2>2 DEF Expire, CleanupGoto, Goto, TypeOK, PC, world, loop
<1>2. CASE Gather
  <2>1. ended' \in SUBSET [job: JobId, outcome: {"done", "failed"}]
    BY <1>2 DEF Gather, ActionEnd
  <2> QED
    BY <1>2, <2>1 DEF Gather, CleanupGoto, Goto, TypeOK, PC, tables, world
<1>3. CASE NextEnded
  <2>1. CASE ended = {}
    BY <1>3, <2>1 DEF NextEnded, CleanupGoto, Goto, TypeOK, PC, tables, world
  <2>2. CASE ended # {}
    <3>1. PICK e \in ended : /\ ended' = ended \ {e}
                             /\ job' = [job EXCEPT ![Cleanup] = e.job]
                             /\ arg' = [arg EXCEPT ![Cleanup].outcome = e.outcome]
                             /\ Goto(Cleanup, "match")
                             /\ UNCHANGED <<todo, cur>>
      BY <1>3, <2>2 DEF NextEnded
    <3>2. e.job \in 0 .. MaxJobs /\ e.outcome \in {"done", "failed"}
      BY BoundsAssumption DEF TypeOK, JobId
    <3>3. arg' \in [Tasks -> Arg]
      BY <3>1, <3>2, ArgType
    <3> QED
      BY <1>3, <3>1, <3>2, <3>3 DEF NextEnded, Goto, TypeOK, PC, tables, world
  <2> QED
    BY <2>1, <2>2
<1>4. CASE SelectStale
  BY <1>4 DEF SelectStale, CleanupGoto, Goto, TypeOK, PC, tables, world
<1>5. CASE Sweep
  <2>1. \A j \in JobId : JobRowAs(j, AfterSweep(jobs[j].status)) \in JobRow
    BY StatusTypes, JobRowType DEF TypeOK, JobRow
  <2>2. jobs' \in [JobId -> JobRow]
    BY <1>5, <2>1 DEF Sweep, TypeOK
  <2> QED
    BY <1>5, <2>2 DEF Sweep, CleanupGoto, Goto, TypeOK, PC, world
<1> QED
  BY <1>1, <1>2, <1>3, <1>4, <1>5, CreationType, FinishingType DEF CleanupStep

\* Faults keep the types.
LEMMA FaultType ==
    ASSUME TypeOK, Fault
    PROVE  TypeOK'
<1>0. faults + 1 \in Nat
  BY DEF TypeOK
<1>1. CASE \E t \in Tasks : StatementFails(t)
  <2>1. PICK t \in Tasks : StatementFails(t)
    BY <1>1
  <2>2. LocalsType'
    BY <2>1, ReturnType DEF StatementFails
  <2>3. lock' \in Tasks \cup {NoTask}
    BY <2>1 DEF StatementFails, TypeOK
  <2> QED
    BY <1>0, <2>1, <2>2, <2>3 DEF StatementFails, TypeOK, LocalsType, tables, world, loop
<1>2. CASE TickFails
  <2>1. LocalsType'
    <3>1. pc' \in [Tasks -> PC] /\ todo' \in [Tasks -> SUBSET Snapshot]
      BY <1>2 DEF TickFails, Goto, TypeOK, PC
    <3>2. cur' \in [Tasks -> Snapshot] /\ arg' \in [Tasks -> Arg]
      BY <1>2, NoRowType DEF TickFails, TypeOK
    <3>3. job' \in [Tasks -> 0 .. MaxJobs]
      <4>1. 0 \in 0 .. MaxJobs
        BY BoundsAssumption
      <4> QED
        BY <1>2, <4>1 DEF TickFails, TypeOK
    <3> QED
      BY <3>1, <3>2, <3>3 DEF LocalsType
  <2> QED
    BY <1>0, <1>2, <2>1 DEF TickFails, TypeOK, LocalsType, tables, world
<1>3. CASE \E s \in Sockets : ReceiveFails(s)
  <2>1. PICK s \in Sockets : ReceiveFails(s)
    BY <1>3
  <2>2. s \in Tasks
    BY DEF Tasks, Runners
  <2> QED
    BY <1>0, <2>1, <2>2, NoRowType, BoundsAssumption
    DEF ReceiveFails, CloseSocket, Goto, TypeOK, PC, tables, loop
<1>4. CASE Restart
  <2>1. LocalsType'
    BY <1>4, NoRowType, BoundsAssumption DEF Restart, LocalsType, PC
  <2>2. scan' \in [asked: Nat, fresh: BOOLEAN]
    BY <1>4 DEF Restart, TypeOK
  <2>3. delivered' \in [Sockets -> SUBSET JobId] /\ stale' \in SUBSET JobId
    BY <1>4 DEF Restart
  <2> QED
    BY <1>0, <1>4, <2>1, <2>2, <2>3 DEF Restart, TypeOK, LocalsType, tables
<1> QED
  BY <1>1, <1>2, <1>3, <1>4 DEF Fault

\* Every step keeps the types, as long as whoever is about to send has a job.
LEMMA TypeStep ==
    ASSUME TypeOK, SendHasJob, [Next]_vars
    PROVE  TypeOK'
<1>1. CASE \E t \in Runners : RunDue(t) \/ Creation(t)
  BY <1>1, RunDueType, CreationType DEF Tasks
<1>2. CASE \E s \in Sockets : Agent(s) \/ Finishing(s)
  BY <1>2, AgentType, FinishingType DEF Tasks, Runners
<1>3. CASE \E t \in Installs : Direct(t)
  BY <1>3, DirectType
<1>4. CASE CleanupStep
  BY <1>4, CleanupType
<1>5. CASE UNCHANGED vars
  BY <1>5 DEF vars, tables, world, locals, loop, TypeOK
<1> QED
  BY <1>1, <1>2, <1>3, <1>4, <1>5, OutsideType, FaultType DEF Next

-----------------------------------------------------------------------------
(* What run_due knows, and what it sends.                                 *)

\* The invariant: types, the lock, and what run_due knows under it.
Inv == TypeOK /\ SendInv

\* The fields of a job that only Insert and Send write.
SameJob(j) ==
    /\ jobs'[j].action = jobs[j].action /\ jobs'[j].epoch = jobs[j].epoch
    /\ jobs'[j].sent = jobs[j].sent /\ jobs'[j].kind = jobs[j].kind

\* A job's status moves on: it is not inserted and not revived.
MovesOn(j) ==
    /\ jobs'[j].status = "none" <=> jobs[j].status = "none"
    /\ jobs'[j].status \in ActiveJob => jobs[j].status \in ActiveJob

\* A row's state moves on: it does not vanish, and only a new row or a pending
\* one is pending.
RowMovesOn(a) ==
    /\ actions[a].state # "none" => actions'[a].state # "none"
    /\ actions'[a].state = "pending" => actions[a].state \in {"none", "pending"}

QuietTables ==
    /\ \A j \in JobId : SameJob(j) /\ MovesOn(j)
    /\ \A a \in ActionId : RowMovesOn(a)

\* Coroutine t is not in the critical section and does not enter it.
Outside(t) == pc[t] \notin Critical /\ pc'[t] \notin Critical

Untouched(t) == /\ pc'[t] = pc[t] /\ todo'[t] = todo[t]
                /\ cur'[t] = cur[t] /\ job'[t] = job[t]

QuietLocals ==
    /\ \A t \in Runners : Outside(t) \/ Untouched(t)
    /\ \A t \in Installs : pc'[t] \in {"send", "undo"} =>
          pc[t] \in {"send", "undo"} /\ job'[t] = job[t]

Quiet ==
    /\ QuietTables /\ QuietLocals
    /\ lock' = lock /\ faults' = faults
    /\ \A s \in Sockets : delivered'[s] \subseteq delivered[s]
    /\ \A j \in stale' : j \in stale \/ jobs[j].status # "none"

-----------------------------------------------------------------------------
\* What the status functions do to a row of jobs.
LEMMA StatusMovesOn ==
    ASSUME NEW s \in JobState, s # "none"
    PROVE  /\ AfterStarted(s) # "none" /\ AfterUndispatched(s) # "none"
           /\ \A r : AfterResult(s, r) # "none"
           /\ AfterSweep(s) # "none"
           /\ AfterStarted(s) \in ActiveJob => s \in ActiveJob
           /\ AfterUndispatched(s) \in ActiveJob => s \in ActiveJob
           /\ \A r : AfterResult(s, r) \notin ActiveJob
           /\ AfterSweep(s) \notin ActiveJob
BY DEF JobState, ActiveJob, TerminalJob, AfterStarted, AfterResult,
       AfterUndispatched, AfterSweep

\* A step that only gives job j another status is quiet for the tables.
LEMMA StatusStep ==
    ASSUME TypeOK, NEW j \in JobId, NEW status,
           jobs' = [jobs EXCEPT ![j] = JobRowAs(j, status)], UNCHANGED actions,
           jobs[j].status # "none", status # "none",
           status \in ActiveJob => jobs[j].status \in ActiveJob
    PROVE  QuietTables
<1>1. jobs[j] \in JobRow /\ jobs \in [JobId -> JobRow]
  BY DEF TypeOK
<1>2. /\ JobRowAs(j, status).status = status
      /\ JobRowAs(j, status).action = jobs[j].action
      /\ JobRowAs(j, status).epoch = jobs[j].epoch
      /\ JobRowAs(j, status).sent = jobs[j].sent
      /\ JobRowAs(j, status).kind = jobs[j].kind
  BY <1>1 DEF JobRowAs, JobRow
<1> QED
  BY <1>1, <1>2 DEF QuietTables, SameJob, MovesOn, RowMovesOn

\* So is the report of job j.
LEMMA ReportStep ==
    ASSUME TypeOK, NEW j \in JobId, NEW r, jobs[j].status # "none",
           jobs' = [jobs EXCEPT ![j] = Reported(j, r)], UNCHANGED actions
    PROVE  QuietTables
<1>1. jobs[j] \in JobRow /\ jobs \in [JobId -> JobRow]
  BY DEF TypeOK
<1>2. Reported(j, r).status # "none" /\ Reported(j, r).status \notin ActiveJob
  BY <1>1, ReportedRow, StatusMovesOn DEF JobRow
<1> QED
  BY <1>1, <1>2, ReportedRow DEF QuietTables, SameJob, MovesOn, RowMovesOn

\* A step that gives row a a state other than pending is quiet for the tables.
LEMMA RowStep ==
    ASSUME TypeOK, NEW a, NEW state, state # "none", state # "pending",
           actions' = [actions EXCEPT ![a] = Row(a, state)], UNCHANGED jobs
    PROVE  QuietTables
<1>1. CASE a \in ActionId
  <2>1. actions[a] \in ActionRow /\ actions \in [ActionId -> ActionRow]
    BY <1>1 DEF TypeOK
  <2>2. Row(a, state).state = state
    BY <2>1 DEF Row, ActionRow
  <2> QED
    BY <1>1, <2>1, <2>2 DEF QuietTables, SameJob, MovesOn, RowMovesOn
<1>2. CASE a \notin ActionId
  <2>1. actions \in [ActionId -> ActionRow]
    BY DEF TypeOK
  <2> QED
    BY <1>2, <2>1 DEF QuietTables, SameJob, MovesOn, RowMovesOn
<1> QED
  BY <1>1, <1>2

\* A step that leaves both tables alone is quiet for them.
LEMMA SameTables ==
    ASSUME UNCHANGED <<actions, jobs>>
    PROVE  QuietTables
BY DEF QuietTables, SameJob, MovesOn, RowMovesOn

\* A coroutine that is outside and returns or goes on outside is quiet.
LEMMA ReturnOutside ==
    ASSUME TypeOK, NEW t \in Tasks, t \notin Installs, pc[t] \notin Critical, Return(t)
    PROVE  QuietLocals
<1>1. pc'[t] \notin Critical
  BY DEF Return, Goto, TypeOK, Critical
<1> QED
  BY <1>1 DEF Return, Goto, TypeOK, QuietLocals, Outside, Untouched, Tasks

LEMMA GotoOutside ==
    ASSUME TypeOK, NEW t \in Tasks, t \notin Installs, NEW label,
           pc[t] \notin Critical, label \notin Critical, Goto(t, label),
           \A u \in Tasks : u # t =>
               todo'[u] = todo[u] /\ cur'[u] = cur[u] /\ job'[u] = job[u]
    PROVE  QuietLocals
BY DEF Goto, TypeOK, QuietLocals, Outside, Untouched, Tasks

\* pending_actions.create is quiet.
LEMMA CreationQuiet ==
    ASSUME TypeOK, NEW t \in Runners \cup {Cleanup}, Creation(t)
    PROVE  Quiet
<1>0. t \in Tasks /\ t \notin Installs
  BY TasksAssumption DEF Tasks, Runners
<1>1. /\ pc[t] \notin Critical
      /\ lock' = lock /\ faults' = faults /\ delivered' = delivered /\ jobs' = jobs
      /\ stale' = stale
  BY DEF Creation, Find, Widen, Add, Critical, world, tables, loop
<1>2. CASE Find(t)
  <2>1. QuietLocals
    BY <1>0, <1>1, <1>2, GotoOutside DEF Find, Critical
  <2> QED
    BY <1>1, <1>2, <2>1, SameTables DEF Find, Quiet, tables
<1>3. ASSUME AfterWrite(t)
      PROVE  QuietLocals
  <2>1. CASE Return(t)
    BY <1>0, <1>1, <2>1, ReturnOutside
  <2>2. CASE Goto(t, "wait") /\ cur' = [cur EXCEPT ![t] = NoRow] /\ UNCHANGED <<todo, job>>
    <3>1. \A u \in Tasks : u # t => cur'[u] = cur[u]
      BY <2>2 DEF TypeOK
    <3> QED
      BY <1>0, <1>1, <2>2, <3>1, GotoOutside DEF Critical
  <2> QED
    BY <1>3, <2>1, <2>2 DEF AfterWrite
<1>4. CASE Widen(t)
  <2>1. QuietLocals
    BY <1>3, <1>4 DEF Widen
  <2>2. \A a \in ActionId : actions'[a].state = actions[a].state
    <3> DEFINE id == arg[t].found.id
               row(scope, reboot, asked) == [actions[id] EXCEPT !.scope = scope,
                        !.reboot = reboot, !.lapsed = FALSE, !.asked = asked]
    <3>1. PICK scope, reboot, asked : actions' = [actions EXCEPT ![id] = row(scope, reboot, asked)]
      BY <1>4 DEF Widen
    <3>2. CASE id \in ActionId
      <4>1. actions[id] \in ActionRow /\ actions \in [ActionId -> ActionRow]
        BY <3>2 DEF TypeOK
      <4>2. row(scope, reboot, asked).state = actions[id].state
        BY <4>1 DEF ActionRow
      <4> HIDE DEF row, id
      <4> QED
        BY <3>1, <3>2, <4>1, <4>2
    <3>3. CASE id \notin ActionId
      BY <3>1, <3>3 DEF TypeOK
    <3> QED
      BY <3>2, <3>3
  <2> QED
    BY <1>1, <2>1, <2>2 DEF Quiet, QuietTables, RowMovesOn, SameJob, MovesOn
<1>5. CASE Add(t)
  <2>1. QuietLocals
    BY <1>0, <1>1, <1>3, <1>5, ReturnOutside DEF Add
  <2> DEFINE row == [state |-> "pending", kind |-> cur[t].kind, scope |-> cur[t].scope,
                     reboot |-> cur[t].reboot, job |-> 0, lapsed |-> FALSE, aged |-> FALSE,
                     asked |-> cur[t].reboot]
  <2>2. \/ actions' = actions
        \/ \E a \in NewAction : actions' = [actions EXCEPT ![a] = row]
    BY <1>5 DEF Add, NewQueued
  <2>3. \A a \in ActionId : RowMovesOn(a)
    <3>1. row.state = "pending"
      OBVIOUS
    <3> HIDE DEF row
    <3> QED
      BY <2>2, <3>1 DEF RowMovesOn, NewAction, TypeOK
  <2> QED
    BY <1>1, <2>1, <2>3 DEF Quiet, QuietTables, SameJob, MovesOn
<1> QED
  BY <1>2, <1>4, <1>5 DEF Creation

\* Operators, the patch window and time are quiet.
LEMMA OutsideQuiet ==
    ASSUME TypeOK, SendInv,
           \/ \E t \in Requests : QueueAction(t)
           \/ \E t \in Windows : WindowTick(t)
           \/ \E a \in ActionId : CancelAction(a)
           \/ ScanRequest \/ Time
    PROVE  Quiet
<1>1. ASSUME NEW t \in Requests \cup Windows, QueueAction(t) \/ WindowTick(t)
      PROVE  Quiet
  <2>1. t \in Tasks /\ t \notin Installs /\ pc[t] = "idle"
    BY <1>1, TasksAssumption DEF Tasks, Runners, QueueAction, WindowTick
  <2>2. /\ Goto(t, "find")
        /\ \A u \in Tasks : u # t => todo'[u] = todo[u] /\ cur'[u] = cur[u] /\ job'[u] = job[u]
    BY <1>1 DEF QueueAction, WindowTick, TypeOK
  <2>3. QuietLocals
    BY <2>1, <2>2, GotoOutside DEF Critical
  <2> QED
    BY <1>1, <2>3, SameTables DEF QueueAction, WindowTick, Quiet, tables, world, loop
<1>2. ASSUME UNCHANGED <<lock, pc, todo, cur, job, faults, delivered, stale>>
      PROVE  QuietTables => Quiet
  BY <1>2 DEF Quiet, QuietLocals, Untouched
<1>3. ASSUME NEW a \in ActionId, CancelAction(a)
      PROVE  Quiet
  <2>1. QuietTables
    BY <1>3, RowStep DEF CancelAction
  <2> QED
    BY <1>2, <1>3, <2>1 DEF CancelAction, world, locals, loop
<1>4. CASE ScanRequest \/ ForgetScan
  BY <1>2, <1>4, SameTables DEF ScanRequest, ForgetScan, tables, locals, loop
<1>5. ASSUME NEW a \in ActionId, Lapse(a) \/ Ripen(a)
      PROVE  Quiet
  <2>1. \A b \in ActionId : actions'[b].state = actions[b].state
    BY <1>5 DEF Lapse, Ripen, TypeOK, ActionRow
  <2>2. QuietTables
    BY <1>5, <2>1 DEF Lapse, Ripen, QuietTables, RowMovesOn, SameJob, MovesOn
  <2> QED
    BY <1>2, <1>5, <2>2 DEF Lapse, Ripen, world, locals, loop
<1>6. ASSUME NEW j \in JobId, Age(j)
      PROVE  Quiet
  <2>1. \A i \in JobId : SameJob(i) /\ jobs'[i].status = jobs[i].status
    BY <1>6 DEF Age, TypeOK, JobRow, SameJob
  <2>2. QuietTables
    BY <1>6, <2>1 DEF Age, QuietTables, RowMovesOn, MovesOn
  <2> QED
    BY <1>2, <1>6, <2>2 DEF Age, world, locals, loop
<1> QED
  BY <1>1, <1>3, <1>4, <1>5, <1>6 DEF Time

\* The messages of the agent are quiet.
LEMMA AgentQuiet ==
    ASSUME TypeOK, SendInv, NEW s \in Sockets, Agent(s)
    PROVE  Quiet
<1>0. s \in Tasks /\ s \in Runners /\ s \notin Installs
  BY TasksAssumption DEF Tasks, Runners
<1>1. /\ pc[s] \in {"off", "idle"} /\ lock' = lock /\ faults' = faults
      /\ todo' = todo /\ cur' = cur /\ stale' = stale
  BY DEF Agent, Connect, Disconnect, Heartbeat, PatchReport, JobStarted, JobResult,
         CloseSocket, locals, loop
<1>2. QuietLocals
  <2>1. \/ pc' = pc /\ job' = job
        \/ \E label \in {"off", "idle", "wait", "match"} : Goto(s, label)
    BY DEF Agent, Connect, Disconnect, Heartbeat, PatchReport, JobStarted, JobResult,
           CloseSocket, locals
  <2>2. \A u \in Tasks : u # s => job'[u] = job[u]
    BY DEF Agent, Connect, Disconnect, Heartbeat, PatchReport, JobStarted, JobResult,
           CloseSocket, locals, TypeOK
  <2>3. CASE pc' = pc /\ job' = job
    BY <1>1, <2>3 DEF QuietLocals, Untouched
  <2>4. CASE \E label \in {"off", "idle", "wait", "match"} : Goto(s, label)
    BY <1>0, <1>1, <2>2, <2>4, GotoOutside DEF Critical
  <2> QED
    BY <2>1, <2>3, <2>4
<1>3. \A u \in Sockets : delivered'[u] \subseteq delivered[u]
  BY DEF Agent, Connect, Disconnect, Heartbeat, PatchReport, JobStarted, JobResult,
         CloseSocket, TypeOK, world
<1>4. QuietTables
  <2>1. CASE JobStarted(s)
    <3>1. PICK j \in delivered[s] :
             jobs' = [jobs EXCEPT ![j] = JobRowAs(j, AfterStarted(jobs[j].status))]
      BY <2>1 DEF JobStarted
    <3>2. j \in JobId /\ jobs[j].status \in JobState /\ jobs[j].status # "none"
      BY DEF SendInv, JobInv, TypeOK, JobRow
    <3> QED
      BY <2>1, <3>1, <3>2, StatusMovesOn, StatusStep DEF JobStarted
  <2>2. CASE JobResult(s)
    <3>1. PICK j \in delivered[s], r \in AgentResult :
             jobs' = [jobs EXCEPT ![j] = Reported(j, r)]
      BY <2>2 DEF JobResult
    <3>2. j \in JobId /\ jobs[j].status # "none"
      BY DEF SendInv, JobInv, TypeOK
    <3> QED
      BY <2>2, <3>1, <3>2, ReportStep DEF JobResult
  <2>3. CASE Connect(s) \/ Disconnect(s) \/ Heartbeat(s) \/ PatchReport(s)
    BY <2>3, SameTables DEF Connect, Disconnect, Heartbeat, PatchReport, tables
  <2> QED
    BY <2>1, <2>2, <2>3 DEF Agent
<1> QED
  BY <1>1, <1>2, <1>3, <1>4 DEF Quiet

\* on_job_finished is quiet.
LEMMA FinishingQuiet ==
    ASSUME TypeOK, NEW t \in Sockets \cup {Cleanup}, Finishing(t)
    PROVE  Quiet
<1>0. t \in Tasks /\ t \notin Installs /\ pc[t] \notin Critical
  BY TasksAssumption DEF Tasks, Runners, Finishing, Match, Settle, Critical
<1>1. /\ lock' = lock /\ faults' = faults /\ delivered' = delivered /\ jobs' = jobs
      /\ stale' = stale
  BY DEF Finishing, Match, Settle, world, tables, loop
<1>2. QuietLocals
  <2>1. CASE Return(t)
    BY <1>0, <2>1, ReturnOutside
  <2>2. ASSUME NEW label \in {"settle", "find"}, NEW row, Goto(t, label),
               cur' = [cur EXCEPT ![t] = row], UNCHANGED <<todo, job, arg>>
        PROVE  QuietLocals
    <3>1. \A u \in Tasks : u # t => cur'[u] = cur[u]
      BY <2>2 DEF TypeOK
    <3> QED
      BY <1>0, <2>2, <3>1, GotoOutside DEF Critical
  <2> QED
    BY <2>1, <2>2 DEF Finishing, Match, Settle
<1>3. QuietTables
  <2>1. CASE Match(t)
    BY <2>1, SameTables DEF Match, tables
  <2>2. CASE Settle(t)
    <3>1. arg[t].outcome \in {"done", "failed"}
      BY <1>0 DEF TypeOK, Arg
    <3> QED
      BY <2>2, <3>1, RowStep DEF Settle
  <2> QED
    BY <2>1, <2>2 DEF Finishing
<1> QED
  BY <1>1, <1>2, <1>3 DEF Quiet

\* The cleanup loop is quiet.
LEMMA CleanupQuiet ==
    ASSUME TypeOK, SendInv, CleanupStep
    PROVE  Quiet
<1>0. Cleanup \in Tasks /\ Cleanup \notin Runners /\ Cleanup \notin Installs
  BY TasksAssumption DEF Tasks
<1>1. CASE Creation(Cleanup) \/ Finishing(Cleanup)
  BY <1>1, CreationQuiet, FinishingQuiet
<1>2. CASE Expire \/ Gather \/ NextEnded \/ SelectStale \/ Sweep
  <2>1. /\ lock' = lock /\ faults' = faults /\ delivered' = delivered
        /\ todo' = todo /\ cur' = cur
    BY <1>2 DEF Expire, Gather, NextEnded, SelectStale, Sweep, CleanupGoto, world
  <2>2. \A u \in Tasks : u # Cleanup => pc'[u] = pc[u] /\ job'[u] = job[u]
    BY <1>2 DEF Expire, Gather, NextEnded, SelectStale, Sweep, CleanupGoto, Goto, TypeOK
  <2>3. QuietLocals
    BY <1>0, <2>1, <2>2 DEF QuietLocals, Untouched, Tasks
  <2>4. QuietTables
    <3>1. CASE Expire
      <4>1. \A a \in ActionId : Row(a, "expired").state = "expired"
        BY DEF Row, TypeOK, ActionRow
      <4>2. \A a \in ActionId : \/ actions'[a] = actions[a]
                                \/ actions'[a] = Row(a, "expired")
        BY <3>1 DEF Expire
      <4> QED
        BY <3>1, <4>1, <4>2 DEF Expire, QuietTables, SameJob, MovesOn, RowMovesOn
    <3>2. CASE Sweep
      <4>1. \A j \in stale : /\ jobs[j] \in JobRow /\ j \in JobId
                             /\ jobs[j].status \in JobState /\ jobs[j].status # "none"
        BY DEF TypeOK, SendInv, JobInv, JobRow
      <4>2. ASSUME NEW j \in JobId, j \in stale
            PROVE  SameJob(j) /\ MovesOn(j)
        <5> DEFINE status == AfterSweep(jobs[j].status)
        <5>1. jobs'[j] = JobRowAs(j, status)
          BY <3>2, <4>2 DEF Sweep
        <5>2. /\ JobRowAs(j, status).status = status
              /\ JobRowAs(j, status).action = jobs[j].action
              /\ JobRowAs(j, status).epoch = jobs[j].epoch
              /\ JobRowAs(j, status).sent = jobs[j].sent
              /\ JobRowAs(j, status).kind = jobs[j].kind
          BY <4>1, <4>2 DEF JobRowAs, JobRow
        <5>3. status # "none" /\ status \notin ActiveJob /\ jobs[j].status # "none"
          BY <4>1, <4>2, StatusMovesOn
        <5> QED
          BY <5>1, <5>2, <5>3 DEF SameJob, MovesOn
      <4>3. ASSUME NEW j \in JobId, j \notin stale
            PROVE  SameJob(j) /\ MovesOn(j)
        BY <3>2, <4>3 DEF Sweep, SameJob, MovesOn
      <4> QED
        BY <3>2, <4>2, <4>3 DEF Sweep, QuietTables, RowMovesOn
    <3>3. CASE Gather \/ NextEnded \/ SelectStale
      BY <3>3, SameTables DEF Gather, NextEnded, SelectStale, tables
    <3> QED
      BY <1>2, <3>1, <3>2, <3>3
  <2>5. \A j \in stale' : j \in stale \/ jobs[j].status # "none"
    BY <1>2 DEF Expire, Gather, NextEnded, SelectStale, Sweep, loop, ActiveJob
  <2> QED
    BY <2>1, <2>3, <2>4, <2>5 DEF Quiet
<1> QED
  BY <1>1, <1>2 DEF CleanupStep

\* fail_undispatched is quiet for the tables.
LEMMA UndoneTables ==
    ASSUME TypeOK, NEW j \in JobId, jobs[j].status # "none", UNCHANGED actions,
           jobs' = [jobs EXCEPT ![j] = JobRowAs(j, AfterUndispatched(jobs[j].status))]
    PROVE  QuietTables
<1>1. jobs[j].status \in JobState
  BY DEF TypeOK, JobRow
<1> QED
  BY <1>1, StatusMovesOn, StatusStep

\* The direct route is quiet but for its INSERT and its send.
LEMMA DirectQuiet ==
    ASSUME TypeOK, SendInv, NEW t \in Installs, Direct(t)
    PROVE  \/ Quiet
           \/ \E j \in NewJob :
                /\ jobs' = [jobs EXCEPT ![j] = NewJobRow("patch_install", cur[t].scope, 0)]
                /\ job' = [job EXCEPT ![t] = j]
                /\ DirectInsert(t)
           \/ DirectSend(t) /\ Sent(t)
<1>0. t \in Tasks /\ t \notin Runners
  BY TasksAssumption DEF Tasks, Runners
<1>1. \A u \in Tasks : u # t => pc'[u] = pc[u] /\ todo'[u] = todo[u]
                                /\ cur'[u] = cur[u] /\ job'[u] = job[u]
  BY DEF Direct, DirectCheck, DirectInsert, DirectSend, DirectUndo, Return, Goto, TypeOK
<1>2. lock' = lock /\ faults' = faults /\ stale' = stale
  BY DEF Direct, DirectCheck, DirectInsert, DirectSend, DirectUndo, loop
<1>3. ASSUME QuietTables, delivered' = delivered,
             pc'[t] \in {"send", "undo"} => pc[t] \in {"send", "undo"} /\ job'[t] = job[t]
      PROVE  Quiet
  BY <1>0, <1>1, <1>2, <1>3 DEF Quiet, QuietLocals, Untouched, Tasks
<1>4. CASE DirectCheck(t)
  BY <1>0, <1>3, <1>4, SameTables DEF DirectCheck, Goto, TypeOK, tables, world
<1>5. CASE DirectInsert(t) /\ Return(t) /\ UNCHANGED jobs
  BY <1>0, <1>3, <1>5, SameTables DEF DirectInsert, Return, Goto, TypeOK, world, Tasks
<1>6. CASE DirectSend(t) /\ UNCHANGED <<delivered, jobs, todo, cur, job, arg>>
  BY <1>0, <1>3, <1>6, SameTables DEF DirectSend, Goto, TypeOK
<1>7. CASE DirectUndo(t)
  <2>1. job[t] \in JobId /\ jobs[job[t]].status # "none"
    BY <1>7 DEF DirectUndo, SendInv, JobInv
  <2>2. QuietTables
    BY <1>7, <2>1, UndoneTables DEF DirectUndo
  <2>3. pc'[t] \notin {"send", "undo"}
    BY <1>0, <1>7 DEF DirectUndo, Return, Goto, TypeOK
  <2> QED
    BY <1>3, <1>7, <2>2, <2>3 DEF DirectUndo, world
<1> QED
  BY <1>4, <1>5, <1>6, <1>7 DEF Direct, DirectInsert, DirectSend

-----------------------------------------------------------------------------
\* What a coroutine of run_due knows, put together from the invariants.
Knows(t) ==
    /\ pc[t] \in {"send", "mark", "undo"} =>
         job[t] \in JobId /\ jobs[job[t]].status # "none" /\ jobs[job[t]].action = cur[t].id
    /\ pc[t] \in Holding \cup {"pick"} =>
         /\ \A r \in todo[t] : r.id \in ActionId /\ actions[r.id].state # "none" /\ ~SentNow(r.id)
         /\ \A q, r \in todo[t] : q.id = r.id => q = r
    /\ pc[t] \in Holding =>
         /\ cur[t].id \in ActionId /\ actions[cur[t].id].state # "none"
         /\ \A r \in todo[t] : r.id # cur[t].id
    /\ pc[t] \in Holding \ {"mark"} => ~SentNow(cur[t].id)
    /\ pc[t] = "send" => ~SentWith(cur[t].id, job[t])

\* What the tables satisfy whoever is at work.
TablesInv ==
    /\ \A j \in stale \cup UNION {delivered[s] : s \in Sockets} : jobs[j].status # "none"
    /\ \A j \in JobId : jobs[j].action # 0 => actions[jobs[j].action].state # "none"
    /\ \A j \in JobId : jobs[j].epoch <= faults

\* Only the row that is being marked may be pending and sent.
PendingInv ==
    \A a \in ActionId : actions[a].state = "pending" /\ SentNow(a) =>
         \E t \in Runners : pc[t] = "mark" /\ cur[t].id = a

DirectInv ==
    \A t \in Installs : pc[t] \in {"send", "undo"} =>
         job[t] \in JobId /\ jobs[job[t]].status # "none" /\ jobs[job[t]].action = 0

\* The invariant, read coroutine by coroutine.
LEMMA Parts ==
    SendInv <=> /\ LockInv /\ TablesInv /\ PendingInv /\ DirectInv
                /\ \A t \in Runners : Knows(t)
BY DEF SendInv, JobInv, RowInv, SentInv, TablesInv, PendingInv, DirectInv, Knows

LEMMA PartsNext ==
    SendInv' <=> /\ LockInv' /\ TablesInv' /\ PendingInv' /\ DirectInv'
                 /\ \A t \in Runners : Knows(t)'
BY DEF SendInv, JobInv, RowInv, SentInv, TablesInv, PendingInv, DirectInv, Knows

\* A later fault leaves nothing sent since; without one nothing changes.
LEMMA SentSame ==
    ASSUME TypeOK, QuietTables, TablesInv, faults' \in {faults, faults + 1}
    PROVE  /\ \A a : (\E j \in JobId : /\ jobs'[j].sent /\ jobs'[j].action = a
                                       /\ jobs'[j].epoch = faults') => SentNow(a)
           /\ \A j \in JobId : jobs'[j].epoch <= faults'
<1>1. faults \in Nat /\ \A j \in JobId : jobs[j].epoch \in Nat
  BY DEF TypeOK, JobRow
<1>2. \A j \in JobId : jobs'[j].sent = jobs[j].sent /\ jobs'[j].action = jobs[j].action
                       /\ jobs'[j].epoch = jobs[j].epoch /\ jobs[j].epoch <= faults
  BY DEF QuietTables, SameJob, TablesInv
<1> QED
  BY <1>1, <1>2 DEF SentNow

\* A coroutine whose locals are untouched still knows what it knew, if the
\* tables only moved on.
LEMMA KnowsKept ==
    ASSUME TypeOK, QuietTables, TablesInv, faults' \in {faults, faults + 1},
           NEW t \in Runners, Knows(t), Untouched(t)
    PROVE  Knows(t)'
<1>1. \A a : SentNow(a)' => SentNow(a)
  BY SentSame DEF SentNow
<1>2. \A j \in JobId : /\ jobs[j].status # "none" => jobs'[j].status # "none"
                       /\ SameJob(j)
  BY DEF QuietTables, MovesOn
<1>3. \A a \in ActionId : actions[a].state # "none" => actions'[a].state # "none"
  BY DEF QuietTables, RowMovesOn
<1>4. pc'[t] = pc[t] /\ todo'[t] = todo[t] /\ cur'[t] = cur[t] /\ job'[t] = job[t]
  BY DEF Untouched
<1>5. ASSUME pc[t] \in {"send", "mark", "undo"}
      PROVE  job'[t] \in JobId /\ jobs'[job'[t]].status # "none" /\ jobs'[job'[t]].action = cur'[t].id
  BY <1>2, <1>4, <1>5 DEF Knows, SameJob
<1>6. ASSUME pc[t] \in Holding \cup {"pick"}
      PROVE  /\ \A r \in todo'[t] : /\ r.id \in ActionId /\ actions'[r.id].state # "none"
                                    /\ ~SentNow(r.id)'
             /\ \A q, r \in todo'[t] : q.id = r.id => q = r
  <2>1. /\ \A r \in todo[t] : r.id \in ActionId /\ actions[r.id].state # "none" /\ ~SentNow(r.id)
        /\ \A q, r \in todo[t] : q.id = r.id => q = r
    BY <1>6 DEF Knows
  <2> QED
    BY <1>1, <1>3, <1>4, <2>1
<1>7. ASSUME pc[t] \in Holding
      PROVE  /\ cur'[t].id \in ActionId /\ actions'[cur'[t].id].state # "none"
             /\ \A r \in todo'[t] : r.id # cur'[t].id
  BY <1>3, <1>4, <1>7 DEF Knows
<1>8. ASSUME pc[t] \in Holding \ {"mark"}
      PROVE  ~SentNow(cur[t].id)'
  BY <1>1, <1>4, <1>8, SentSame DEF Knows, SentNow
<1>9. ASSUME pc[t] = "send"
      PROVE  ~SentWith(cur[t].id, job[t])'
  <2>1. job[t] \in JobId /\ ~SentWith(cur[t].id, job[t])
    BY <1>9 DEF Knows
  <2> QED
    BY <1>2, <1>4, <2>1 DEF SentWith, SameJob
<1> QED
  BY <1>4, <1>5, <1>6, <1>7, <1>8, <1>9 DEF Knows

LEMMA TablesKept ==
    ASSUME TypeOK, TypeOK', TablesInv, QuietTables, faults' \in {faults, faults + 1},
           \A j \in stale' \cup UNION {delivered'[s] : s \in Sockets} : jobs[j].status # "none"
    PROVE  TablesInv'
<1>1. \A j \in JobId : jobs'[j].epoch <= faults'
  BY SentSame
<1>2. \A j \in JobId : jobs'[j].action = jobs[j].action
                       /\ (jobs[j].status # "none" => jobs'[j].status # "none")
  BY DEF QuietTables, SameJob, MovesOn
<1>3. \A j \in JobId : jobs'[j].action # 0 => actions'[jobs'[j].action].state # "none"
  <2>1. \A j \in JobId : jobs[j].action \in 0 .. MaxActions
    BY DEF TypeOK, JobRow
  <2>2. \A j \in JobId : jobs[j].action # 0 => jobs[j].action \in ActionId
    BY <2>1, BoundsAssumption DEF ActionId
  <2> QED
    BY <1>2, <2>2 DEF TablesInv, QuietTables, RowMovesOn
<1>4. \A j \in stale' \cup UNION {delivered'[s] : s \in Sockets} : jobs'[j].status # "none"
  BY <1>2 DEF TypeOK
<1> QED
  BY <1>1, <1>3, <1>4 DEF TablesInv

\* Quiet steps keep the invariant.
LEMMA QuietKeeps ==
    ASSUME TypeOK, TypeOK', SendInv, Quiet
    PROVE  SendInv'
<1> USE DEF Quiet
<1>0. /\ LockInv /\ TablesInv /\ PendingInv /\ DirectInv /\ \A t \in Runners : Knows(t)
  BY Parts
<1>1. LockInv'
  BY <1>0 DEF LockInv, QuietLocals, Outside, Untouched
<1>2. TablesInv'
  <2>1. \A j \in stale' \cup UNION {delivered'[s] : s \in Sockets} : jobs[j].status # "none"
    BY <1>0 DEF TablesInv
  <2> QED
    BY <1>0, <2>1, TablesKept
<1>3. PendingInv'
  <2>1. \A a : SentNow(a)' => SentNow(a)
    BY <1>0, SentSame DEF SentNow
  <2>2. ASSUME NEW a \in ActionId, actions'[a].state = "pending", SentNow(a)'
        PROVE  \E t \in Runners : pc'[t] = "mark" /\ cur'[t].id = a
    <3>1. SentNow(a)
      BY <2>1, <2>2
    <3>2. actions[a].state # "none" 
      BY <1>0, <3>1, BoundsAssumption DEF SentNow, TablesInv, ActionId
    <3>3. actions[a].state = "pending"
      BY <2>2, <3>2 DEF QuietTables, RowMovesOn
    <3>4. PICK t \in Runners : pc[t] = "mark" /\ cur[t].id = a
      BY <1>0, <3>1, <3>3 DEF PendingInv
    <3> QED
      BY <3>4 DEF QuietLocals, Outside, Untouched, Critical
  <2> QED
    BY <2>2 DEF PendingInv
<1>4. DirectInv'
  BY <1>0 DEF DirectInv, QuietLocals, QuietTables, SameJob, MovesOn
<1>5. \A t \in Runners : Knows(t)'
  <2>1. ASSUME NEW t \in Runners, Untouched(t)
        PROVE  Knows(t)'
    BY <1>0, <2>1, KnowsKept
  <2>2. ASSUME NEW t \in Runners, Outside(t)
        PROVE  Knows(t)'
    BY <2>2 DEF Outside, Knows, Holding, Critical
  <2> QED
    BY <2>1, <2>2 DEF QuietLocals
<1> QED
  BY <1>1, <1>2, <1>3, <1>4, <1>5, PartsNext

\* And whoever is past the look for a running install still knows of none.
LEMMA QuietInstalls ==
    ASSUME SendInv, InstallInv, Quiet
    PROVE  InstallInv'
<1>1. ActiveInstall' => ActiveInstall
  BY DEF Quiet, QuietTables, SameJob, MovesOn, ActiveInstall
<1>2. \A t \in Runners : pc[t] = "send" => jobs'[job[t]].kind = jobs[job[t]].kind
  BY DEF SendInv, JobInv, Quiet, QuietTables, SameJob
<1> QED
  BY <1>1, <1>2 DEF Quiet, QuietLocals, Outside, Untouched, Critical, InstallInv

-----------------------------------------------------------------------------
\* The steps of run_due.

\* The others of a step of coroutine t stay where they are.
OthersSame(t) == \A u \in Runners \cup Installs : u # t => Untouched(u)

\* t takes, keeps or leaves the lock.
LockStep(t) ==
    /\ pc[t] \in Critical \/ lock = NoTask
    /\ \/ pc'[t] \in Critical /\ lock' = t
       \/ pc'[t] \notin Critical /\ lock' = NoTask

LEMMA LockStepKeeps ==
    ASSUME LockInv, NEW t \in Runners, OthersSame(t), LockStep(t)
    PROVE  /\ LockInv'
           /\ \A u \in Runners : u # t => pc[u] \notin Critical /\ pc'[u] \notin Critical
BY TasksAssumption DEF LockInv, OthersSame, Untouched, LockStep, Runners, Tasks

\* What is left to show of a step under the lock.
LEMMA CriticalKeeps ==
    ASSUME SendInv, NEW t \in Runners, t \notin Installs, OthersSame(t), LockStep(t),
           \A j \in JobId : jobs[j].status # "none" =>
               jobs'[j].status # "none" /\ jobs'[j].action = jobs[j].action,
           TablesInv', Knows(t)',
           \A a \in ActionId : actions'[a].state = "pending" /\ SentNow(a)' =>
               pc'[t] = "mark" /\ cur'[t].id = a
    PROVE  SendInv'
<1>0. /\ LockInv /\ TablesInv /\ PendingInv /\ DirectInv /\ \A u \in Runners : Knows(u)
  BY Parts
<1>1. LockInv' /\ \A u \in Runners : u # t => pc'[u] \notin Critical
  BY <1>0, LockStepKeeps
<1>2. PendingInv'
  BY DEF PendingInv
<1>3. DirectInv'
  BY <1>0 DEF DirectInv, OthersSame, Untouched
<1>4. \A u \in Runners : Knows(u)'
  BY <1>1 DEF Knows, Holding, Critical
<1> QED
  BY <1>1, <1>2, <1>3, <1>4, PartsNext

\* The same when the tables only moved on: then only mark_dispatched has a row
\* to answer for.
LEMMA CriticalQuiet ==
    ASSUME TypeOK, TypeOK', SendInv, NEW t \in Runners, t \notin Installs,
           OthersSame(t), LockStep(t), QuietTables, faults' \in {faults, faults + 1},
           delivered' = delivered, stale' \subseteq stale, Knows(t)',
           \/ pc[t] # "mark" \/ faults' = faults + 1
           \/ actions'[cur[t].id].state # "pending"
    PROVE  SendInv'
<1>0. /\ LockInv /\ TablesInv /\ PendingInv /\ DirectInv /\ \A u \in Runners : Knows(u)
  BY Parts
<1>1. \A u \in Runners : u # t => pc[u] \notin Critical
  BY <1>0, LockStepKeeps
<1>2. TablesInv'
  <2>1. \A j \in stale' \cup UNION {delivered'[s] : s \in Sockets} : jobs[j].status # "none"
    BY <1>0 DEF TablesInv
  <2> QED
    BY <1>0, <2>1, TablesKept
<1>3. ASSUME NEW a \in ActionId, actions'[a].state = "pending", SentNow(a)'
      PROVE  FALSE
  <2>1. SentNow(a)
    BY <1>0, <1>3, SentSame DEF SentNow
  <2>2. actions[a].state # "none"
    BY <1>0, <2>1, BoundsAssumption DEF SentNow, TablesInv, ActionId
  <2>3. actions[a].state = "pending"
    BY <1>3, <2>2 DEF QuietTables, RowMovesOn
  <2>4. PICK u \in Runners : pc[u] = "mark" /\ cur[u].id = a
    BY <1>0, <2>1, <2>3 DEF PendingInv
  <2>5. u = t
    BY <1>1, <2>4 DEF Critical
  <2>6. faults' # faults + 1
    <3>1. \A j \in JobId : jobs'[j].epoch = jobs[j].epoch /\ jobs[j].epoch <= faults
      BY <1>0 DEF QuietTables, SameJob, TablesInv
    <3>2. faults \in Nat /\ \A j \in JobId : jobs[j].epoch \in Nat
      BY DEF TypeOK, JobRow
    <3>3. PICK j \in JobId : jobs'[j].epoch = faults'
      BY <1>3 DEF SentNow
    <3> QED
      BY <3>1, <3>2, <3>3
  <2> QED
    BY <1>3, <2>4, <2>5, <2>6
<1>4. \A j \in JobId : jobs[j].status # "none" =>
          jobs'[j].status # "none" /\ jobs'[j].action = jobs[j].action
  BY DEF QuietTables, SameJob, MovesOn
<1> QED
  BY <1>2, <1>3, <1>4, CriticalKeeps

\* A coroutine that returns leaves the others alone.
LEMMA ReturnLocals ==
    ASSUME TypeOK, NEW t \in Runners \cup Installs, Return(t)
    PROVE  OthersSame(t) /\ pc'[t] \in {"idle", "ended"}
<1>1. t \in Tasks /\ \A u \in Runners \cup Installs : u \in Tasks
  BY DEF Tasks
<1>2. \A u \in Tasks : u # t => pc'[u] = pc[u] /\ todo'[u] = todo[u]
                               /\ cur'[u] = cur[u] /\ job'[u] = job[u]
  BY <1>1 DEF Return, Goto, TypeOK
<1> QED
  BY <1>1, <1>2 DEF OthersSame, Untouched, Return, Goto, TypeOK

\* What a coroutine holding the lock can rely on before it acts.
LEMMA Alone ==
    ASSUME TypeOK, SendInv, NEW t \in Runners, pc[t] \in Critical
    PROVE  /\ t \in Tasks /\ t \notin Installs /\ lock = t
           /\ Knows(t) /\ TablesInv
           /\ \A a \in ActionId : actions[a].state = "pending" /\ SentNow(a) =>
                pc[t] = "mark" /\ cur[t].id = a
<1>1. /\ LockInv /\ TablesInv /\ PendingInv /\ Knows(t)
  BY Parts
<1>2. \A u \in Runners : u # t => pc[u] \notin Critical
  BY <1>1 DEF LockInv
<1> QED
  BY <1>1, <1>2, TasksAssumption DEF LockInv, PendingInv, Critical, Runners, Tasks

\* run_due goes on to its next row, or leaves.
LEMMA NextRowKnows ==
    ASSUME TypeOK, SendInv, NEW t \in Runners, pc[t] \in Holding,
           NextRow(t), QuietTables, faults' = faults
    PROVE  OthersSame(t) /\ LockStep(t) /\ Knows(t)'
<1>0. TablesInv /\ Knows(t) /\ t \in Tasks
  BY Parts DEF Tasks
<1>1. OthersSame(t)
  <2>1. CASE Return(t)
    BY <2>1, ReturnLocals
  <2>2. CASE /\ Goto(t, "pick") /\ cur' = [cur EXCEPT ![t] = NoRow]
             /\ job' = [job EXCEPT ![t] = 0] /\ UNCHANGED todo
    BY <1>0, <2>2 DEF Goto, OthersSame, Untouched, TypeOK, Tasks
  <2> QED
    BY <2>1, <2>2 DEF NextRow
<1>2. LockStep(t)
  <2>1. pc[t] \in Critical /\ lock = t
    BY Alone DEF Critical, Holding
  <2>2. CASE lock' = NoTask /\ Return(t)
    <3>1. pc'[t] \notin Critical
      BY <2>2, ReturnLocals DEF Critical
    <3> QED
      BY <2>1, <2>2, <3>1 DEF LockStep
  <2>3. CASE Goto(t, "pick") /\ UNCHANGED lock
    <3>1. pc'[t] \in Critical
      BY <1>0, <2>3 DEF Goto, TypeOK, Critical
    <3> QED
      BY <2>1, <2>3, <3>1 DEF LockStep
  <2> QED
    BY <2>2, <2>3 DEF NextRow
<1>3. CASE todo[t] = {}
  <2>1. pc'[t] \in {"idle", "ended"}
    BY <1>0, <1>3 DEF NextRow, Return, Goto, TypeOK
  <2> QED
    BY <1>1, <1>2, <2>1 DEF Knows, Holding
<1>4. CASE todo[t] # {}
  <2>1. pc'[t] = "pick" /\ todo'[t] = todo[t]
    BY <1>0, <1>4 DEF NextRow, Goto, TypeOK
  <2>2. \A a : SentNow(a)' => SentNow(a)
    BY <1>0, SentSame DEF SentNow
  <2>3. \A r \in todo[t] : r.id \in ActionId /\ actions[r.id].state # "none" /\ ~SentNow(r.id)
    BY <1>0 DEF Knows, Holding
  <2>4. \A r \in todo[t] : actions'[r.id].state # "none"
    BY <2>3 DEF QuietTables, RowMovesOn
  <2>5. \A q, r \in todo[t] : q.id = r.id => q = r
    BY <1>0 DEF Knows, Holding
  <2> QED
    BY <1>1, <1>2, <2>1, <2>2, <2>3, <2>4, <2>5 DEF Knows, Holding
<1> QED
  BY <1>3, <1>4

\* Entering, and reading the list.
LEMMA EnterKeeps ==
    ASSUME TypeOK, TypeOK', SendInv, NEW t \in Runners, Acquire(t) \/ List(t)
    PROVE  SendInv'
<1>0. t \in Tasks /\ t \notin Installs
  BY TasksAssumption DEF Runners, Tasks
<1>1. QuietTables /\ faults' = faults /\ delivered' = delivered /\ stale' = stale
  BY SameTables DEF Acquire, List, tables, world, loop
<1>2. CASE Acquire(t)
  <2>1. OthersSame(t) /\ LockStep(t) /\ pc'[t] = "list"
    BY <1>0, <1>2 DEF Acquire, Goto, OthersSame, Untouched, LockStep, TypeOK, Critical, Tasks
  <2>2. Knows(t)'
    BY <2>1 DEF Knows, Holding
  <2> QED
    BY <1>0, <1>1, <1>2, <2>1, <2>2, CriticalQuiet DEF Acquire
<1>3. CASE List(t)
  <2>1. pc[t] = "list" /\ pc[t] \in Critical
    BY <1>3 DEF List, Critical
  <2>2. CASE DueRows = {}
    <3>1. OthersSame(t) /\ pc'[t] \in {"idle", "ended"}
      BY <1>3, <2>2, ReturnLocals DEF List
    <3>2. LockStep(t)
      BY <1>3, <2>1, <2>2, <3>1 DEF List, LockStep, Critical
    <3>3. Knows(t)'
      BY <3>1 DEF Knows, Holding
    <3> QED
      BY <1>0, <1>1, <2>1, <3>1, <3>2, <3>3, CriticalQuiet
  <2>3. CASE DueRows # {}
    <3>1. /\ OthersSame(t) /\ pc'[t] = "pick" /\ todo'[t] = DueRows
          /\ lock' = lock /\ UNCHANGED <<cur, job>>
      BY <1>0, <1>3, <2>3 DEF List, Goto, OthersSame, Untouched, TypeOK, Tasks
    <3>2. LockStep(t)
      BY <2>1, <3>1, Alone DEF LockStep, Critical
    <3>3. \A r \in DueRows : r.id \in ActionId /\ actions[r.id].state = "pending"
                             /\ r = SnapshotOf(r.id)
      BY DEF DueRows, SnapshotOf
    <3>4. \A r \in DueRows : ~SentNow(r.id)
      BY <2>1, <3>3, Alone
    <3>5. \A a : SentNow(a)' => SentNow(a)
      BY <1>1, SentSame, Parts DEF SentNow
    <3>6. actions' = actions
      BY <1>3 DEF List, tables
    <3>7. Knows(t)'
      BY <3>1, <3>3, <3>4, <3>5, <3>6 DEF Knows, Holding
    <3> QED
      BY <1>0, <1>1, <2>1, <3>1, <3>2, <3>7, CriticalQuiet
  <2> QED
    BY <2>2, <2>3
<1> QED
  BY <1>2, <1>3

\* Turning to a row of the list: it is left alone or taken.
LEMMA PickKnows ==
    ASSUME TypeOK, SendInv, NEW t \in Runners, pc[t] = "pick", NEW r \in First(t),
           UNCHANGED <<actions, jobs, faults>>,
           \/ Skip(t, r)
           \/ \E label \in {"ids", "insert", "close"} : Take(t, r, label)
    PROVE  OthersSame(t) /\ LockStep(t) /\ Knows(t)'
<1>0. /\ t \in Tasks /\ lock = t /\ Knows(t) /\ pc[t] \in Critical /\ r \in todo[t]
  BY Alone DEF Critical, First
<1>1. \A q \in todo[t] : /\ q.id \in ActionId /\ actions[q.id].state # "none"
                         /\ ~SentNow(q.id) /\ (q.id = r.id => q = r)
  BY <1>0 DEF Knows
<1>2. \A a : SentNow(a)' = SentNow(a)
  BY DEF SentNow
<1>3. \A p, q \in todo[t] : p.id = q.id => p = q
  BY <1>0 DEF Knows
<1>4. CASE Skip(t, r) /\ todo[t] = {r}
  <2>1. Return(t) /\ lock' = NoTask
    BY <1>4 DEF Skip
  <2>2. OthersSame(t) /\ pc'[t] \in {"idle", "ended"}
    BY <2>1, ReturnLocals
  <2> QED
    BY <1>0, <2>1, <2>2 DEF LockStep, Knows, Holding, Critical
<1>5. CASE Skip(t, r) /\ todo[t] # {r}
  <2>1. /\ todo' = [todo EXCEPT ![t] = @ \ {r}]
        /\ UNCHANGED <<lock, pc, cur, job, arg>>
    BY <1>5 DEF Skip
  <2>2. OthersSame(t) /\ todo'[t] = todo[t] \ {r}
    BY <1>0, <2>1 DEF OthersSame, Untouched, TypeOK, Tasks
  <2>3. LockStep(t)
    BY <1>0, <2>1 DEF LockStep
  <2> QED
    BY <1>1, <1>2, <1>3, <2>1, <2>2, <2>3 DEF Knows, Holding
<1>6. ASSUME NEW label \in {"ids", "insert", "close"}, Take(t, r, label)
      PROVE  OthersSame(t) /\ LockStep(t) /\ Knows(t)'
  <2>1. /\ todo'[t] = todo[t] \ {r} /\ cur'[t] = r /\ pc'[t] = label /\ lock' = lock
    BY <1>0, <1>6 DEF Take, Goto, TypeOK
  <2>2. OthersSame(t)
    BY <1>0, <1>6 DEF Take, Goto, OthersSame, Untouched, TypeOK, Tasks
  <2>3. LockStep(t)
    BY <1>0, <2>1 DEF LockStep, Critical
  <2>4. \A q \in todo'[t] : q \in todo[t] /\ q.id # r.id
    BY <1>1, <2>1
  <2> QED
    BY <1>0, <1>1, <1>2, <1>3, <2>1, <2>2, <2>3, <2>4 DEF Knows, Holding
<1> QED
  BY <1>4, <1>5, <1>6

LEMMA PickKeeps ==
    ASSUME TypeOK, TypeOK', SendInv, NEW t \in Runners,
           PickInstall(t) \/ PickScript(t) \/ PickReboot(t)
    PROVE  SendInv'
<1>1. /\ UNCHANGED <<actions, jobs, faults>> /\ delivered' = delivered /\ stale' = stale
      /\ pc[t] = "pick"
  BY DEF PickInstall, PickScript, PickReboot, tables, world, loop
<1>2. PICK r \in First(t) : \/ Skip(t, r)
                            \/ \E label \in {"ids", "insert", "close"} : Take(t, r, label)
  BY DEF PickInstall, PickScript, PickReboot
<1>3. OthersSame(t) /\ LockStep(t) /\ Knows(t)'
  BY <1>1, <1>2, PickKnows
<1>4. t \notin Installs
  BY <1>1, Alone DEF Critical
<1> QED
  BY <1>1, <1>3, <1>4, SameTables, CriticalQuiet

LEMMA IdsKeeps ==
    ASSUME TypeOK, TypeOK', SendInv, NEW t \in Runners, Ids(t)
    PROVE  SendInv'
<1>1. /\ UNCHANGED <<actions, jobs, faults>> /\ delivered' = delivered /\ stale' = stale
      /\ pc[t] = "ids" /\ UNCHANGED <<lock, todo, cur, job>>
  BY DEF Ids, tables, world, loop
<1>2. t \in Tasks /\ t \notin Installs /\ lock = t /\ Knows(t)
  BY <1>1, Alone DEF Critical
<1>3. /\ pc'[t] \in {"insert", "close"}
      /\ \A u \in Tasks : u # t => pc'[u] = pc[u]
  BY <1>2 DEF Ids, Goto, TypeOK
<1>4. OthersSame(t) /\ LockStep(t)
  BY <1>1, <1>2, <1>3 DEF OthersSame, LockStep, Untouched, Critical, Tasks
<1>5. Knows(t)'
  <2>1. \A a : SentNow(a)' = SentNow(a)
    BY <1>1 DEF SentNow
  <2> QED
    BY <1>1, <1>2, <1>3, <2>1, SentSame DEF Knows, Holding, SentNow
<1> QED
  BY <1>1, <1>2, <1>4, <1>5, SameTables, CriticalQuiet

\* mark_dispatched, fail_undispatched and _close.
LEMMA EndRowKeeps ==
    ASSUME TypeOK, TypeOK', SendInv, NEW t \in Runners, Mark(t) \/ Undo(t) \/ Close(t)
    PROVE  SendInv'
<1>1. /\ faults' = faults /\ delivered' = delivered /\ stale' = stale
      /\ pc[t] \in {"mark", "undo", "close"} /\ NextRow(t)
  BY DEF Mark, Undo, Close, world, loop
<1>2. t \in Tasks /\ t \notin Installs /\ Knows(t) /\ pc[t] \in Holding
  BY <1>1, Alone DEF Critical, Holding
<1>3. cur[t].id \in ActionId /\ actions[cur[t].id] \in ActionRow
  BY <1>2 DEF Knows, TypeOK
<1>4. QuietTables /\ (pc[t] = "mark" => actions'[cur[t].id].state # "pending")
  <2>1. CASE Mark(t)
    <3> DEFINE row == [Row(cur[t].id, "dispatched") EXCEPT !.job = job[t]]
    <3>1. row.state = "dispatched"
      BY <1>3 DEF Row, ActionRow
    <3>2. actions' = [actions EXCEPT ![cur[t].id] = row] /\ jobs' = jobs
      BY <2>1 DEF Mark
    <3> HIDE DEF row
    <3>3. actions \in [ActionId -> ActionRow]
      BY DEF TypeOK
    <3>4. \A a \in ActionId : actions'[a].state = "dispatched" \/ actions'[a] = actions[a]
      BY <3>1, <3>2, <3>3
    <3>5. actions'[cur[t].id].state = "dispatched"
      BY <1>3, <3>1, <3>2, <3>3
    <3> QED
      BY <3>2, <3>4, <3>5 DEF QuietTables, SameJob, MovesOn, RowMovesOn
  <2>2. CASE Undo(t)
    <3>1. job[t] \in JobId /\ jobs[job[t]].status # "none"
      BY <1>2, <2>2 DEF Undo, Knows
    <3> QED
      BY <2>2, <3>1, UndoneTables DEF Undo
  <2>3. CASE Close(t)
    <3>1. arg[t].outcome \in {"done", "failed"}
      BY <1>2 DEF TypeOK, Arg
    <3> QED
      BY <2>3, <3>1, RowStep DEF Close
  <2> QED
    BY <2>1, <2>2, <2>3
<1>5. OthersSame(t) /\ LockStep(t) /\ Knows(t)'
  BY <1>1, <1>2, <1>4, NextRowKnows
<1> QED
  BY <1>1, <1>2, <1>4, <1>5, CriticalQuiet

-----------------------------------------------------------------------------
\* Inserting and sending a job.

\* A new job has not been sent and disturbs nobody.
LEMMA NewJobKeeps ==
    ASSUME TypeOK, TablesInv, NEW j \in NewJob, NEW row,
           row.status = "queued", ~row.sent, row.epoch = faults,
           row.action # 0 => actions[row.action].state # "none",
           jobs' = [jobs EXCEPT ![j] = row],
           UNCHANGED <<actions, delivered, stale, faults>>
    PROVE  /\ TablesInv' /\ j \in JobId /\ jobs'[j] = row
           /\ \A i \in JobId : i # j => jobs'[i] = jobs[i]
           /\ \A a : SentNow(a)' => SentNow(a)
<1>1. j \in JobId /\ jobs[j].status = "none"
  BY DEF NewJob
<1>2. row.status = "queued" /\ ~row.sent /\ row.epoch = faults
      /\ (row.action # 0 => actions[row.action].state # "none")
  OBVIOUS
<1>3. jobs'[j] = row /\ \A i \in JobId : i # j => jobs'[i] = jobs[i]
  BY <1>1 DEF TypeOK
<1>4. \A a : SentNow(a)' => SentNow(a)
  BY <1>2, <1>3 DEF SentNow
<1>5. TablesInv'
  <2>1. \A i \in JobId : jobs'[i].status # "none" \/ jobs'[i] = jobs[i]
    BY <1>2, <1>3
  <2>2. stale \cup UNION {delivered[s] : s \in Sockets} \subseteq JobId
    BY DEF TypeOK
  <2>3. \A i \in stale \cup UNION {delivered[s] : s \in Sockets} : jobs'[i].status # "none"
    BY <2>1, <2>2 DEF TablesInv
  <2>4. \A i \in JobId : jobs'[i].action # 0 => actions[jobs'[i].action].state # "none"
    BY <1>2, <1>3 DEF TablesInv
  <2>5. faults <= faults /\ \A i \in JobId : jobs'[i].epoch <= faults
    BY <1>2, <1>3 DEF TablesInv, TypeOK
  <2> QED
    BY <2>3, <2>4, <2>5 DEF TablesInv
<1> QED
  BY <1>1, <1>2, <1>3, <1>4, <1>5

LEMMA InsertKeeps ==
    ASSUME TypeOK, TypeOK', SendInv, NEW t \in Runners, Insert(t)
    PROVE  SendInv'
<1>1. /\ UNCHANGED <<actions, delivered, stale, faults>> /\ pc[t] = "insert"
  BY DEF Insert, world, loop
<1>2. /\ t \in Tasks /\ t \notin Installs /\ lock = t /\ Knows(t) /\ TablesInv
      /\ \A a \in ActionId : ~(actions[a].state = "pending" /\ SentNow(a))
  BY <1>1, Alone DEF Critical
<1>3. CASE lock' = NoTask /\ Return(t) /\ UNCHANGED jobs
  <2>1. OthersSame(t) /\ pc'[t] \in {"idle", "ended"}
    BY <1>3, ReturnLocals
  <2>2. LockStep(t) /\ Knows(t)'
    BY <1>1, <1>3, <2>1 DEF LockStep, Knows, Holding, Critical
  <2> QED
    BY <1>1, <1>2, <1>3, <2>1, <2>2, SameTables, CriticalQuiet
<1>4. ASSUME NEW j \in NewJob,
             jobs' = [jobs EXCEPT ![j] = NewJobRow(cur[t].kind, cur[t].scope, cur[t].id)],
             job' = [job EXCEPT ![t] = j], Goto(t, "send"),
             UNCHANGED <<lock, todo, cur, arg>>
      PROVE  SendInv'
  <2>2. cur[t].id \in ActionId /\ actions[cur[t].id].state # "none" /\ ~SentNow(cur[t].id)
    BY <1>1, <1>2 DEF Knows, Holding
  <2>3. /\ TablesInv' /\ j \in JobId
        /\ jobs'[j].status = "queued" /\ jobs'[j].action = cur[t].id
        /\ ~jobs'[j].sent /\ jobs'[j].epoch = faults
        /\ \A i \in JobId : i # j => jobs'[i] = jobs[i]
        /\ \A a : SentNow(a)' => SentNow(a)
    <3> DEFINE row == NewJobRow(cur[t].kind, cur[t].scope, cur[t].id)
    <3>1. row.status = "queued" /\ ~row.sent /\ row.epoch = faults /\ row.action = cur[t].id
      BY DEF NewJobRow
    <3>2. jobs' = [jobs EXCEPT ![j] = row]
      BY <1>4
    <3> HIDE DEF row
    <3>3. TablesInv /\ UNCHANGED <<actions, delivered, stale, faults>>
      BY <1>1, <1>2
    <3>4. row.action # 0 => actions[row.action].state # "none"
      BY <2>2, <3>1
    <3>5. /\ TablesInv' /\ j \in JobId /\ jobs'[j] = row
          /\ \A i \in JobId : i # j => jobs'[i] = jobs[i]
          /\ \A a : SentNow(a)' => SentNow(a)
      BY <3>1, <3>2, <3>3, <3>4, NewJobKeeps
    <3> QED
      BY <3>1, <3>5
  <2>4. pc'[t] = "send" /\ job'[t] = j /\ cur' = cur /\ todo' = todo
    BY <1>2, <1>4 DEF Goto, TypeOK
  <2>5. OthersSame(t)
    BY <1>2, <1>4 DEF Goto, OthersSame, Untouched, TypeOK, Tasks
  <2>6. LockStep(t)
    BY <1>1, <1>2, <1>4, <2>4 DEF LockStep, Critical
  <2>7. ~SentWith(cur[t].id, job[t])'
    BY <2>2, <2>3, <2>4 DEF SentWith, SentNow
  <2>8. ~SentNow(cur[t].id)'
    BY <2>2, <2>3, <2>4 DEF SentNow
  <2>9. Knows(t)'
    <3>1. /\ \A r \in todo[t] : r.id \in ActionId /\ actions[r.id].state # "none" /\ ~SentNow(r.id)
          /\ \A q, r \in todo[t] : q.id = r.id => q = r
          /\ \A r \in todo[t] : r.id # cur[t].id
      BY <1>1, <1>2 DEF Knows, Holding
    <3>2. \A r \in todo'[t] : ~SentNow(r.id)'
      BY <2>3, <2>4, <3>1
    <3> QED
      BY <1>1, <2>2, <2>3, <2>4, <2>7, <2>8, <3>1, <3>2 DEF Knows
  <2>10. \A a \in ActionId : ~(actions'[a].state = "pending" /\ SentNow(a)')
    BY <1>1, <1>2, <2>3
  <2>11. \A i \in JobId : jobs[i].status # "none" => i # j
    BY DEF NewJob
  <2> QED
    BY <1>2, <2>3, <2>5, <2>6, <2>9, <2>10, <2>11, CriticalKeeps
<1> QED
  BY <1>3, <1>4 DEF Insert

\* A send marks one job as sent and hands it to a socket.
LEMMA SentKeeps ==
    ASSUME TypeOK, TablesInv, NEW t \in Tasks, Sent(t),
           job[t] \in JobId, jobs[job[t]].status # "none",
           UNCHANGED <<actions, stale, faults>>
    PROVE  /\ TablesInv'
           /\ \A j \in JobId : /\ jobs'[j].status = jobs[j].status
                               /\ jobs'[j].action = jobs[j].action
                               /\ jobs'[j].epoch = jobs[j].epoch
                               /\ jobs'[j].kind = jobs[j].kind
                               /\ j # job[t] => jobs'[j].sent = jobs[j].sent
           /\ \A a : SentNow(a)' => SentNow(a) \/ a = jobs[job[t]].action
<1>1. \A j \in JobId : /\ jobs'[j].status = jobs[j].status
                       /\ jobs'[j].action = jobs[j].action
                       /\ jobs'[j].epoch = jobs[j].epoch
                       /\ jobs'[j].kind = jobs[j].kind
                       /\ j # job[t] => jobs'[j].sent = jobs[j].sent
  BY DEF Sent, TypeOK, JobRow
<1>2. \A a : SentNow(a)' => SentNow(a) \/ a = jobs[job[t]].action
  BY <1>1 DEF SentNow
<1>3. TablesInv'
  <2>1. \A s \in Sockets : delivered'[s] \subseteq delivered[s] \cup {job[t]}
    BY DEF Sent, TypeOK
  <2>2. stale \cup UNION {delivered[s] : s \in Sockets} \subseteq JobId
    BY DEF TypeOK
  <2>3. \A j \in stale' \cup UNION {delivered'[s] : s \in Sockets} : 
           j \in JobId /\ jobs[j].status # "none"
    BY <2>1, <2>2 DEF TablesInv
  <2> QED
    BY <1>1, <2>3 DEF TablesInv
<1> QED
  BY <1>1, <1>2, <1>3

LEMMA SendKeeps ==
    ASSUME TypeOK, TypeOK', SendInv, NEW t \in Runners, Send(t)
    PROVE  SendInv'
<1>1. /\ UNCHANGED <<actions, stale, faults, lock, todo, cur, job>> /\ pc[t] = "send"
  BY DEF Send, loop
<1>2. /\ t \in Tasks /\ t \notin Installs /\ lock = t /\ Knows(t) /\ TablesInv
      /\ \A a \in ActionId : ~(actions[a].state = "pending" /\ SentNow(a))
  BY <1>1, Alone DEF Critical
<1>3. /\ job[t] \in JobId /\ jobs[job[t]].status # "none" /\ jobs[job[t]].action = cur[t].id
      /\ \A r \in todo[t] : r.id \in ActionId /\ actions[r.id].state # "none" /\ ~SentNow(r.id)
      /\ \A q, r \in todo[t] : q.id = r.id => q = r
      /\ cur[t].id \in ActionId /\ actions[cur[t].id].state # "none"
      /\ \A r \in todo[t] : r.id # cur[t].id
      /\ ~SentNow(cur[t].id)
  BY <1>1, <1>2 DEF Knows, Holding
<1>4. pc'[t] \in {"mark", "undo"} /\ OthersSame(t) /\ LockStep(t)
  <2>1. PICK label \in {"mark", "undo"} : Goto(t, label)
    BY DEF Send
  <2>2. pc'[t] = label /\ \A u \in Tasks : u # t => pc'[u] = pc[u]
    BY <1>2, <2>1 DEF Goto, TypeOK
  <2> QED
    BY <1>1, <1>2, <2>2 DEF OthersSame, Untouched, LockStep, Critical, Tasks
<1>5. CASE Sent(t) /\ Goto(t, "mark")
  <2>1. /\ TablesInv'
        /\ \A j \in JobId : jobs'[j].status = jobs[j].status /\ jobs'[j].action = jobs[j].action
        /\ \A a : SentNow(a)' => SentNow(a) \/ a = cur[t].id
    BY <1>1, <1>2, <1>3, <1>5, SentKeeps
  <2>2. pc'[t] = "mark"
    BY <1>2, <1>5 DEF Goto, TypeOK
  <2>3. Knows(t)'
    <3>1. \A r \in todo[t] : ~SentNow(r.id)'
      BY <1>3, <2>1
    <3> QED
      BY <1>1, <1>3, <2>1, <2>2, <3>1 DEF Knows, Holding
  <2>4. \A a \in ActionId : actions'[a].state = "pending" /\ SentNow(a)' =>
            pc'[t] = "mark" /\ cur'[t].id = a
    BY <1>1, <1>2, <2>1, <2>2
  <2> QED
    BY <1>2, <1>4, <2>1, <2>3, <2>4, CriticalKeeps
<1>6. CASE Goto(t, "undo") /\ UNCHANGED <<delivered, jobs>>
  <2>1. pc'[t] = "undo"
    BY <1>2, <1>6 DEF Goto, TypeOK
  <2>2. \A a : SentNow(a)' = SentNow(a)
    BY <1>1, <1>6 DEF SentNow
  <2>3. Knows(t)'
    <3>1. ~SentNow(cur[t].id)' /\ \A r \in todo[t] : ~SentNow(r.id)'
      BY <1>1, <1>3, <1>6 DEF SentNow
    <3> QED
      BY <1>1, <1>3, <1>6, <2>1, <2>2, <3>1 DEF Knows, Holding
  <2> QED
    BY <1>1, <1>2, <1>4, <1>6, <2>3, SameTables, CriticalQuiet
<1> QED
  BY <1>5, <1>6 DEF Send

\* The direct route inserts and sends jobs that belong to no action.
LEMMA NoActionKeeps ==
    ASSUME TypeOK, SendInv, NEW t \in Installs, t \notin Runners, OthersSame(t),
           UNCHANGED <<lock, actions>>, TablesInv',
           \A j \in JobId : jobs[j].status # "none" =>
               /\ jobs'[j].status # "none" /\ jobs'[j].action = jobs[j].action
               /\ jobs'[j].epoch = jobs[j].epoch,
           \A j \in JobId : jobs'[j].sent /\ jobs'[j].action # 0 => jobs'[j] = jobs[j],
           faults' = faults,
           pc'[t] \in {"send", "undo"} =>
               job'[t] \in JobId /\ jobs'[job'[t]].status # "none" /\ jobs'[job'[t]].action = 0
    PROVE  SendInv'
<1>0. /\ LockInv /\ TablesInv /\ PendingInv /\ DirectInv /\ \A u \in Runners : Knows(u)
  BY Parts
<1>1. \A u \in Runners : Untouched(u)
  BY DEF OthersSame
<1>2. LockInv'
  BY <1>0, <1>1 DEF LockInv, Untouched
<1>3. \A a \in ActionId : SentNow(a)' => SentNow(a)
  BY BoundsAssumption DEF SentNow, ActionId
<1>4. PendingInv'
  BY <1>0, <1>1, <1>3 DEF PendingInv, Untouched
<1>5. DirectInv'
  BY <1>0 DEF DirectInv, OthersSame, Untouched
<1>6. ASSUME NEW u \in Runners
      PROVE  Knows(u)'
  <2>1. pc'[u] = pc[u] /\ todo'[u] = todo[u] /\ cur'[u] = cur[u] /\ job'[u] = job[u]
    BY <1>1 DEF Untouched
  <2>2. ASSUME pc[u] \in {"send", "mark", "undo"}
        PROVE  /\ job[u] \in JobId /\ jobs'[job[u]].status # "none"
               /\ jobs'[job[u]].action = cur[u].id
    BY <1>0, <2>2 DEF Knows
  <2>3. ASSUME pc[u] \in Holding \cup {"pick"}
        PROVE  /\ \A r \in todo[u] : r.id \in ActionId /\ actions[r.id].state # "none"
                                     /\ ~SentNow(r.id)'
               /\ \A q, r \in todo[u] : q.id = r.id => q = r
    <3>1. /\ \A r \in todo[u] : r.id \in ActionId /\ actions[r.id].state # "none" /\ ~SentNow(r.id)
          /\ \A q, r \in todo[u] : q.id = r.id => q = r
      BY <1>0, <2>3 DEF Knows
    <3> QED
      BY <1>3, <3>1
  <2>4. ASSUME pc[u] \in Holding
        PROVE  /\ cur[u].id \in ActionId /\ actions[cur[u].id].state # "none"
               /\ \A r \in todo[u] : r.id # cur[u].id
    BY <1>0, <2>4 DEF Knows
  <2>5. ASSUME pc[u] \in Holding \ {"mark"}
        PROVE  ~SentNow(cur[u].id)'
    <3>1. ~SentNow(cur[u].id) /\ cur[u].id \in ActionId
      BY <1>0, <2>5 DEF Knows
    <3> QED
      BY <2>1, <3>1, BoundsAssumption DEF SentNow, ActionId
  <2>6. ASSUME pc[u] = "send"
        PROVE  ~SentWith(cur[u].id, job[u])'
    <3>1. /\ ~SentWith(cur[u].id, job[u]) /\ cur[u].id \in ActionId
          /\ job[u] \in JobId /\ jobs[job[u]].status # "none"
      BY <1>0, <2>6 DEF Knows, Holding
    <3>2. cur[u].id # 0 /\ jobs'[job[u]].epoch = jobs[job[u]].epoch
      BY <3>1, BoundsAssumption DEF ActionId
    <3> QED
      BY <2>1, <3>1, <3>2 DEF SentWith
  <2> QED
    BY <2>1, <2>2, <2>3, <2>4, <2>5, <2>6 DEF Knows
<1> QED
  BY <1>0, <1>2, <1>4, <1>5, <1>6, PartsNext

LEMMA DirectKeeps ==
    ASSUME TypeOK, TypeOK', SendInv, NEW t \in Installs, Direct(t)
    PROVE  SendInv'
<1>0. t \in Tasks /\ t \notin Runners /\ TablesInv /\ DirectInv
  BY TasksAssumption, Parts DEF Tasks, Runners
<1>1. CASE Quiet
  BY <1>1, QuietKeeps
<1>2. ASSUME NEW j \in NewJob,
             jobs' = [jobs EXCEPT ![j] = NewJobRow("patch_install", cur[t].scope, 0)],
             job' = [job EXCEPT ![t] = j], DirectInsert(t)
      PROVE  SendInv'
  <2>1. /\ UNCHANGED <<actions, delivered, stale, faults>>
        /\ lock' = lock
    BY <1>2 DEF DirectInsert, world, loop
  <2>3. /\ TablesInv' /\ j \in JobId
        /\ jobs'[j].status = "queued" /\ jobs'[j].action = 0
        /\ ~jobs'[j].sent
        /\ \A i \in JobId : i # j => jobs'[i] = jobs[i]
    <3> DEFINE row == NewJobRow("patch_install", cur[t].scope, 0)
    <3>1. row.status = "queued" /\ ~row.sent /\ row.epoch = faults /\ row.action = 0
      BY DEF NewJobRow
    <3>2. jobs' = [jobs EXCEPT ![j] = row]
      BY <1>2
    <3> HIDE DEF row
    <3>3. TablesInv /\ UNCHANGED <<actions, delivered, stale, faults>>
      BY <1>0, <2>1
    <3>4. row.action # 0 => actions[row.action].state # "none"
      BY <3>1
    <3>5. /\ TablesInv' /\ j \in JobId /\ jobs'[j] = row
          /\ \A i \in JobId : i # j => jobs'[i] = jobs[i]
          /\ \A a : SentNow(a)' => SentNow(a)
      BY <3>1, <3>2, <3>3, <3>4, NewJobKeeps
    <3> QED
      BY <3>1, <3>5
  <2>4. job'[t] = j
    BY <1>0, <1>2 DEF TypeOK
  <2>5. OthersSame(t)
    <3>1. CASE Return(t)
      BY <3>1, ReturnLocals
    <3>2. CASE Goto(t, "send") /\ UNCHANGED <<todo, cur, arg>>
      BY <1>0, <1>2, <3>2 DEF Goto, OthersSame, Untouched, TypeOK, Tasks
    <3> QED
      BY <1>2, <3>1, <3>2 DEF DirectInsert
  <2>6. \A i \in JobId : jobs[i].status # "none" => i # j
    BY DEF NewJob
  <2> QED
    BY <1>0, <2>1, <2>3, <2>4, <2>5, <2>6, NoActionKeeps
<1>3. CASE DirectSend(t) /\ Sent(t)
  <2>1. UNCHANGED <<actions, stale, faults, lock>> /\ pc[t] = "send"
    BY <1>3 DEF DirectSend, loop
  <2>2. job[t] \in JobId /\ jobs[job[t]].status # "none" /\ jobs[job[t]].action = 0
    BY <1>0, <2>1 DEF DirectInv
  <2>3. /\ TablesInv'
        /\ \A j \in JobId : /\ jobs'[j].status = jobs[j].status
                            /\ jobs'[j].action = jobs[j].action
                            /\ jobs'[j].epoch = jobs[j].epoch
    BY <1>0, <1>3, <2>1, <2>2, SentKeeps
  <2>4. \A j \in JobId : jobs'[j].sent /\ jobs'[j].action # 0 => jobs'[j] = jobs[j]
    BY <1>3, <2>2, <2>3 DEF Sent, TypeOK
  <2>5. OthersSame(t)
    <3>1. CASE Return(t)
      BY <3>1, ReturnLocals
    <3>2. CASE Goto(t, "undo") /\ UNCHANGED <<todo, cur, job, arg>>
      BY <1>0, <3>2 DEF Goto, OthersSame, Untouched, TypeOK, Tasks
    <3> QED
      BY <1>3, <3>1, <3>2 DEF DirectSend
  <2>6. pc'[t] \in {"send", "undo"} => 
               job'[t] \in JobId /\ jobs'[job'[t]].status # "none" /\ jobs'[job'[t]].action = 0
    <3>1. CASE Return(t)
      BY <3>1, ReturnLocals
    <3>2. CASE Goto(t, "undo") /\ UNCHANGED job
      BY <2>2, <2>3, <3>2
    <3> QED
      BY <1>3, <3>1, <3>2 DEF DirectSend
  <2> QED
    BY <1>0, <2>1, <2>3, <2>4, <2>5, <2>6, NoActionKeeps
<1> QED
  BY <1>1, <1>2, <1>3, DirectQuiet

-----------------------------------------------------------------------------
\* Errors and restarts.
LEMMA FaultKeeps ==
    ASSUME TypeOK, TypeOK', SendInv, Fault
    PROVE  SendInv'
<1>0. /\ LockInv /\ TablesInv /\ PendingInv /\ DirectInv /\ \A t \in Runners : Knows(t)
  BY Parts
<1>1. /\ UNCHANGED <<actions, jobs>> /\ faults' = faults + 1
      /\ \A s \in Sockets : delivered'[s] \subseteq delivered[s]
      /\ stale' \subseteq stale
  BY DEF Fault, StatementFails, TickFails, ReceiveFails, Restart, CloseSocket, tables, world, loop, TypeOK
<1>2. QuietTables
  BY <1>1, SameTables
<1>3. TablesInv'
  <2>1. \A j \in stale' \cup UNION {delivered'[s] : s \in Sockets} : jobs[j].status # "none"
    BY <1>0, <1>1 DEF TablesInv
  <2> QED
    BY <1>0, <1>1, <1>2, <2>1, TablesKept
<1>4. PendingInv'
  <2>1. \A j \in JobId : jobs'[j].epoch # faults'
    <3>1. faults \in Nat /\ \A j \in JobId : jobs[j].epoch \in Nat
      BY DEF TypeOK, JobRow
    <3> QED
      BY <1>0, <1>1, <3>1 DEF TablesInv
  <2> QED
    BY <2>1 DEF PendingInv, SentNow
<1>5. ASSUME NEW t \in Runners, Untouched(t)
      PROVE  Knows(t)'
  BY <1>0, <1>1, <1>2, <1>5, KnowsKept
<1>6. ASSUME NEW t \in Runners, pc'[t] \notin Critical
      PROVE  Knows(t)'
  BY <1>6 DEF Knows, Holding, Critical
<1>7. CASE \E t \in Tasks : StatementFails(t)
  <2>1. PICK t \in Tasks : StatementFails(t)
    BY <1>7
  <2>2. /\ t # Cleanup /\ t \in Runners \cup Installs
        /\ Return(t) /\ lock' = IF lock = t THEN NoTask ELSE lock
    BY <2>1 DEF StatementFails, Tasks
  <2>3. OthersSame(t) /\ pc'[t] \in {"idle", "ended"}
    BY <2>2, ReturnLocals
  <2>4. \A u \in Runners : Knows(u)'
    <3>1. ASSUME NEW u \in Runners, u # t
          PROVE  Knows(u)'
      BY <1>5, <2>3, <3>1 DEF OthersSame
    <3>2. ASSUME NEW u \in Runners, u = t
          PROVE  Knows(u)'
      BY <1>6, <2>3, <3>2 DEF Critical
    <3> QED
      BY <3>1, <3>2
  <2>5. LockInv'
    <3>1. \A u \in Runners : u # t => pc'[u] = pc[u]
      BY <2>3 DEF OthersSame, Untouched
    <3>2. NoTask \notin Runners
      BY TasksAssumption DEF Tasks
    <3>3. CASE lock = t
      BY <1>0, <2>2, <2>3, <3>1, <3>2, <3>3 DEF LockInv, Critical
    <3>4. CASE lock # t
      BY <1>0, <2>2, <2>3, <3>1, <3>4 DEF LockInv, Critical
    <3> QED
      BY <3>3, <3>4
  <2>6. DirectInv'
    BY <1>0, <1>1, <2>3 DEF DirectInv, OthersSame, Untouched
  <2> QED
    BY <1>3, <1>4, <2>4, <2>5, <2>6, PartsNext
<1>8. CASE TickFails \/ \E s \in Sockets : ReceiveFails(s)
  <2>1. QuietLocals
    <3>1. CASE TickFails
      <4>1. \A u \in Tasks : u # Cleanup => pc'[u] = pc[u] /\ todo'[u] = todo[u]
                                            /\ cur'[u] = cur[u] /\ job'[u] = job[u]
        BY <3>1 DEF TickFails, Goto, TypeOK
      <4>2. \A u \in Runners \cup Installs : u \in Tasks /\ u # Cleanup
        BY TasksAssumption DEF Tasks
      <4> QED
        BY <4>1, <4>2 DEF QuietLocals, Untouched
    <3>2. ASSUME NEW s \in Sockets, ReceiveFails(s)
          PROVE  QuietLocals
      <4>1. s \in Tasks /\ s \notin Installs
        BY TasksAssumption DEF Tasks, Runners
      <4>2. /\ Goto(s, "off") /\ pc[s] \notin Critical
            /\ \A u \in Tasks : u # s =>
                 todo'[u] = todo[u] /\ cur'[u] = cur[u] /\ job'[u] = job[u]
        BY <3>2 DEF ReceiveFails, CloseSocket, Critical, TypeOK
      <4> QED
        BY <4>1, <4>2, GotoOutside DEF Critical
    <3> QED
      BY <1>8, <3>1, <3>2
  <2>2. lock' = lock
    BY <1>8 DEF TickFails, ReceiveFails
  <2>3. LockInv'
    BY <1>0, <2>1, <2>2 DEF LockInv, QuietLocals, Outside, Untouched
  <2>4. DirectInv'
    BY <1>0, <1>1, <2>1 DEF DirectInv, QuietLocals
  <2>5. \A t \in Runners : Knows(t)'
    BY <1>5, <1>6, <2>1 DEF QuietLocals, Outside
  <2> QED
    BY <1>3, <1>4, <2>3, <2>4, <2>5, PartsNext
<1>9. CASE Restart
  <2>1. lock' = NoTask /\ \A t \in Tasks : pc'[t] \in {"off", "idle"}
    BY <1>9 DEF Restart
  <2>2. LockInv'
    BY <2>1, TasksAssumption DEF LockInv, Tasks, Critical
  <2>3. DirectInv'
    BY <2>1 DEF DirectInv, Tasks
  <2>4. \A t \in Runners : Knows(t)'
    BY <1>6, <2>1 DEF Tasks, Critical
  <2> QED
    BY <1>3, <1>4, <2>2, <2>3, <2>4, PartsNext
<1> QED
  BY <1>7, <1>8, <1>9 DEF Fault

-----------------------------------------------------------------------------
\* The invariant, and what follows from it.

LEMMA InvInit == Init => Inv
<1> SUFFICES ASSUME Init PROVE Inv
  OBVIOUS
<1>1. TypeOK
  <2>1. NoRow \in Snapshot /\ NoArg \in Arg
    BY NoRowType
  <2>2. actions \in [ActionId -> ActionRow]
    BY BoundsAssumption DEF Init, ActionRow, ActionState, Kind, Scope
  <2>3. jobs \in [JobId -> JobRow]
    BY BoundsAssumption DEF Init, JobRow, JobState, Kind, Scope
  <2>4. pc \in [Tasks -> PC] /\ job \in [Tasks -> 0 .. MaxJobs]
    BY BoundsAssumption DEF Init, PC
  <2> QED
    BY <2>1, <2>2, <2>3, <2>4 DEF Init, TypeOK
<1>2. LockInv
  BY TasksAssumption DEF Init, LockInv, Tasks, Critical
<1>3. \A t \in Tasks : pc[t] \in {"off", "idle"}
  BY DEF Init
<1>4. \A j \in JobId : jobs[j].action = 0 /\ ~jobs[j].sent /\ jobs[j].epoch = 0
  BY DEF Init
<1>5. TablesInv
  BY <1>4 DEF Init, TablesInv
<1>6. PendingInv
  BY <1>4 DEF PendingInv, SentNow
<1>7. DirectInv /\ \A t \in Runners : Knows(t)
  BY <1>3 DEF DirectInv, Knows, Holding, Tasks
<1> QED
  BY <1>1, <1>2, <1>5, <1>6, <1>7, Parts DEF Inv

\* Every step is quiet, or one of run_due, the direct route or a fault.
LEMMA NextCases ==
    ASSUME TypeOK, SendInv, [Next]_vars
    PROVE  \/ Quiet
           \/ \E t \in Runners : RunDue(t)
           \/ \E t \in Installs : Direct(t)
           \/ Fault
<1>1. CASE \/ \E t \in Runners : Creation(t)
           \/ \E t \in Requests : QueueAction(t)
           \/ \E t \in Windows : WindowTick(t)
           \/ \E a \in ActionId : CancelAction(a)
           \/ \E s \in Sockets : Agent(s) \/ Finishing(s)
           \/ ScanRequest \/ Time \/ CleanupStep
  BY <1>1, CreationQuiet, OutsideQuiet, AgentQuiet, FinishingQuiet, CleanupQuiet
<1>2. CASE UNCHANGED vars
  <2>1. /\ UNCHANGED <<actions, jobs>> /\ UNCHANGED <<pc, todo, cur, job>>
        /\ lock' = lock /\ faults' = faults /\ delivered' = delivered /\ stale' = stale
    BY <1>2 DEF vars, tables, world, locals, loop
  <2>2. QuietLocals
    BY <2>1 DEF QuietLocals, Untouched
  <2> QED
    BY <2>1, <2>2, SameTables DEF Quiet
<1> QED
  BY <1>1, <1>2 DEF Next

\* Every step keeps the invariant.
LEMMA InvStep ==
    ASSUME Inv, [Next]_vars
    PROVE  Inv'
<1>1. TypeOK /\ SendInv
  BY DEF Inv
<1>2. SendHasJob
  BY <1>1 DEF SendInv, JobInv, SendHasJob
<1>3. TypeOK'
  BY <1>1, <1>2, TypeStep
<1>4. ASSUME NEW t \in Runners, RunDue(t)
      PROVE  SendInv'
  BY <1>1, <1>3, <1>4, EnterKeeps, PickKeeps, IdsKeeps, InsertKeeps, SendKeeps, EndRowKeeps
  DEF RunDue
<1> QED
  BY <1>1, <1>3, <1>4, NextCases, QuietKeeps, DirectKeeps, FaultKeeps DEF Inv

\* The invariant always holds: the tables and the locals of every coroutine
\* are well typed, only run_due is in its critical section, and what it has
\* listed there has not been sent yet.
THEOREM Invariant == Spec => []Inv
BY InvInit, InvStep, PTL DEF Spec

\* Every variable keeps its type, for any number of coroutines, rows and faults.
THEOREM TypeCorrect == Spec => []TypeOK
<1>1. Inv => TypeOK
  BY DEF Inv
<1> QED
  BY <1>1, Invariant, PTL

\* Only Send sends a job of an action, and without the direct route any job.
LEMMA SentBySend ==
    ASSUME Inv, [Next]_vars, \A t \in Runners : ~Send(t)
    PROVE  \A j \in JobId : jobs'[j].sent /\ (jobs'[j].action # 0 \/ Installs = {}) =>
               /\ jobs[j].sent /\ jobs'[j].action = jobs[j].action
               /\ jobs'[j].epoch = jobs[j].epoch
<1> DEFINE Same == \A j \in JobId : jobs'[j].sent /\ (jobs'[j].action # 0 \/ Installs = {}) =>
                      /\ jobs[j].sent /\ jobs'[j].action = jobs[j].action
                      /\ jobs'[j].epoch = jobs[j].epoch
<1>0. TypeOK /\ SendInv
  BY DEF Inv
<1>1. QuietTables => Same
  BY DEF QuietTables, SameJob
<1>2. UNCHANGED jobs => Same
  OBVIOUS
<1>3. ASSUME NEW j \in NewJob, NEW kind, NEW scope, NEW action,
             jobs' = [jobs EXCEPT ![j] = NewJobRow(kind, scope, action)]
      PROVE  Same
  <2>1. j \in JobId /\ ~NewJobRow(kind, scope, action).sent
    BY DEF NewJob, NewJobRow
  <2>2. ~jobs'[j].sent /\ \A i \in JobId : i # j => jobs'[i] = jobs[i]
    BY <1>0, <1>3, <2>1 DEF TypeOK
  <2> QED
    BY <2>2
<1>4. ASSUME NEW t \in Runners, RunDue(t)
      PROVE  Same
  <2>1. CASE Insert(t)
    BY <1>2, <1>3, <2>1 DEF Insert
  <2>2. CASE Undo(t)
    <3>1. job[t] \in JobId /\ jobs[job[t]].status # "none"
      BY <1>0, <2>2 DEF Undo, SendInv, JobInv
    <3>2. QuietTables
      BY <1>0, <2>2, <3>1, UndoneTables DEF Undo
    <3> QED
      BY <1>1, <3>2
  <2>3. CASE \/ Acquire(t) \/ List(t) \/ PickInstall(t) \/ PickScript(t) \/ PickReboot(t)
             \/ Ids(t) \/ Mark(t) \/ Close(t)
    BY <1>2, <2>3 DEF Acquire, List, PickInstall, PickScript, PickReboot, Ids, Mark, Close, tables
  <2> QED
    BY <1>4, <2>1, <2>2, <2>3 DEF RunDue
<1>5. ASSUME NEW t \in Installs, Direct(t)
      PROVE  Same
  <2>1. CASE Quiet
    BY <1>1, <2>1 DEF Quiet
  <2>2. CASE DirectSend(t) /\ Sent(t)
    <3>1. job[t] \in JobId /\ jobs[job[t]].action = 0
      BY <1>0, <2>2 DEF DirectSend, SendInv, JobInv
    <3>2. jobs'[job[t]].action = 0 /\ \A i \in JobId : i # job[t] => jobs'[i] = jobs[i]
      BY <1>0, <2>2, <3>1 DEF Sent, TypeOK, JobRow
    <3> QED
      BY <3>2
  <2> QED
    BY <1>0, <1>3, <1>5, <2>1, <2>2, DirectQuiet
<1>6. CASE Fault
  BY <1>2, <1>6 DEF Fault, StatementFails, TickFails, Restart, ReceiveFails, tables
<1>7. CASE Quiet
  BY <1>1, <1>7 DEF Quiet
<1> QED
  BY <1>0, <1>4, <1>5, <1>6, <1>7, NextCases

\* No action is sent twice without a fault in between, whatever the sockets,
\* the requests and the direct route do: when a job is sent under the lock, its
\* row has not been sent since the last fault.
THEOREM SendOnce == Spec => []NoDoubleSend
<1>1. Init => NoDoubleSend
  BY DEF Init, NoDoubleSend
<1>2. ASSUME Inv, [Next]_vars, NoDoubleSend
      PROVE  NoDoubleSend'
  <2>1. CASE \A t \in Runners : ~Send(t)
    BY <1>2, <2>1, SentBySend DEF NoDoubleSend
  <2>2. ASSUME NEW t \in Runners, Send(t)
        PROVE  NoDoubleSend'
    <3>1. CASE UNCHANGED jobs
      BY <1>2, <3>1 DEF NoDoubleSend
    <3>2. CASE Sent(t)
      <4>1. /\ TypeOK /\ SendInv /\ pc[t] = "send" /\ UNCHANGED <<actions, stale, faults>>
        BY <1>2, <2>2 DEF Inv, Send, loop
      <4>2. /\ Knows(t) /\ TablesInv /\ t \in Tasks
        BY <4>1, Parts DEF Tasks
      <4>3. /\ job[t] \in JobId /\ jobs[job[t]].status # "none"
            /\ jobs[job[t]].action = cur[t].id
            /\ ~SentWith(cur[t].id, job[t])
        BY <4>1, <4>2 DEF Knows
      <4>4. \A j \in JobId : /\ jobs'[j].action = jobs[j].action
                             /\ jobs'[j].epoch = jobs[j].epoch
                             /\ j # job[t] => jobs'[j].sent = jobs[j].sent
        BY <3>2, <4>1, <4>2, <4>3, SentKeeps
      <4> QED
        BY <1>2, <4>3, <4>4 DEF NoDoubleSend, SentWith
    <3> QED
      BY <2>2, <3>1, <3>2 DEF Send
  <2> QED
    BY <2>1, <2>2
<1>3. QED
  BY <1>1, <1>2, Invariant, PTL DEF Spec

-----------------------------------------------------------------------------
\* Installs, without the direct route.

\* An active install after the step was one before.
NoNewInstall ==
    \A j \in JobId : jobs'[j].kind = "patch_install" /\ jobs'[j].status \in ActiveJob =>
                     jobs[j].kind = "patch_install" /\ jobs[j].status \in ActiveJob

LEMMA QuietNoNewInstall ==
    ASSUME QuietTables
    PROVE  NoNewInstall
BY DEF QuietTables, SameJob, MovesOn, NoNewInstall

\* A step under the lock has to answer for its own coroutine alone.
LEMMA CriticalInstall ==
    ASSUME LockInv, NEW t \in Runners, pc[t] \in Critical, OthersSame(t),
           \/ pc'[t] \notin {"ids", "insert", "send"}
           \/ ~ActiveInstall'
           \/ pc'[t] = "send" /\ jobs'[job'[t]].kind # "reboot"
           \/ pc'[t] = "insert" /\ cur'[t].kind \notin {"patch_install", "reboot"}
    PROVE  InstallInv'
<1>1. \A u \in Runners : u # t => pc'[u] \notin Critical
  BY DEF LockInv, OthersSame, Untouched
<1> QED
  BY <1>1 DEF InstallInv, Critical

\* run_due looks for a running install, and no other inserts one before it.
LEMMA InstallStep ==
    ASSUME Inv, InstallInv, OneInstall, [Next]_vars, Installs = {}
    PROVE  InstallInv' /\ OneInstall'
<1>0. TypeOK /\ SendInv /\ LockInv
  BY DEF Inv, SendInv
<1>1. NoNewInstall => OneInstall' /\ (ActiveInstall' => ActiveInstall)
  BY DEF NoNewInstall, OneInstall, ActiveInstall
<1>2. CASE Quiet
  BY <1>0, <1>1, <1>2, QuietInstalls, QuietNoNewInstall DEF Quiet
<1>3. CASE Fault
  <2>1. UNCHANGED jobs
    BY <1>3 DEF Fault, StatementFails, TickFails, Restart, ReceiveFails, tables
  <2>2. \A u \in Runners : \/ pc'[u] \in {"off", "idle", "ended"}
                           \/ pc'[u] = pc[u] /\ cur'[u] = cur[u] /\ job'[u] = job[u]
    <3>1. ASSUME NEW t \in Tasks, StatementFails(t)
          PROVE  \A u \in Runners : \/ pc'[u] \in {"off", "idle", "ended"}
                                    \/ pc'[u] = pc[u] /\ cur'[u] = cur[u] /\ job'[u] = job[u]
      <4>1. t \in Runners \cup Installs /\ Return(t)
        BY <3>1 DEF StatementFails, Tasks
      <4> QED
        BY <1>0, <4>1, ReturnLocals DEF OthersSame, Untouched
    <3>2. CASE TickFails
      BY <1>0, <3>2, TasksAssumption DEF TickFails, Goto, TypeOK, Tasks
    <3>3. ASSUME NEW s \in Sockets, ReceiveFails(s)
          PROVE  \A u \in Runners : \/ pc'[u] \in {"off", "idle", "ended"}
                                    \/ pc'[u] = pc[u] /\ cur'[u] = cur[u] /\ job'[u] = job[u]
      BY <1>0, <3>3 DEF ReceiveFails, CloseSocket, Goto, TypeOK, Tasks
    <3>4. CASE Restart
      BY <3>4 DEF Restart, Tasks
    <3> QED
      BY <1>3, <3>1, <3>2, <3>3, <3>4 DEF Fault
  <2>3. InstallInv'
    BY <2>1, <2>2 DEF InstallInv, ActiveInstall
  <2> QED
    BY <1>1, <2>1, <2>3 DEF NoNewInstall
<1>4. ASSUME NEW t \in Runners, RunDue(t)
      PROVE  InstallInv' /\ OneInstall'
  <2>0. t \in Tasks
    BY DEF Tasks
  <2>1. CASE Acquire(t)
    <3>1. pc'[t] = "list" /\ OthersSame(t)
      BY <1>0, <2>0, <2>1 DEF Acquire, Goto, OthersSame, Untouched, TypeOK, Tasks
    <3>2. UNCHANGED jobs /\ lock = NoTask
      BY <2>1 DEF Acquire, tables
    <3>3. InstallInv'
      BY <3>1, <3>2 DEF InstallInv, OthersSame, Untouched, ActiveInstall
    <3> QED
      BY <1>1, <3>2, <3>3 DEF NoNewInstall
  <2>2. CASE List(t)
    <3>1. pc'[t] \in {"pick", "idle", "ended"} /\ OthersSame(t)
      <4>1. CASE Return(t)
        BY <1>0, <4>1, ReturnLocals
      <4>2. CASE todo' = [todo EXCEPT ![t] = DueRows] /\ Goto(t, "pick") /\ UNCHANGED <<cur, job>>
        BY <1>0, <2>0, <4>2 DEF Goto, OthersSame, Untouched, TypeOK, Tasks
      <4> QED
        BY <2>2, <4>1, <4>2 DEF List
    <3>2. UNCHANGED jobs /\ pc[t] \in Critical
      BY <2>2 DEF List, tables, Critical
    <3> QED
      BY <1>0, <1>1, <3>1, <3>2, CriticalInstall DEF NoNewInstall
  <2>3. CASE PickInstall(t) \/ PickScript(t) \/ PickReboot(t)
    <3>1. UNCHANGED <<actions, jobs, faults>> /\ pc[t] = "pick"
      BY <2>3 DEF PickInstall, PickScript, PickReboot, tables
    <3>2. PICK r \in First(t) :
             \/ Skip(t, r)
             \/ Take(t, r, "close")
             \/ Take(t, r, "ids") /\ ~ActiveInstall
             \/ Take(t, r, "insert") /\ (~ActiveInstall \/ r.kind = "script")
      BY <2>3 DEF PickInstall, PickScript, PickReboot
    <3>3. OthersSame(t)
      BY <1>0, <3>1, <3>2, PickKnows
    <3>4. ~ActiveInstall => ~ActiveInstall'
      BY <3>1 DEF ActiveInstall
    <3>5. \/ pc'[t] \notin {"ids", "insert", "send"}
          \/ ~ActiveInstall'
          \/ pc'[t] = "insert" /\ cur'[t].kind = "script"
      <4>1. CASE Skip(t, r)
        BY <1>0, <3>1, <4>1, ReturnLocals DEF Skip
      <4>2. CASE Take(t, r, "close")
        BY <1>0, <2>0, <4>2 DEF Take, Goto, TypeOK
      <4>3. CASE Take(t, r, "insert") /\ r.kind = "script"
        BY <1>0, <2>0, <4>3 DEF Take, Goto, TypeOK
      <4> QED
        BY <3>2, <3>4, <4>1, <4>2, <4>3
    <3> QED
      BY <1>0, <1>1, <3>1, <3>3, <3>5, CriticalInstall DEF NoNewInstall, Critical
  <2>4. CASE Ids(t)
    <3>1. UNCHANGED <<jobs, todo, cur, job>> /\ pc[t] = "ids"
      BY <2>4 DEF Ids, tables
    <3>2. pc'[t] \in {"close", "insert"} /\ \A u \in Tasks : u # t => pc'[u] = pc[u]
      BY <1>0, <2>0, <2>4 DEF Ids, Goto, TypeOK
    <3>3. OthersSame(t)
      BY <3>1, <3>2 DEF OthersSame, Untouched, Tasks
    <3>4. ~ActiveInstall' \/ cur'[t].kind \notin {"patch_install", "reboot"}
      BY <3>1 DEF InstallInv, ActiveInstall
    <3> QED
      BY <1>0, <1>1, <3>1, <3>2, <3>3, <3>4, CriticalInstall DEF NoNewInstall, Critical
  <2>5. CASE Insert(t)
    <3>1. pc[t] = "insert"
      BY <2>5 DEF Insert
    <3>2. CASE Return(t) /\ UNCHANGED jobs
      BY <1>0, <1>1, <3>1, <3>2, ReturnLocals, CriticalInstall DEF NoNewInstall, Critical
    <3>3. ASSUME NEW j \in NewJob,
                 jobs' = [jobs EXCEPT ![j] = NewJobRow(cur[t].kind, cur[t].scope, cur[t].id)],
                 job' = [job EXCEPT ![t] = j], Goto(t, "send"),
                 UNCHANGED <<lock, todo, cur, arg>>
          PROVE  InstallInv' /\ OneInstall'
      <4>1. j \in JobId /\ NewJobRow(cur[t].kind, cur[t].scope, cur[t].id).kind = cur[t].kind
        BY DEF NewJob, NewJobRow
      <4>2. jobs'[j].kind = cur[t].kind /\ \A i \in JobId : i # j => jobs'[i] = jobs[i]
        BY <1>0, <3>3, <4>1 DEF TypeOK
      <4>3. pc'[t] = "send" /\ job'[t] = j
        BY <1>0, <2>0, <3>3 DEF Goto, TypeOK
      <4>4. OthersSame(t)
        BY <1>0, <2>0, <3>3 DEF Goto, OthersSame, Untouched, TypeOK, Tasks
      <4>5. CASE cur[t].kind \in {"patch_install", "reboot"}
        <5>1. ~ActiveInstall
          BY <3>1, <4>5 DEF InstallInv
        <5>2. OneInstall'
          BY <4>2, <5>1 DEF OneInstall, ActiveInstall
        <5>3. ~ActiveInstall' \/ jobs'[job'[t]].kind # "reboot"
          BY <4>1, <4>2, <4>3, <5>1 DEF ActiveInstall
        <5> QED
          BY <1>0, <3>1, <4>3, <4>4, <5>2, <5>3, CriticalInstall DEF Critical
      <4>6. CASE cur[t].kind \notin {"patch_install", "reboot"}
        <5>1. NoNewInstall
          BY <4>2, <4>6 DEF NoNewInstall
        <5> QED
          BY <1>0, <1>1, <3>1, <4>2, <4>3, <4>4, <4>6, <5>1, CriticalInstall DEF Critical
      <4> QED
        BY <4>5, <4>6
    <3> QED
      BY <2>5, <3>2, <3>3 DEF Insert
  <2>6. CASE Send(t)
    <3>1. pc[t] = "send" /\ UNCHANGED <<todo, cur, job>>
      BY <2>6 DEF Send
    <3>2. pc'[t] \in {"mark", "undo"} /\ \A u \in Tasks : u # t => pc'[u] = pc[u]
      BY <1>0, <2>0, <2>6 DEF Send, Goto, TypeOK
    <3>3. OthersSame(t)
      BY <3>1, <3>2 DEF OthersSame, Untouched, Tasks
    <3>4. NoNewInstall
      <4>1. \A j \in JobId : jobs'[j].kind = jobs[j].kind /\ jobs'[j].status = jobs[j].status
        BY <1>0, <2>6 DEF Send, Sent, TypeOK, JobRow
      <4> QED
        BY <4>1 DEF NoNewInstall
    <3> QED
      BY <1>0, <1>1, <3>1, <3>2, <3>3, <3>4, CriticalInstall DEF Critical
  <2>7. CASE Mark(t) \/ Undo(t) \/ Close(t)
    <3>1. pc[t] \in {"mark", "undo", "close"} /\ NextRow(t)
      BY <2>7 DEF Mark, Undo, Close
    <3>2. NoNewInstall
      <4>1. CASE UNCHANGED jobs
        BY <4>1 DEF NoNewInstall
      <4>2. CASE Undo(t)
        <5>1. job[t] \in JobId /\ jobs[job[t]].status # "none"
          BY <1>0, <4>2 DEF Undo, SendInv, JobInv
        <5>2. QuietTables
          BY <1>0, <4>2, <5>1, UndoneTables DEF Undo
        <5> QED
          BY <5>2, QuietNoNewInstall
      <4> QED
        BY <2>7, <4>1, <4>2 DEF Mark, Close
    <3>3. OthersSame(t) /\ pc'[t] \in {"pick", "idle", "ended"}
      <4>1. CASE Return(t)
        BY <1>0, <4>1, ReturnLocals
      <4>2. CASE /\ Goto(t, "pick") /\ cur' = [cur EXCEPT ![t] = NoRow]
                 /\ job' = [job EXCEPT ![t] = 0] /\ UNCHANGED todo
        BY <1>0, <2>0, <4>2 DEF Goto, OthersSame, Untouched, TypeOK, Tasks
      <4> QED
        BY <3>1, <4>1, <4>2 DEF NextRow
    <3> QED
      BY <1>0, <1>1, <3>1, <3>2, <3>3, CriticalInstall DEF Critical
  <2> QED
    BY <1>4, <2>1, <2>2, <2>3, <2>4, <2>5, <2>6, <2>7 DEF RunDue
<1> QED
  BY <1>0, <1>2, <1>3, <1>4, NextCases

\* Without the direct route two installs of the device never run at once:
\* run_due looks for a running one while it holds the lock, and whoever else
\* could insert one waits for that lock.
THEOREM NoSecondInstall ==
    ASSUME Installs = {}
    PROVE  Spec => [](OneInstall /\ InstallInv)
<1>1. Init => OneInstall /\ InstallInv
  BY DEF Init, OneInstall, InstallInv, ActiveJob, Tasks
<1>2. (OneInstall /\ InstallInv) /\ Inv /\ [Next]_vars => (OneInstall /\ InstallInv)'
  BY InstallStep
<1> QED
  BY <1>1, <1>2, Invariant, PTL DEF Spec

\* And no restart is sent while an install is queued or running.
THEOREM RestartWaits ==
    ASSUME Installs = {}
    PROVE  Spec => NoRebootDuringInstall
<1>1. ASSUME Inv, InstallInv, [Next]_vars
      PROVE  [\A j \in JobId : RebootSent(j) => ~ActiveInstall]_vars
  <2>1. ASSUME NEW j \in JobId, RebootSent(j)
        PROVE  ~ActiveInstall
    <3>1. PICK t \in Runners : Send(t)
      BY <1>1, <2>1, SentBySend DEF RebootSent
    <3>2. pc[t] = "send" /\ t \in Tasks /\ TypeOK
      BY <1>1, <3>1 DEF Send, Tasks, Inv
    <3>3. job[t] = j
      BY <2>1, <3>1, <3>2 DEF RebootSent, Send, Sent, TypeOK
    <3> QED
      BY <1>1, <2>1, <3>2, <3>3 DEF InstallInv, RebootSent
  <2> QED
    BY <2>1
<1> QED
  BY <1>1, Invariant, NoSecondInstall, PTL DEF Spec, NoRebootDuringInstall

-----------------------------------------------------------------------------
\* The jobs table implements JobLife.

Statuses == [j \in JobId |-> jobs[j].status]

\* A step of JobLife, a sweep that comes too late, or none.
LifeStep == [Life!Next \/ \E j \in JobId : SweptLate(j)]_Statuses

LEMMA SameStatuses ==
    ASSUME \A j \in JobId : jobs'[j].status = jobs[j].status
    PROVE  LifeStep
BY DEF LifeStep, Statuses

\* One row is written.
LEMMA StatusWritten ==
    ASSUME TypeOK, NEW j \in JobId, NEW row, jobs' = [jobs EXCEPT ![j] = row]
    PROVE  Statuses' = [Statuses EXCEPT ![j] = row.status]
BY DEF TypeOK, Statuses

LEMMA StatusMoves ==
    ASSUME TypeOK, NEW j \in JobId, NEW row, jobs' = [jobs EXCEPT ![j] = row],
           \/ row.status = jobs[j].status
           \/ jobs[j].status = "none" /\ row.status = "queued"
           \/ jobs[j].status = "queued" /\ row.status = "running"
           \/ jobs[j].status \in ActiveJob /\ row.status \in TerminalJob
    PROVE  LifeStep
<1>1. Statuses' = [Statuses EXCEPT ![j] = row.status] /\ Statuses[j] = jobs[j].status
  BY StatusWritten DEF Statuses
<1>2. CASE row.status = jobs[j].status
  <2>1. Statuses' = Statuses
    BY <1>1, <1>2 DEF Statuses
  <2> QED
    BY <2>1 DEF LifeStep
<1>3. CASE jobs[j].status = "none" /\ row.status = "queued"
  <2>1. Life!Queue(j)
    BY <1>1, <1>3 DEF Life!Queue, Life!Move, Statuses
  <2> QED
    BY <2>1 DEF LifeStep, Life!Next
<1>4. CASE jobs[j].status = "queued" /\ row.status = "running"
  <2>1. Life!Start(j)
    BY <1>1, <1>4 DEF Life!Start, Life!Move, Statuses
  <2> QED
    BY <2>1 DEF LifeStep, Life!Next
<1>5. CASE jobs[j].status \in ActiveJob /\ row.status \in TerminalJob
  <2>1. Life!Finish(j)
    BY <1>1, <1>5 DEF Life!Finish, Life!Move, Statuses, ActiveJob, TerminalJob,
                      Life!ActiveJob, Life!TerminalJob
  <2> QED
    BY <2>1 DEF LifeStep, Life!Next
<1> QED
  BY <1>2, <1>3, <1>4, <1>5

LEMMA LifeKept ==
    ASSUME Inv, [Next]_vars
    PROVE  LifeStep
<1>0. TypeOK /\ SendInv
  BY DEF Inv
<1>1. ASSUME UNCHANGED jobs PROVE LifeStep
  BY <1>1, SameStatuses
<1>2. ASSUME NEW j \in NewJob, NEW kind, NEW scope, NEW action,
             jobs' = [jobs EXCEPT ![j] = NewJobRow(kind, scope, action)]
      PROVE  LifeStep
  <2>1. /\ j \in JobId /\ jobs[j].status = "none"
        /\ NewJobRow(kind, scope, action).status = "queued"
    BY DEF NewJob, NewJobRow
  <2> QED
    BY <1>0, <1>2, <2>1, StatusMoves
<1>3. ASSUME NEW t \in Tasks, Sent(t)
      PROVE  LifeStep
  <2>1. \A j \in JobId : jobs'[j].status = jobs[j].status
    BY <1>0, <1>3 DEF Sent, TypeOK, JobRow
  <2> QED
    BY <2>1, SameStatuses
<1>4. ASSUME NEW j \in JobId, jobs[j].status # "none", NEW status,
             jobs' = [jobs EXCEPT ![j] = JobRowAs(j, status)],
             \/ status = AfterStarted(jobs[j].status)
             \/ \E r \in AgentResult : status = AfterResult(jobs[j].status, r)
             \/ status = AfterUndispatched(jobs[j].status)
      PROVE  LifeStep
  <2>1. jobs[j].status \in JobState /\ JobRowAs(j, status).status = status
    BY <1>0 DEF TypeOK, JobRow, JobRowAs
  <2>2. \/ status = jobs[j].status
        \/ jobs[j].status = "queued" /\ status = "running"
        \/ jobs[j].status \in ActiveJob /\ status \in TerminalJob
    BY <1>4, <2>1
    DEF AfterStarted, AfterResult, AfterUndispatched, JobState, ActiveJob, TerminalJob
  <2> QED
    BY <1>0, <1>4, <2>1, <2>2, StatusMoves
<1>5. ASSUME NEW t \in Runners, RunDue(t)
      PROVE  LifeStep
  <2>1. CASE Insert(t)
    BY <1>1, <1>2, <2>1 DEF Insert
  <2>2. CASE Send(t)
    BY <1>1, <1>3, <2>2 DEF Send, Tasks
  <2>3. CASE Undo(t)
    <3>1. job[t] \in JobId /\ jobs[job[t]].status # "none"
      BY <1>0, <2>3 DEF Undo, SendInv, JobInv
    <3> QED
      BY <1>4, <2>3, <3>1 DEF Undo
  <2>4. CASE \/ Acquire(t) \/ List(t) \/ PickInstall(t) \/ PickScript(t) \/ PickReboot(t)
             \/ Ids(t) \/ Mark(t) \/ Close(t)
    BY <1>1, <2>4 DEF Acquire, List, PickInstall, PickScript, PickReboot, Ids, Mark, Close, tables
  <2> QED
    BY <1>5, <2>1, <2>2, <2>3, <2>4 DEF RunDue
<1>6. ASSUME NEW t \in Installs, Direct(t)
      PROVE  LifeStep
  <2>1. CASE DirectCheck(t)
    BY <1>1, <2>1 DEF DirectCheck, tables
  <2>2. CASE DirectInsert(t)
    BY <1>1, <1>2, <2>2 DEF DirectInsert
  <2>3. CASE DirectSend(t)
    BY <1>1, <1>3, <2>3 DEF DirectSend, Tasks
  <2>4. CASE DirectUndo(t)
    <3>1. job[t] \in JobId /\ jobs[job[t]].status # "none"
      BY <1>0, <2>4 DEF DirectUndo, SendInv, JobInv
    <3> QED
      BY <1>4, <2>4, <3>1 DEF DirectUndo
  <2> QED
    BY <1>6, <2>1, <2>2, <2>3, <2>4 DEF Direct
<1>7. ASSUME NEW s \in Sockets, Agent(s)
      PROVE  LifeStep
  <2>1. \A j \in delivered[s] : j \in JobId /\ jobs[j].status # "none"
    BY <1>0 DEF SendInv, JobInv, TypeOK
  <2>2. CASE JobStarted(s)
    BY <1>4, <2>1, <2>2 DEF JobStarted
  <2>3. CASE JobResult(s)
    <3>1. PICK j \in delivered[s], r \in AgentResult :
             jobs' = [jobs EXCEPT ![j] = Reported(j, r)]
      BY <2>3 DEF JobResult
    <3>2. /\ j \in JobId /\ jobs[j].status # "none" /\ jobs[j].status \in JobState
          /\ Reported(j, r).status = AfterResult(jobs[j].status, r)
      BY <1>0, <2>1, ReportedRow DEF TypeOK, JobRow
    <3>3. \/ Reported(j, r).status = jobs[j].status
          \/ jobs[j].status \in ActiveJob /\ Reported(j, r).status \in TerminalJob
      BY <3>2 DEF AfterResult, JobState, ActiveJob, TerminalJob
    <3> QED
      BY <1>0, <3>1, <3>2, <3>3, StatusMoves
  <2>4. CASE Connect(s) \/ Disconnect(s) \/ Heartbeat(s) \/ PatchReport(s)
    BY <1>1, <2>4 DEF Connect, Disconnect, Heartbeat, PatchReport, tables
  <2> QED
    BY <1>7, <2>2, <2>3, <2>4 DEF Agent
<1>8. CASE CleanupStep
  <2>1. CASE Sweep
    <3>1. \A j \in stale : j \in JobId /\ jobs[j].status # "none"
      BY <1>0 DEF SendInv, JobInv, TypeOK
    <3>2. \A j \in stale : JobRowAs(j, AfterSweep(jobs[j].status)).status = "timeout"
      BY <1>0, <3>1 DEF TypeOK, JobRow, JobRowAs, AfterSweep
    <3>3. Statuses' = [j \in JobId |-> IF j \in stale THEN "timeout" ELSE Statuses[j]]
      BY <2>1, <3>2 DEF Sweep, Statuses
    <3>4. CASE \A j \in stale : Statuses[j] \in ActiveJob
      <4>1. \A j \in stale : Statuses[j] \in Life!ActiveJob
        BY <3>4 DEF ActiveJob, Life!ActiveJob
      <4>2. \E js \in SUBSET JobId : Life!Sweep(js)
        BY <3>1, <3>3, <4>1, ZenonT(60) DEF Life!Sweep, Statuses
      <4> QED
        BY <4>2 DEF LifeStep, Life!Next
    <3>5. ASSUME NEW j \in stale, Statuses[j] \notin ActiveJob
          PROVE  LifeStep
      <4>1. j \in JobId /\ jobs[j].status \in TerminalJob
        BY <1>0, <3>1, <3>5 DEF TypeOK, JobRow, Statuses, JobState
      <4>2. \A i \in JobId : jobs'[i].status = IF i \in stale THEN "timeout" ELSE jobs[i].status
        BY <2>1, <3>2 DEF Sweep
      <4>3. SweptLate(j)
        BY <3>5, <4>1, <4>2 DEF SweptLate
      <4> QED
        BY <4>1, <4>3 DEF LifeStep
    <3> QED
      BY <3>4, <3>5
  <2>2. CASE Expire \/ Gather \/ NextEnded \/ SelectStale
    BY <1>1, <2>2 DEF Expire, Gather, NextEnded, SelectStale, tables
  <2>3. CASE Creation(Cleanup)
    BY <1>1, <2>3 DEF Creation, Find, Widen, Add, tables
  <2>4. CASE Finishing(Cleanup)
    BY <1>1, <2>4 DEF Finishing, Match, Settle, tables
  <2> QED
    BY <1>8, <2>1, <2>2, <2>3, <2>4 DEF CleanupStep
<1>9. CASE Time
  <2>1. ASSUME NEW j \in JobId, Age(j)
        PROVE  LifeStep
    <3>1. \A i \in JobId : jobs'[i].status = jobs[i].status
      BY <1>0, <2>1 DEF Age, TypeOK, JobRow
    <3> QED
      BY <3>1, SameStatuses
  <2> QED
    BY <1>1, <1>9, <2>1 DEF Time, Lapse, Ripen, ForgetScan, tables
<1>10. CASE \/ \E t \in Runners : Creation(t)
            \/ \E t \in Requests : QueueAction(t)
            \/ \E t \in Windows : WindowTick(t)
            \/ \E a \in ActionId : CancelAction(a)
            \/ \E s \in Sockets : Finishing(s)
            \/ ScanRequest \/ Fault \/ UNCHANGED vars
  BY <1>1, <1>10 DEF Creation, Find, Widen, Add, QueueAction, WindowTick, CancelAction,
                     Finishing, Match, Settle, ScanRequest, Fault, StatementFails, TickFails,
                     ReceiveFails, Restart, tables, vars
<1> QED
  BY <1>5, <1>6, <1>7, <1>8, <1>9, <1>10 DEF Next

\* Whatever the coroutines do, a job goes through queued, running and one end;
\* the one step that is not of that life is a sweep of a job that reported
\* between the sweep's SELECT and its UPDATE.
THEOREM JobsLive == Spec => LifeButLateSweep
<1>1. Init => Life!Init
  BY DEF Init, Life!Init
<1>2. Inv /\ [Next]_vars => [Life!Next \/ \E j \in JobId : SweptLate(j)]_Statuses
  BY LifeKept DEF LifeStep
<1>3. [Life!Next \/ \E j \in JobId : SweptLate(j)]_Statuses
        = [Life!Next \/ \E j \in JobId : SweptLate(j)]_[j \in JobId |-> jobs[j].status]
  BY DEF Statuses
<1> QED
  BY <1>1, <1>2, <1>3, Invariant, PTL DEF Spec, LifeButLateSweep, Statuses

\* Where no job reports while the sweep holds its list, the table implements
\* JobLife in full.
THEOREM JobsLiveInTime ==
    Spec /\ [](\A j \in stale : jobs[j].status \notin TerminalJob) => FollowsJobLife
<1> DEFINE InTime == \A j \in stale : jobs[j].status \notin TerminalJob
<1>1. Init => Life!Init
  BY DEF Init, Life!Init
<1>2. Inv /\ InTime /\ [Next]_vars => [Life!Next]_Statuses
  BY LifeKept DEF LifeStep, SweptLate
<1>3. [Life!Next]_Statuses = [Life!Next]_[j \in JobId |-> jobs[j].status]
  BY DEF Statuses
<1> QED
  BY <1>1, <1>2, <1>3, Invariant, PTL DEF Spec, FollowsJobLife, Life!Spec, Statuses
=============================================================================
