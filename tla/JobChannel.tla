----------------------------- MODULE JobChannel -----------------------------
(***************************************************************************)
(* A job's way from the dashboard to the agent and its output's way back:  *)
(* the agent of AgentLoop, the receive loops of routers/agent.py, the      *)
(* writes of jobs.py with its hub of live output, the routes of            *)
(* routers/jobs.py and the sweep.                                          *)
(*                                                                         *)
(* One device.  Coroutines of the server interleave at their awaits, so a  *)
(* step is one database statement, one send, or what runs between two of   *)
(* them; connections overlap at the server, where the loop of an old one   *)
(* works off what it has left while the next is registered already.        *)
(* Pieces of output are their numbers, in the order the job wrote them;    *)
(* 0 is the reason fail_undispatched stores instead of output.             *)
(***************************************************************************)
EXTENDS AgentLoop, JobStatus, SequencesExt

CONSTANTS
    Viewers,    \* dashboards that open the live output of a job
    MaxOutput,  \* MAX_OUTPUT_BYTES, in pieces
    MaxAsks,    \* requests for the agent's logs
    Sweeping,   \* does the cleanup loop run?
    MaxFaults   \* broken sockets, restarts and database errors

ASSUME ChannelAssumption ==
    MaxOutput \in Nat \ {0} /\ MaxAsks \in Nat /\ MaxFaults \in Nat /\ Sweeping \in BOOLEAN

VARIABLES
    row,        \* table jobs: status and output
    held,       \* job_secrets._states: what the filter holds back of each job
    reg,        \* agents_ws.manager: the device's connection, or 0
    loop,       \* where the receive loop of each connection is
    msg,        \* the message it works on
    clean,      \* what extract or flush gave it
    current,    \* the output append_output has read
    creation,   \* where the request that created each job is
    sweep,      \* where the sweep is, and the ids it has selected
    view,       \* the live output sockets
    events,     \* their queues in the hub
    asks, faults

server  == <<row, held, reg, loop, msg, clean, current, creation, sweep>>
viewing == <<view, events>>
counts  == <<asks, faults>>
vars    == <<agentVars, server, viewing, counts>>

Piece == 0 .. MaxChunk
Stored == {output \in Seq(Piece) : Len(output) <= MaxOutput}
Row   == [status: JobState, output: Stored]
Event == [type: {"output", "done"}, chunk: Seq(Piece)]
View  == [state: {"off", "read", "open", "told", "left"}, job: Job \cup {NoJob},
          row: Row, shown: Seq(Piece)]

NewRow == [status |-> "none", output |-> <<>>]

TypeOK ==
    /\ AgentTypeOK
    /\ row \in [Job -> Row]
    /\ held \in [Job -> Seq(Piece)]
    /\ reg \in 0 .. MaxConn
    /\ loop \in [Conn -> {"none", "receive", "mark", "append", "update", "publish",
                          "finish", "done", "closed"}]
    /\ msg \in [Conn -> ToServer]
    /\ clean \in [Conn -> Seq(Piece)] /\ current \in [Conn -> Seq(Piece)]
    /\ creation \in [Job -> {"new", "send", "undo", "undone", "over"}]
    /\ sweep \in [at: {"idle", "update", "publish"}, ids: SUBSET Job]
    /\ view \in [Viewers -> View]
    /\ events \in [Viewers -> Seq(Event)]
    /\ asks \in 0 .. MaxAsks /\ faults \in 0 .. MaxFaults

Init ==
    /\ AgentInit
    /\ row = [j \in Job |-> NewRow] /\ held = [j \in Job |-> <<>>]
    /\ reg = 0
    /\ loop = [c \in Conn |-> "none"] /\ msg = [c \in Conn |-> Logs]
    /\ clean = [c \in Conn |-> <<>>] /\ current = [c \in Conn |-> <<>>]
    /\ creation = [j \in Job |-> "new"]
    /\ sweep = [at |-> "idle", ids |-> {}]
    /\ view = [v \in Viewers |-> [state |-> "off", job |-> NoJob, row |-> NewRow,
                                  shown |-> <<>>]]
    /\ events = [v \in Viewers |-> <<>>]
    /\ asks = 0 /\ faults = 0

Over(j) == row[j].status \in TerminalJob

\* The part of the agent a step of the server touches: what is on the wire.
Taken(c) == up' = [up EXCEPT ![c] = Tail(@)]
ExceptUp   == <<conn, serve, intact, down, reader, frame, outbox, jobVars>>
ExceptDown == <<conn, serve, intact, up, reader, frame, outbox, jobVars>>

\* JobHub.publish
publish(j, e) ==
    events' = [v \in Viewers |->
                 IF view[v].state = "open" /\ view[v].job = j
                 THEN Append(events[v], e) ELSE events[v]]
DoneEvent == [type |-> "done", chunk |-> <<>>]

SetStatus(j, status) == row' = [row EXCEPT ![j].status = status]
LoopTo(c, to) == loop' = [loop EXCEPT ![c] = to]

\* What a finished step leaves of the locals of the loop: nothing.
Idle(c, to) == /\ LoopTo(c, to)
               /\ msg' = [msg EXCEPT ![c] = IF to = "finish" THEN @ ELSE Logs]
               /\ clean' = [clean EXCEPT ![c] = <<>>]

-----------------------------------------------------------------------------
(* agent_ws: the receive loop of connection c. *)

\* The agent dials and the server accepts and registers, replacing the entry
\* of a connection it has not yet seen the end of.
Connect ==
    /\ Dial
    /\ reg' = conn + 1
    /\ LoopTo(conn + 1, "receive")
    /\ UNCHANGED <<row, held, msg, clean, current, creation, sweep, viewing, counts>>

\* The loop sees the end of its connection; a superseded socket has been closed
\* from this side and may lose what it still had.
Disconnect(c) ==
    /\ loop[c] = "receive"
    /\ c # conn \/ ~intact
    /\ up[c] = <<>> \/ reg # c
    /\ LoopTo(c, "closed")
    /\ up' = [up EXCEPT ![c] = <<>>]
    /\ reg' = IF reg = c THEN 0 ELSE reg
    /\ UNCHANGED <<ExceptUp, row, held, msg, clean, current, creation, sweep, viewing, counts>>

Receive(c, type) ==
    /\ loop[c] = "receive" /\ up[c] # <<>> /\ Head(up[c]).type = type
    /\ Taken(c)
    /\ UNCHANGED <<ExceptUp, row, reg, current, creation, sweep, viewing, counts>>

Handle(c, to) == LoopTo(c, to) /\ msg' = [msg EXCEPT ![c] = Head(up[c])]

JobStarted(c) == Receive(c, "job_started") /\ Handle(c, "mark") /\ UNCHANGED <<held, clean>>

\* mark_running; the status event it publishes is not modelled.
MarkRunning(c) ==
    /\ loop[c] = "mark"
    /\ SetStatus(msg[c].job, AfterStarted(row[msg[c].job].status))
    /\ Idle(c, "receive")
    /\ UNCHANGED <<agentVars, held, reg, current, creation, sweep, viewing, counts>>

\* extract: the piece may be the start of a line that has to be held back.
JobOutput(c) ==
    /\ Receive(c, "job_output")
    /\ LET j    == Head(up[c]).job
           text == Append(held[j], Head(up[c]).chunk)
       IN \/ held' = [held EXCEPT ![j] = text] /\ UNCHANGED <<loop, msg, clean>>
          \/ /\ held' = [held EXCEPT ![j] = <<>>]
             /\ clean' = [clean EXCEPT ![c] = text]
             /\ Handle(c, "append")

\* Mutation: finished first, with what was held back forgotten.
JobResultAtOnce(c) ==
    /\ Receive(c, "job_result")
    /\ held' = [held EXCEPT ![Head(up[c]).job] = <<>>]
    /\ Handle(c, "finish")
    /\ UNCHANGED clean

\* flush: what is held back goes to the output before the job is finished.
JobResult(c) ==
    /\ Receive(c, "job_result")
    /\ LET j == Head(up[c]).job
       IN /\ held' = [held EXCEPT ![j] = <<>>]
          /\ clean' = [clean EXCEPT ![c] = held[j]]
          /\ Handle(c, IF held[j] = <<>> THEN "finish" ELSE "append")

\* Answers and reports that concern no job.
OtherMessage(c) ==
    /\ \E type \in {"patch_report", "agent_logs"} : Receive(c, type)
    /\ UNCHANGED <<held, loop, msg, clean>>

\* Mutation: a result that had to be flushed is not finished.
AfterFlushNothing(c) == "receive"

\* Where append_output returns to.
AfterAppend(c) == IF msg[c].type = "job_result" THEN "finish" ELSE "receive"

\* append_output: the SELECT and its early returns.
ReadOutput(c) ==
    LET r == row[msg[c].job]
        dropped == r.status \in TerminalJob \/ Len(r.output) >= MaxOutput
    IN /\ loop[c] = "append"
       /\ IF dropped
          THEN Idle(c, AfterAppend(c)) /\ UNCHANGED current
          ELSE /\ LoopTo(c, "update") /\ UNCHANGED <<msg, clean>>
               /\ current' = [current EXCEPT ![c] = r.output]
       /\ UNCHANGED <<agentVars, row, held, reg, creation, sweep, viewing, counts>>

\* Mutation: no cap.
NotCapped(output) == output

Capped(output) == SubSeq(output, 1, IF Len(output) > MaxOutput THEN MaxOutput ELSE Len(output))

\* append_output: the UPDATE, which looks at nothing but the id.
UpdateOutput(c) ==
    /\ loop[c] = "update"
    /\ row' = [row EXCEPT ![msg[c].job].output = Capped(current[c] \o clean[c])]
    /\ LoopTo(c, "publish")
    /\ current' = [current EXCEPT ![c] = <<>>]
    /\ UNCHANGED <<agentVars, held, reg, msg, clean, creation, sweep, viewing, counts>>

PublishOutput(c) ==
    /\ loop[c] = "publish"
    /\ publish(msg[c].job, [type |-> "output", chunk |-> clean[c]])
    /\ Idle(c, AfterAppend(c))
    /\ UNCHANGED <<agentVars, row, held, reg, current, creation, sweep, view, counts>>

\* Mutation: told before it is written.
FinishLater(c) ==
    /\ loop[c] = "finish"
    /\ publish(msg[c].job, DoneEvent)
    /\ LoopTo(c, "done")
    /\ UNCHANGED <<agentVars, row, held, reg, msg, clean, current, creation, sweep, view, counts>>

\* finish_job
FinishJob(c) ==
    /\ loop[c] = "finish"
    /\ SetStatus(msg[c].job, AfterResult(row[msg[c].job].status, msg[c].status))
    /\ LoopTo(c, "done")
    /\ UNCHANGED <<agentVars, held, reg, msg, clean, current, creation, sweep, viewing, counts>>

\* ... and the event it publishes, whether or not the UPDATE found the row.
PublishDone(c) ==
    /\ loop[c] = "done"
    /\ publish(msg[c].job, DoneEvent)
    /\ Idle(c, "receive")
    /\ UNCHANGED <<agentVars, row, held, reg, current, creation, sweep, view, counts>>

AgentSocket(c) ==
    \/ Disconnect(c) \/ JobStarted(c) \/ MarkRunning(c) \/ JobOutput(c) \/ JobResult(c)
    \/ OtherMessage(c) \/ ReadOutput(c) \/ UpdateOutput(c) \/ PublishOutput(c)
    \/ FinishJob(c) \/ PublishDone(c)

-----------------------------------------------------------------------------
(* The requests of the dashboard, and the sweep. *)

\* create_job
Create(j) ==
    /\ creation[j] = "new"
    /\ SetStatus(j, "queued")
    /\ creation' = [creation EXCEPT ![j] = "send"]
    /\ UNCHANGED <<agentVars, held, reg, loop, msg, clean, current, sweep, viewing, counts>>

\* ConnectionManager.send: into a socket that has died it may fail, or seem to
\* succeed.
SendTo(command) ==
    /\ down' = IF reg = conn /\ intact THEN Append(down, command) ELSE down
    /\ UNCHANGED <<ExceptDown, row, held, reg, loop, msg, clean, current, sweep, viewing>>

\* _dispatch
Dispatch(j) ==
    /\ creation[j] = "send" /\ reg # 0
    /\ SendTo(Command("job", j))
    /\ creation' = [creation EXCEPT ![j] = "over"]
    /\ UNCHANGED counts

DispatchFails(j) ==
    /\ creation[j] = "send" /\ ~(reg # 0 /\ reg = conn /\ intact)
    /\ creation' = [creation EXCEPT ![j] = "undo"]
    /\ UNCHANGED <<agentVars, row, held, reg, loop, msg, clean, current, sweep, viewing, counts>>

\* fail_undispatched, and the event it publishes.
Undispatched(j) ==
    /\ creation[j] = "undo"
    /\ row' = [row EXCEPT ![j] =
                 IF @.status = "queued"
                 THEN [status |-> AfterUndispatched(@.status), output |-> <<0>>] ELSE @]
    /\ creation' = [creation EXCEPT ![j] = "undone"]
    /\ UNCHANGED <<agentVars, held, reg, loop, msg, clean, current, sweep, viewing, counts>>

PublishUndispatched(j) ==
    /\ creation[j] = "undone"
    /\ publish(j, DoneEvent)
    /\ creation' = [creation EXCEPT ![j] = "over"]
    /\ UNCHANGED <<agentVars, row, held, reg, loop, msg, clean, current, sweep, view, counts>>

\* request_logs, as far as the agent sees it.
AskLogs ==
    /\ reg # 0 /\ asks < MaxAsks
    /\ SendTo(Command("get_logs", NoJob))
    /\ asks' = asks + 1
    /\ UNCHANGED <<creation, faults>>

\* sweep_stale: the SELECT, the UPDATEs, and what follows the commit.  A job
\* may be old enough at any time.
SelectStale ==
    /\ Sweeping /\ sweep.at = "idle"
    /\ \E ids \in SUBSET {j \in Job : row[j].status \in ActiveJob} \ {{}} :
         sweep' = [at |-> "update", ids |-> ids]
    /\ UNCHANGED <<agentVars, row, held, reg, loop, msg, clean, current, creation, viewing, counts>>

SweepStale ==
    /\ sweep.at = "update"
    /\ row' = [j \in Job |-> IF j \in sweep.ids
                             THEN [row[j] EXCEPT !.status = AfterSweep(@)] ELSE row[j]]
    /\ sweep' = [sweep EXCEPT !.at = "publish"]
    /\ UNCHANGED <<agentVars, held, reg, loop, msg, clean, current, creation, viewing, counts>>

PublishStale ==
    /\ sweep.at = "publish"
    /\ held' = [j \in Job |-> IF j \in sweep.ids THEN <<>> ELSE held[j]]
    /\ events' = [v \in Viewers |->
                    IF view[v].state = "open" /\ view[v].job \in sweep.ids
                    THEN Append(events[v], DoneEvent) ELSE events[v]]
    /\ sweep' = [at |-> "idle", ids |-> {}]
    /\ UNCHANGED <<agentVars, row, reg, loop, msg, clean, current, creation, view, counts>>

-----------------------------------------------------------------------------
(* job_output_ws: the live output of a job. *)

ReadJob(v, j) ==
    /\ view[v].state = "off" /\ row[j].status # "none"
    /\ view' = [view EXCEPT ![v].state = "read", ![v].job = j, ![v].row = row[j]]
    /\ UNCHANGED <<agentVars, server, events, counts>>

\* The snapshot is the row as it was read; the queue starts now.
Subscribe(v) ==
    /\ view[v].state = "read"
    /\ view' = [view EXCEPT ![v].state = IF view[v].row.status \in TerminalJob
                                        THEN "told" ELSE "open",
                            ![v].shown = view[v].row.output, ![v].row = NewRow]
    /\ UNCHANGED <<agentVars, server, events, counts>>

Show(v) ==
    /\ view[v].state = "open" /\ events[v] # <<>>
    /\ events' = [events EXCEPT ![v] = IF Head(@).type = "done" THEN <<>> ELSE Tail(@)]
    /\ view' = [view EXCEPT ![v].shown = @ \o Head(events[v]).chunk,
                            ![v].state = IF Head(events[v]).type = "done" THEN "told" ELSE @]
    /\ UNCHANGED <<agentVars, server, counts>>

Leave(v) ==
    /\ view[v].state = "open"
    /\ view' = [view EXCEPT ![v].state = "left"]
    /\ events' = [events EXCEPT ![v] = <<>>]
    /\ UNCHANGED <<agentVars, server, counts>>

-----------------------------------------------------------------------------
(* What goes wrong. *)

Fault == faults < MaxFaults /\ faults' = faults + 1 /\ UNCHANGED asks

SocketBreaks == Fault /\ Break /\ UNCHANGED <<server, viewing>>
AgentCrashes == Fault /\ AgentDies /\ UNCHANGED <<server, viewing>>

\* The socket of the current connection goes, with what was under way on it.
Dropped ==
    /\ intact' = FALSE
    /\ UNCHANGED <<conn, serve, down, reader, frame, outbox, jobVars>>

\* A statement raises: agent_ws leaves its loop and the connection ends.
LoopFails(c) ==
    /\ Fault /\ loop[c] \in {"mark", "append", "update", "finish"}
    /\ Idle(c, "closed") /\ current' = [current EXCEPT ![c] = <<>>]
    /\ reg' = IF reg = c THEN 0 ELSE reg
    /\ up' = [up EXCEPT ![c] = <<>>]
    /\ IF c = conn THEN Dropped ELSE UNCHANGED ExceptUp
    /\ UNCHANGED <<row, held, creation, sweep, viewing>>

\* The server restarts: what is in memory is lost, the tables stay.
Restart ==
    /\ Fault
    /\ Dropped /\ up' = [c \in Conn |-> <<>>]
    /\ held' = [j \in Job |-> <<>>] /\ reg' = 0
    /\ loop' = [c \in Conn |-> IF loop[c] = "none" THEN "none" ELSE "closed"]
    /\ creation' = [j \in Job |-> IF creation[j] = "new" THEN "new" ELSE "over"]
    /\ sweep' = [at |-> "idle", ids |-> {}]
    /\ view' = [v \in Viewers |-> IF view[v].state \in {"read", "open"}
                                  THEN [view[v] EXCEPT !.state = "left"] ELSE view[v]]
    /\ events' = [v \in Viewers |-> <<>>]
    /\ msg' = [c \in Conn |-> Logs]
    /\ clean' = [c \in Conn |-> <<>>] /\ current' = [c \in Conn |-> <<>>]
    /\ UNCHANGED row

Request(j) == \/ Create(j) \/ Dispatch(j) \/ DispatchFails(j)
              \/ Undispatched(j) \/ PublishUndispatched(j)
Sweep      == SelectStale \/ SweepStale \/ PublishStale
Watch(v)   == (\E j \in Job : ReadJob(v, j)) \/ Subscribe(v) \/ Show(v) \/ Leave(v)
Failure    == SocketBreaks \/ AgentCrashes \/ Restart \/ (\E c \in Conn : LoopFails(c))
Agent      == AgentStep /\ UNCHANGED <<server, viewing, counts>>

Next == \/ Connect \/ Agent \/ AskLogs \/ Sweep \/ Failure
        \/ \E c \in Conn : AgentSocket(c)
        \/ \E j \in Job : Request(j)
        \/ \E v \in Viewers : Watch(v)

Spec == Init /\ [][Next]_vars

\* The event loop runs every coroutine that can go on.
FairSpec == /\ Spec /\ AgentFairness
            /\ \A c \in Conn : WF_vars(AgentSocket(c))
            /\ \A j \in Job : WF_vars(Request(j) /\ ~Create(j))

-----------------------------------------------------------------------------
(* Properties. *)

Written(n) == [i \in 1 .. n |-> i]

\* A job that counts as done did end well on the machine, and its output is
\* all it wrote, in order and up to the cap: nothing of it was lost in the
\* outbox, on the wire, in the filter or between the connections.
FinishedWhole ==
    \A j \in Job : row[j].status = "done" =>
        /\ result[j] = "done" /\ at[j] \in {"rescan", "end"}
        /\ row[j].output = Capped(Written(wrote[j]))

\* At any time the stored output is a beginning of what the job wrote, with
\* no piece missing, doubled or displaced, or the reason it was never sent.
OutputInOrder ==
    \A j \in Job : IsPrefix(row[j].output, Written(wrote[j])) \/ row[j].output = <<0>>

\* A dashboard is told that a job is over only when the table says so, too.
ToldIsOver == \A v \in Viewers : view[v].state = "told" => Over(view[v].job)

\* Whatever the agent and the connections do, the status column keeps the
\* promise of JobLife, but for one step: the sweep may put timeout over a job
\* that has reported since it was selected.
Life == INSTANCE JobLife WITH status <- [j \in Job |-> row[j].status]

SweptLate(j) == /\ j \in sweep.ids /\ row[j].status \in TerminalJob
                /\ \A i \in Job : row'[i].status =
                     IF i \in sweep.ids THEN "timeout" ELSE row[i].status

LifeButLateSweep ==
    /\ Life!Init
    /\ [][Life!Next \/ \E j \in Job : SweptLate(j)]_[j \in Job |-> row[j].status]

\* The serve loop notices that its socket is dead, whatever its jobs have
\* queued: it never waits for itself.
NoticesBreak == (serve # "away" /\ ~intact) ~> (serve = "away" \/ intact)

\* A goroutine that runs a job comes to its end, with its connection or after it.
JobsReleased == \A j \in Job : (at[j] = "start") ~> (at[j] = "end")

\* No reader stays behind with a message nobody takes.
ReadersLeave == \A c \in Conn : (reader[c] = "hold") ~> (reader[c] # "hold")

\* Both loops of a connection (serve, readFrames) come to their end when it breaks.
LoopsReturn == NoticesBreak /\ ReadersLeave

\* Unless something fails, the end of a job on the machine reaches the table.
ResultArrives ==
    \A j \in Job : (at[j] = "result" /\ faults = 0) ~> (Over(j) \/ faults > 0)

=============================================================================
