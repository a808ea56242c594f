----------------------------- MODULE AgentLoop -----------------------------
(***************************************************************************)
(* The agent's side of the connection: agent/client.go, and the goroutines *)
(* of agent/jobs.go and agent/patches.go that report through it.           *)
(*                                                                         *)
(* A connection has one serve loop, which alone writes to the socket, one  *)
(* reader goroutine that hands it the server's messages, and an outbox     *)
(* with room for a few messages that the goroutines running jobs and scans *)
(* put their reports into.  The context of the connection ends when the    *)
(* loop returns; everything that waits for the loop waits for that, too.   *)
(*                                                                         *)
(* Heartbeats and inventories are written by the loop itself; here they    *)
(* matter only as writes that can fail.                                    *)
(***************************************************************************)
EXTENDS Naturals, Sequences

CONSTANTS
    Job,
    NoJob,
    Installs,   \* the jobs of kind patch_install
    Outbox,     \* outboxSize
    MaxConn,    \* connections the agent makes
    MaxChunk    \* pieces of output of one job

ASSUME AgentAssumption ==
    /\ Installs \subseteq Job /\ NoJob \notin Job
    /\ Outbox \in Nat \ {0} /\ MaxConn \in Nat /\ MaxChunk \in Nat

VARIABLES
    conn,     \* the last connection made; 0 before the first
    serve,    \* its loop: "select", "reply" (about to write an answer) or "away"
    intact,   \* does its socket still carry anything?
    up, down, \* what is on the wire, to the server per connection, and to the agent
    reader,   \* the reader goroutine of each connection
    frame,    \* what the reader of the current one holds
    outbox,   \* the current connection's sender
    at,       \* where the goroutine of each job is
    over,     \* the connection a job came over
    wrote,    \* pieces of output the job has written
    result    \* how the job ended on the machine

agentVars == <<conn, serve, intact, up, down, reader, frame, outbox, at, over, wrote, result>>
jobVars   == <<at, over, wrote, result>>
linkVars  == <<conn, intact, down, reader, frame>>

Conn   == 1 .. MaxConn
Result == {"done", "failed", "timeout"}

\* What the two ends say to each other, with the fields the kind has.
Message(type, j, chunk, status) ==
    [type |-> type, job |-> j, chunk |-> chunk, status |-> status]
Started(j)       == Message("job_started", j, 0, "done")
Output(j, chunk) == Message("job_output", j, chunk, "done")
Ended(j)         == Message("job_result", j, 0, result[j])
PatchReport      == Message("patch_report", NoJob, 0, "done")
Logs             == Message("agent_logs", NoJob, 0, "done")
ToServer == [type: {"job_started", "job_output", "job_result", "patch_report", "agent_logs"},
             job: Job \cup {NoJob}, chunk: Nat, status: Result]

Command(type, j) == [type |-> type, job |-> j]
NoFrame == Command("get_logs", NoJob)
ToAgent == [type: {"job", "get_logs"}, job: Job \cup {NoJob}]

AgentTypeOK ==
    /\ conn \in 0 .. MaxConn
    /\ serve \in {"select", "reply", "away"}
    /\ intact \in BOOLEAN
    /\ up \in [Conn -> Seq(ToServer)]
    /\ down \in Seq(ToAgent)
    /\ reader \in [Conn -> {"none", "read", "hold", "failed", "gone"}]
    /\ frame \in ToAgent
    /\ outbox \in Seq(ToServer)
    /\ at \in [Job -> {"idle", "start", "run", "result", "rescan", "end"}]
    /\ over \in [Job -> 0 .. MaxConn]
    /\ wrote \in [Job -> 0 .. MaxChunk]
    /\ result \in [Job -> Result]

AgentInit ==
    /\ conn = 0 /\ serve = "away" /\ intact = FALSE
    /\ up = [c \in Conn |-> <<>>] /\ down = <<>>
    /\ reader = [c \in Conn |-> "none"]
    /\ frame = NoFrame
    /\ outbox = <<>>
    /\ at = [j \in Job |-> "idle"] /\ over = [j \in Job |-> 0]
    /\ wrote = [j \in Job |-> 0] /\ result = [j \in Job |-> "done"]

\* The context of connection c has been cancelled.
Cancelled(c) == c # conn \/ serve = "away"

-----------------------------------------------------------------------------
(* The connection. *)

\* Reconnecting, after whatever backoff.
Dial ==
    /\ serve = "away" /\ conn < MaxConn
    /\ conn' = conn + 1
    /\ serve' = "select" /\ intact' = TRUE
    /\ reader' = [reader EXCEPT ![conn + 1] = "read"]
    /\ outbox' = <<>> /\ down' = <<>> /\ frame' = NoFrame
    /\ UNCHANGED <<up, jobVars>>

\* The socket dies, with some of what was under way in each direction.
Break ==
    /\ serve # "away" /\ intact
    /\ intact' = FALSE
    /\ \E sent \in 0 .. Len(up[conn]) : up' = [up EXCEPT ![conn] = SubSeq(@, 1, sent)]
    /\ \E got \in 0 .. Len(down) : down' = SubSeq(down, 1, got)
    /\ UNCHANGED <<conn, serve, reader, frame, outbox, jobVars>>

\* serve returns: the context is cancelled, then the socket closed.
LeaveServe ==
    /\ serve' = "away" /\ intact' = FALSE
    /\ outbox' = <<>> /\ down' = <<>>
    /\ UNCHANGED <<conn, reader, frame>>

\* A write into a broken socket may fail, or seem to succeed.
Write(m) ==
    /\ up' = IF intact THEN [up EXCEPT ![conn] = Append(@, m)] ELSE up
    /\ serve' = "select"

ServeReadError ==
    /\ serve = "select" /\ reader[conn] = "failed"
    /\ LeaveServe
    /\ UNCHANGED <<up, jobVars>>

\* Mutation: the newest report first.
ServeOutboxLast ==
    /\ serve = "select" /\ outbox # <<>>
    /\ Write(outbox[Len(outbox)])
    /\ outbox' = SubSeq(outbox, 1, Len(outbox) - 1)
    /\ UNCHANGED <<linkVars, jobVars>>

ServeOutbox ==
    /\ serve = "select" /\ outbox # <<>>
    /\ Write(Head(outbox))
    /\ outbox' = Tail(outbox)
    /\ UNCHANGED <<linkVars, jobVars>>

\* A heartbeat, an inventory or a report that cannot be written any more.
ServeWriteError ==
    /\ serve = "select" /\ ~intact
    /\ LeaveServe
    /\ UNCHANGED <<up, jobVars>>

\* The loop takes a message and dispatches it: a job gets a goroutine, a
\* request for logs an answer.
ServeFrame ==
    /\ serve = "select" /\ reader[conn] = "hold"
    /\ reader' = [reader EXCEPT ![conn] = "read"] /\ frame' = NoFrame
    /\ IF frame.type = "job"
       THEN /\ at' = [at EXCEPT ![frame.job] = "start"]
            /\ over' = [over EXCEPT ![frame.job] = conn]
            /\ UNCHANGED serve
       ELSE serve' = "reply" /\ UNCHANGED <<at, over>>
    /\ UNCHANGED <<conn, intact, up, down, outbox, wrote, result>>

Reply ==
    /\ serve = "reply"
    /\ \/ Write(Logs) /\ UNCHANGED <<linkVars, outbox>>
       \/ ~intact /\ LeaveServe /\ UNCHANGED up
    /\ UNCHANGED jobVars

-----------------------------------------------------------------------------
(* The reader goroutine of connection c. *)

ReadFrame ==
    /\ serve # "away" /\ reader[conn] = "read" /\ down # <<>>
    /\ reader' = [reader EXCEPT ![conn] = "hold"]
    /\ frame' = Head(down) /\ down' = Tail(down)
    /\ UNCHANGED <<conn, serve, intact, up, outbox, jobVars>>

\* The error fits into its channel, so the goroutine ends here in any case.
ReadError(c) ==
    /\ reader[c] = "read"
    /\ Cancelled(c) \/ (~intact /\ down = <<>>)
    /\ reader' = [reader EXCEPT ![c] = "failed"]
    /\ UNCHANGED <<conn, serve, intact, up, down, frame, outbox, jobVars>>

\* Mutation: a send that does not watch the context.
ReaderStays(c) == reader[c] = "hold" /\ FALSE /\ UNCHANGED agentVars

\* Nobody will take the message any more.
ReaderLeaves(c) ==
    /\ reader[c] = "hold" /\ Cancelled(c)
    /\ reader' = [reader EXCEPT ![c] = "gone"]
    /\ frame' = IF c = conn THEN NoFrame ELSE frame
    /\ UNCHANGED <<conn, serve, intact, up, down, outbox, jobVars>>

-----------------------------------------------------------------------------
(* The goroutine of job j: runJob, or runPatchInstall. *)

\* Mutation: a send that does not watch the context.
sendBlocking(j, m) ==
    /\ ~Cancelled(over[j]) /\ Len(outbox) < Outbox
    /\ outbox' = Append(outbox, m)
    /\ UNCHANGED <<linkVars, serve, up, over>>

\* Blocks while the outbox is full, but not beyond the connection's end.
send(j, m) ==
    /\ \/ Cancelled(over[j]) /\ UNCHANGED outbox
       \/ /\ ~Cancelled(over[j]) /\ Len(outbox) < Outbox
          /\ outbox' = Append(outbox, m)
    /\ UNCHANGED <<linkVars, serve, up, over>>

JobStarts(j) ==
    /\ at[j] = "start"
    /\ send(j, Started(j))
    /\ at' = [at EXCEPT ![j] = "run"]
    /\ UNCHANGED <<wrote, result>>

JobWrites(j) ==
    /\ at[j] = "run" /\ wrote[j] < MaxChunk
    /\ send(j, Output(j, wrote[j] + 1))
    /\ wrote' = [wrote EXCEPT ![j] = @ + 1]
    /\ UNCHANGED <<at, result>>

\* The command ends by itself, or is killed at its limit or with the connection.
JobExits(j) ==
    /\ at[j] = "run"
    /\ at' = [at EXCEPT ![j] = "result"]
    /\ \E r \in {"done", "timeout"} : result' = [result EXCEPT ![j] = r]
    /\ UNCHANGED <<linkVars, serve, up, outbox, over, wrote>>

\* A command that could not be started, or an installation that failed at any
\* point: the output says why.
JobFails(j) ==
    /\ at[j] = "run" /\ wrote[j] < MaxChunk
    /\ j \in Installs \/ wrote[j] = 0
    /\ send(j, Output(j, wrote[j] + 1))
    /\ wrote' = [wrote EXCEPT ![j] = @ + 1]
    /\ result' = [result EXCEPT ![j] = "failed"]
    /\ at' = [at EXCEPT ![j] = "result"]

JobReports(j) ==
    /\ at[j] = "result"
    /\ send(j, Ended(j))
    /\ at' = [at EXCEPT ![j] = IF j \in Installs THEN "rescan" ELSE "end"]
    /\ UNCHANGED <<wrote, result>>

\* An install scans once more and sends the list.
JobRescans(j) ==
    /\ at[j] = "rescan"
    /\ send(j, PatchReport)
    /\ at' = [at EXCEPT ![j] = "end"]
    /\ UNCHANGED <<wrote, result>>

JobStep(j) == \/ JobStarts(j) \/ JobWrites(j) \/ JobExits(j)
              \/ JobFails(j) \/ JobReports(j) \/ JobRescans(j)

\* The process of the agent ends, and with it all goroutines and what they run.
AgentDies ==
    /\ serve # "away"
    /\ serve' = "away" /\ intact' = FALSE /\ outbox' = <<>> /\ down' = <<>>
    /\ \E sent \in 0 .. Len(up[conn]) : up' = [up EXCEPT ![conn] = SubSeq(@, 1, sent)]
    /\ reader' = [c \in Conn |-> IF reader[c] = "none" THEN "none" ELSE "gone"]
    /\ at' = [j \in Job |-> IF at[j] = "idle" THEN "idle" ELSE "end"]
    /\ frame' = NoFrame
    /\ UNCHANGED <<conn, over, wrote, result>>

ServeStep  == \/ ServeReadError \/ ServeOutbox \/ ServeWriteError \/ ServeFrame \/ Reply
ReaderStep == ReadFrame \/ (\E c \in Conn : ReadError(c) \/ ReaderLeaves(c))
AgentStep  == ServeStep \/ ReaderStep \/ (\E j \in Job : JobStep(j))

\* The goroutines of the agent are scheduled, a command ends (its limit sees
\* to that), and select takes every ready case sooner or later.
AgentFairness ==
    /\ WF_agentVars(Dial)
    /\ WF_agentVars(ServeReadError) /\ WF_agentVars(ServeOutbox)
    /\ WF_agentVars(ServeWriteError) /\ WF_agentVars(ServeFrame) /\ WF_agentVars(Reply)
    /\ WF_agentVars(ReadFrame)
    /\ \A c \in Conn : WF_agentVars(ReadError(c)) /\ WF_agentVars(ReaderLeaves(c))
    /\ \A j \in Job : /\ WF_agentVars(JobStarts(j))
                      /\ WF_agentVars(JobExits(j) \/ JobFails(j))
                      /\ WF_agentVars(JobReports(j)) /\ WF_agentVars(JobRescans(j))
=============================================================================
