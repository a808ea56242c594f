------------------------------ MODULE JobPanel ------------------------------
(***************************************************************************)
(* The live output of a job on the dashboard: the server's side of its     *)
(* socket (job_output_ws and the hub), useJobStream with its retries, and  *)
(* JobConsole, which tells its page when the job has ended.                *)
(*                                                                         *)
(* The server writes a job's row first and publishes the change later, and *)
(* a socket reads the row first and subscribes later: each of the four is  *)
(* a step of its own.  React runs effects some time after the render they  *)
(* belong to, so the socket of the job before still delivers until then.   *)
(* A job's writer is its agent's loop; the sweep is JobChannel's.          *)
(***************************************************************************)
EXTENDS Naturals, Sequences

CONSTANTS
    Job, NoJob,  \* jobs of the device, and none attached
    Pieces,      \* pieces of output a job writes at most
    MaxBreaks    \* sockets that break

ASSUME PanelAssumption == NoJob \notin Job /\ Pieces \in Nat /\ MaxBreaks \in Nat

VARIABLES
    job,       \* the table: written pieces and status of each job
    heard,     \* how much of each row the hub has published
    attached,  \* the panel's jobId, as rendered
    watching,  \* the job the socket effect runs for
    shown,     \* JobStreamState: output, status, connected
    mirrored,  \* statusRef
    jobSock,   \* "none", "connecting", "up", "read", "open", "waiting", or "refused" for good
    snap,      \* the row that job_output_ws has read and not sent yet
    wire,      \* what the server has sent over the socket
    told,      \* onFinished calls: the job and the status it was told with
    finished,  \* finishedRef
    breaks,
    \* History: did the socket lose or double a piece, or miss the end, by
    \* subscribing later than it read; what is shown came over a whole or a
    \* torn stream or, as strays, of another job; jobs told a stray end.
    torn, deaf, seam, misled

jobTable == <<job, heard>>
jobSocket == <<jobSock, snap, wire, torn, deaf>>
panelVars == <<jobTable, attached, watching, shown, mirrored, jobSocket, told, finished, breaks, seam, misled>>

-----------------------------------------------------------------------------
EndStatus == {"done", "failed"}
Status == {"queued", "running"} \cup EndStatus
NotYet == "unknown"
Shown == [output: Seq(1 .. Pieces), status: Status \cup {NotYet}, connected: BOOLEAN]
Empty == [output |-> <<>>, status |-> NotYet, connected |-> FALSE]
JobRow == [pieces: 0 .. Pieces, status: Status]
NewRow == [pieces |-> 0, status |-> "queued"]
Message == [type: {"snapshot"}, pieces: 0 .. Pieces, status: Status]
             \cup [type: {"output"}, piece: 1 .. Pieces]
             \cup [type: {"status"}, status: Status] \cup [type: {"done"}, status: EndStatus]
SockState == {"none", "connecting", "up", "read", "open", "waiting", "refused"}

PanelTypeOK ==
    /\ job \in [Job -> JobRow] /\ heard \in [Job -> JobRow]
    /\ {attached, watching, finished} \subseteq Job \cup {NoJob}
    /\ shown \in Shown /\ mirrored \in Status \cup {NotYet}
    /\ jobSock \in SockState /\ snap \in JobRow /\ wire \in Seq(Message)
    /\ told \subseteq Job \X EndStatus /\ breaks \in 0 .. MaxBreaks
    /\ torn \in BOOLEAN /\ deaf \in BOOLEAN /\ seam \in {"whole", "torn", "stray"} /\ misled \subseteq Job

PanelInit ==
    /\ job = [j \in Job |-> NewRow] /\ heard = job
    /\ attached = NoJob /\ watching = NoJob /\ shown = Empty /\ mirrored = NotYet
    /\ jobSock = "none" /\ snap = NewRow /\ wire = <<>> /\ told = {} /\ finished = NoJob /\ breaks = 0
    /\ torn = FALSE /\ deaf = FALSE /\ seam = "whole" /\ misled = {}

-----------------------------------------------------------------------------
(* The server.  A job's row is committed, its connection given back, and   *)
(* only then the subscribed sockets hear of it.                            *)

Commit(j, new) ==
    /\ heard[j] = job[j] /\ job' = [job EXCEPT ![j] = new]
    /\ UNCHANGED <<heard, attached, watching, shown, mirrored, jobSocket, told, finished, breaks, seam, misled>>

JobRuns(j) == job[j].status = "queued" /\ Commit(j, [job[j] EXCEPT !.status = "running"])

JobPrints(j) ==
    /\ job[j].status = "running" /\ job[j].pieces < Pieces
    /\ Commit(j, [job[j] EXCEPT !.pieces = @ + 1])

JobStops(j) ==
    /\ job[j].status \notin EndStatus
    /\ \E s \in EndStatus : Commit(j, [job[j] EXCEPT !.status = s])

MessageOf(j) ==
    IF job[j].pieces # heard[j].pieces THEN [type |-> "output", piece |-> job[j].pieces]
    ELSE [type |-> IF job[j].status \in EndStatus THEN "done" ELSE "status", status |-> job[j].status]

\* The handler returns once it has sent the end, and unsubscribes.
Subscribed(j) ==
    jobSock = "open" /\ watching = j /\ \A i \in 1 .. Len(wire) : wire[i].type # "done"

Publish(j) ==
    /\ heard[j] # job[j] /\ heard' = [heard EXCEPT ![j] = job[j]]
    /\ wire' = IF Subscribed(j) THEN Append(wire, MessageOf(j)) ELSE wire
    /\ UNCHANGED <<job, attached, watching, shown, mirrored, jobSock, snap, told, finished, breaks>>
    /\ UNCHANGED <<torn, deaf, seam, misled>>

SocketReads ==
    /\ jobSock = "up" /\ jobSock' = "read" /\ snap' = job[watching]
    /\ UNCHANGED <<jobTable, attached, watching, shown, mirrored, wire, told, finished, breaks>>
    /\ UNCHANGED <<torn, deaf, seam, misled>>

\* The connection has been given back in between; then the snapshot is sent,
\* and of a job that is over its end.
Subscribe ==
    /\ jobSock = "read" /\ jobSock' = "open" /\ snap' = NewRow
    /\ wire' = <<[type |-> "snapshot", pieces |-> snap.pieces, status |-> snap.status]>>
                 \o IF snap.status \in EndStatus THEN <<[type |-> "done", status |-> snap.status]>> ELSE <<>>
    /\ torn' = (snap.pieces # heard[watching].pieces)
    /\ deaf' = (snap.status \notin EndStatus /\ heard[watching].status \in EndStatus)
    /\ UNCHANGED <<jobTable, attached, watching, shown, mirrored, told, finished, breaks, seam, misled>>

-----------------------------------------------------------------------------
(* The panel.                                                              *)

\* Another job, or none: what is shown is reset in the same render.  The
\* effects of a render have run before the next one.
Attach(j) ==
    /\ attached = watching /\ j # attached /\ attached' = j
    /\ shown' = Empty /\ seam' = "whole"
    /\ UNCHANGED <<jobTable, watching, mirrored, jobSocket, told, finished, breaks, misled>>

\* The effects of that render: the status shown is mirrored, the socket of
\* the job before is closed with its retry, and one for the new job opened.
Rewatch ==
    /\ watching # attached /\ watching' = attached /\ mirrored' = NotYet
    /\ jobSock' = IF attached = NoJob THEN "none" ELSE "connecting"
    /\ snap' = NewRow /\ wire' = <<>> /\ torn' = FALSE /\ deaf' = FALSE
    /\ UNCHANGED <<jobTable, attached, shown, told, finished, breaks, seam, misled>>

\* accept() and onopen.
SocketUp ==
    /\ jobSock = "connecting" /\ jobSock' = "up"
    /\ shown' = [shown EXCEPT !.connected = TRUE]
    /\ UNCHANGED <<jobTable, attached, watching, mirrored, snap, wire, torn, deaf, told, finished, breaks>>
    /\ UNCHANGED <<seam, misled>>

FirstPieces(n) == [i \in 1 .. n |-> i]

AfterMessageAppends(m) ==
    CASE m.type = "snapshot" ->
           [output |-> shown.output \o FirstPieces(m.pieces), status |-> m.status, connected |-> TRUE]
      [] m.type = "output"   -> [shown EXCEPT !.output = Append(@, m.piece)]
      [] OTHER               -> [shown EXCEPT !.status = m.status]
\* A snapshot replaces what is shown: after a reconnect it holds it all.
AfterMessage(m) ==
    CASE m.type = "snapshot" -> [output |-> FirstPieces(m.pieces), status |-> m.status, connected |-> TRUE]
      [] m.type = "output"   -> [shown EXCEPT !.output = Append(@, m.piece)]
      [] m.type = "status"   -> [shown EXCEPT !.status = m.status]
      [] m.type = "done"     -> [shown EXCEPT !.status = m.status, !.connected = TRUE]

\* onmessage: "done" closes the socket for good.
Receive ==
    /\ jobSock = "open" /\ wire # <<>>
    /\ shown' = AfterMessage(Head(wire))
    /\ seam' = IF watching # attached THEN "stray"
               ELSE IF Head(wire).type # "snapshot" THEN seam
               ELSE IF torn THEN "torn" ELSE "whole"
    /\ IF Head(wire).type = "done" THEN jobSock' = "none" /\ wire' = <<>>
                                   ELSE jobSock' = jobSock /\ wire' = Tail(wire)
    /\ UNCHANGED <<jobTable, attached, watching, mirrored, snap, torn, deaf, told, finished, breaks, misled>>

\* The effects of a render of what has come: the mirror, and JobConsole's.
PanelEffects ==
    /\ watching = attached /\ mirrored' = shown.status
    /\ IF attached # NoJob /\ shown.status \in EndStatus /\ finished # attached
         THEN /\ told' = told \cup {<<attached, shown.status>>} /\ finished' = attached
              /\ misled' = IF seam = "stray" THEN misled \cup {attached} ELSE misled
         ELSE UNCHANGED <<told, finished, misled>>
    /\ UNCHANGED <<jobTable, attached, watching, shown, jobSocket, breaks, seam>>

\* onclose: over once the end is known; else the backoff, unless the close
\* code says that asking again changes nothing.
ClosedAlways(final) ==
    /\ snap' = NewRow /\ wire' = <<>> /\ torn' = FALSE /\ deaf' = FALSE
    /\ jobSock' = "none" /\ shown' = [shown EXCEPT !.connected = FALSE]
    /\ UNCHANGED <<jobTable, attached, watching, mirrored, told, finished, seam, misled>>
Closed(final) ==
    /\ snap' = NewRow /\ wire' = <<>> /\ torn' = FALSE /\ deaf' = FALSE
    /\ IF mirrored \in EndStatus
         THEN jobSock' = "none" /\ UNCHANGED shown
         ELSE /\ jobSock' = IF final THEN "refused" ELSE "waiting"
              /\ shown' = [shown EXCEPT !.connected = FALSE]
    /\ UNCHANGED <<jobTable, attached, watching, mirrored, told, finished, seam, misled>>

\* The network, or the handler: no session, no right, no such job.
PanelSocketBreaks ==
    /\ jobSock \in {"connecting", "up", "read", "open"} /\ breaks < MaxBreaks /\ breaks' = breaks + 1
    /\ \E final \in BOOLEAN : (final => jobSock = "up") /\ Closed(final)

PanelRetries ==
    /\ jobSock = "waiting" /\ jobSock' = "connecting"
    /\ UNCHANGED <<jobTable, attached, watching, shown, mirrored, snap, wire, told, finished, breaks>>
    /\ UNCHANGED <<torn, deaf, seam, misled>>

-----------------------------------------------------------------------------
PanelNext ==
    \/ \E j \in Job : JobRuns(j) \/ JobPrints(j) \/ JobStops(j) \/ Publish(j)
    \/ \E j \in Job \cup {NoJob} : Attach(j)
    \/ SocketUp \/ SocketReads \/ Subscribe \/ Receive
    \/ Rewatch \/ PanelEffects
    \/ PanelSocketBreaks \/ PanelRetries

PanelSpec == PanelInit /\ [][PanelNext]_panelVars

-----------------------------------------------------------------------------
(* Properties.                                                             *)

\* What is shown are the first pieces of the panel's own job, each once.
OutputFaithful ==
    /\ shown.output = FirstPieces(Len(shown.output))
    /\ attached # NoJob => Len(shown.output) <= job[attached].pieces
    /\ attached = NoJob => shown.output = <<>>

EndTold(t) == job[t[1]].status = t[2]

\* Whatever breaks and is replayed, and whichever job comes next, the panel
\* shows the first pieces of its own job in order and tells its page no end
\* but that job's: save for what a socket loses or doubles because it reads
\* first and subscribes later, until the next snapshot, and for messages of
\* the job before that come between the render and its effects (job_output_ws,
\* useJobStream, JobConsole's onFinished).
PanelFaithful ==
    /\ seam = "whole" => OutputFaithful
    /\ \A t \in told : t[1] \notin misled => EndTold(t)

\* Whoever goes on watching is told in the end, unless the server has closed
\* the socket for good, or the end was published to nobody: after the socket
\* had read the row, before it subscribed (useJobStream's retries).
EndIsTold ==
    \A j \in Job :
        <>[](attached = j /\ jobSock # "refused" /\ ~(jobSock = "open" /\ deaf))
            => <>(\E s \in EndStatus : <<j, s>> \in told)
=============================================================================
