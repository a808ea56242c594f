-------------------------- MODULE JobChannelProofs --------------------------
(***************************************************************************)
(* Proofs about JobChannel: types, that a dashboard is told of no end the  *)
(* table does not have, and that the table implements JobLife, for any     *)
(* jobs, connections, dashboards, amounts of output and faults.            *)
(*                                                                         *)
(* All three rest on what a job may be named in: the agent knows only jobs *)
(* whose request is over, the server hears only of jobs the agent has      *)
(* begun, and so whatever arrives late finds a row.                        *)
(***************************************************************************)
EXTENDS JobChannel, TLAPS

\* The jobs a goroutine has been started for, and those whose request is over.
Begun == {j \in Job : at[j] # "idle"}
Sent  == {j \in Job : creation[j] = "over"}

\* What the two ends may have said, given the jobs they know.
JobReport   == {"job_started", "job_output", "job_result"}
Reports(js)  == {m \in ToServer : m.chunk \in Piece /\ (m.type \in JobReport => m.job \in js)}
Commands(js) == {f \in ToAgent : f.type = "job" => f.job \in js}

\* Where the agent's loop and goroutines are.
AgentPlaces ==
    /\ conn \in 0 .. MaxConn
    /\ serve \in {"select", "reply", "away"} /\ (serve # "away" => conn # 0)
    /\ intact \in BOOLEAN
    /\ reader \in [Conn -> {"none", "read", "hold", "failed", "gone"}]
    /\ at \in [Job -> {"idle", "start", "run", "result", "rescan", "end"}]
    /\ over \in [Job -> 0 .. MaxConn]
    /\ wrote \in [Job -> 0 .. MaxChunk]
    /\ result \in [Job -> Result]

\* The agent's side names only jobs the server has sent.
AgentInv ==
    /\ AgentPlaces
    /\ up \in [Conn -> Seq(Reports(Begun))] /\ outbox \in Seq(Reports(Begun))
    /\ down \in Seq(Commands(Sent)) /\ frame \in Commands(Sent)
    /\ Begun \subseteq Sent

\* TypeOK without the agent's variables.
ServerTypeOK ==
    /\ row \in [Job -> Row]
    /\ held \in [Job -> Seq(Piece)]
    /\ reg \in 0 .. MaxConn
    /\ loop \in [Conn -> {"none", "receive", "mark", "append", "update", "publish",
                          "finish", "done", "closed"}]
    /\ msg \in [Conn -> ToServer]
    /\ clean \in [Conn -> Seq(Piece)] /\ current \in [Conn -> Seq(Piece)]
    /\ creation \in [Job -> {"new", "send", "undo", "undone", "over"}]
    /\ sweep \in [at: {"idle", "update", "publish"}, ids: SUBSET Job]
    /\ asks \in 0 .. MaxAsks /\ faults \in 0 .. MaxFaults

ViewTypeOK == view \in [Viewers -> View] /\ events \in [Viewers -> Seq(Event)]

\* A receive loop at work has a message about a job the agent has begun, and
\* says that a job is over only after it has written so.
Working == {"mark", "append", "update", "publish", "finish", "done"}
LoopInv ==
    \A c \in Conn :
        /\ loop[c] \in Working => msg[c] \in Reports(Begun) /\ msg[c].type \in JobReport
        /\ loop[c] = "done" => Over(msg[c].job)

\* The row of a job while its request is under way.
RowInv ==
    \A j \in Job :
        /\ creation[j] = "new" <=> row[j].status = "none"
        /\ creation[j] \in {"send", "undo"} => row[j].status \in {"queued", "timeout"}
        /\ creation[j] = "undone" => Over(j)

\* The sweep works on rows there are, and tells of those it has written.
SweepInv ==
    \A j \in sweep.ids : row[j].status # "none" /\ (sweep.at = "publish" => Over(j))

\* What a dashboard has seen, or is going to see, of the end of its job is so.
ViewInv ==
    \A v \in Viewers :
        /\ view[v].state # "off" => view[v].job \in Job
        /\ view[v].state # "open" => events[v] = <<>>
        /\ view[v].state = "read" /\ view[v].row.status \in TerminalJob => Over(view[v].job)
        /\ view[v].state = "told" => Over(view[v].job)
        /\ \A i \in 1 .. Len(events[v]) : events[v][i].type = "done" => Over(view[v].job)

Inv == AgentInv /\ ServerTypeOK /\ ViewTypeOK /\ LoopInv /\ RowInv /\ SweepInv /\ ViewInv

-----------------------------------------------------------------------------
(* Sequences and messages. *)

LEMMA SeqParts ==
    ASSUME NEW S, NEW s \in Seq(S)
    PROVE  /\ \A x \in S : Append(s, x) \in Seq(S)
           /\ s # <<>> => Head(s) \in S /\ Tail(s) \in Seq(S)
           /\ \A n \in 0 .. Len(s) : SubSeq(s, 1, n) \in Seq(S)
<1>1. \A n \in 0 .. Len(s) : SubSeq(s, 1, n) \in Seq(S)
  OBVIOUS
<1> QED
  BY <1>1

LEMMA SeqWider ==
    ASSUME NEW S, NEW T, S \subseteq T, NEW s \in Seq(S)
    PROVE  s \in Seq(T)
OBVIOUS

\* Knowing more jobs forbids nothing that has been said.
LEMMA KnowMore ==
    ASSUME NEW js, NEW ks, js \subseteq ks
    PROVE  /\ Reports(js) \subseteq Reports(ks)
           /\ Commands(js) \subseteq Commands(ks)
BY DEF Reports, Commands

\* What the goroutines say.
LEMMA JobSays ==
    ASSUME AgentPlaces, NEW js, NEW j \in Job, j \in js
    PROVE  /\ Started(j) \in Reports(js)
           /\ \A chunk \in Piece : Output(j, chunk) \in Reports(js)
           /\ Ended(j) \in Reports(js)
           /\ PatchReport \in Reports(js)
BY AgentAssumption
DEF AgentPlaces, Started, Output, Ended, PatchReport, Message, Reports, ToServer, Result,
    JobReport, Piece

LEMMA LogsSay == ASSUME NEW js PROVE Logs \in Reports(js) /\ Logs \in ToServer
BY AgentAssumption DEF Logs, Message, Reports, ToServer, Result, JobReport, Piece

LEMMA NoFrameSays == ASSUME NEW js PROVE NoFrame \in Commands(js) /\ NoFrame \in ToAgent
BY DEF NoFrame, Command, Commands, ToAgent

\* A message on the wire is one of the type.
LEMMA SaidIsTyped ==
    ASSUME NEW js
    PROVE  Reports(js) \subseteq ToServer /\ Commands(js) \subseteq ToAgent
BY DEF Reports, Commands

\* The type invariant of the agent is in it.
LEMMA AgentTyped == AgentInv => AgentTypeOK
<1> SUFFICES ASSUME AgentInv PROVE AgentTypeOK
  OBVIOUS
<1>1. up \in [Conn -> Seq(ToServer)]
  <2>1. \A c \in Conn : up[c] \in Seq(ToServer)
    BY SeqWider, SaidIsTyped DEF AgentInv
  <2> QED
    BY <2>1 DEF AgentInv
<1>2. outbox \in Seq(ToServer) /\ down \in Seq(ToAgent) /\ frame \in ToAgent
  BY SeqWider, SaidIsTyped DEF AgentInv
<1> QED
  BY <1>1, <1>2 DEF AgentInv, AgentPlaces, AgentTypeOK

\* What was said stays sayable while more jobs are sent and begun.
LEMMA WireWider ==
    ASSUME AgentPlaces', Begun \subseteq Begun', Sent \subseteq Sent', Begun' \subseteq Sent',
           up' \in [Conn -> Seq(Reports(Begun))], outbox' \in Seq(Reports(Begun)),
           down' \in Seq(Commands(Sent)), frame' \in Commands(Sent)
    PROVE  AgentInv'
<1>1. Reports(Begun) \subseteq Reports(Begun') /\ Commands(Sent) \subseteq Commands(Sent')
  BY KnowMore
<1>2. up' \in [Conn -> Seq(Reports(Begun'))]
  <2>1. \A c \in Conn : up'[c] \in Seq(Reports(Begun'))
    BY <1>1, SeqWider
  <2> QED
    BY <2>1
<1>3. outbox' \in Seq(Reports(Begun')) /\ down' \in Seq(Commands(Sent'))
  BY <1>1, SeqWider
<1>4. frame' \in Commands(Sent')
  BY <1>1
<1>5. Reports(Begun)' = Reports(Begun') /\ Commands(Sent)' = Commands(Sent')
  BY DEF Reports, Commands
<1> QED
  BY <1>2, <1>3, <1>4, <1>5 DEF AgentInv

LEMMA AgentSame ==
    ASSUME AgentInv, UNCHANGED agentVars, Sent \subseteq Sent'
    PROVE  AgentInv' /\ Begun' = Begun
<1>1. Begun' = Begun
  BY DEF Begun, agentVars
<1>2. AgentPlaces'
  BY DEF AgentInv, AgentPlaces, agentVars
<1> QED
  BY <1>1, <1>2, WireWider DEF AgentInv, agentVars

-----------------------------------------------------------------------------
(* The steps of the agent. *)

\* The lemma for what an agent's step has to keep.
Kept == AgentInv' /\ Begun \subseteq Begun'

LEMMA WriteKeeps ==
    ASSUME AgentInv, serve # "away", NEW m \in Reports(Begun), Write(m)
    PROVE  up' \in [Conn -> Seq(Reports(Begun))]
<1>1. conn \in Conn
  BY DEF AgentInv, AgentPlaces, Conn
<1>2. Append(up[conn], m) \in Seq(Reports(Begun))
  BY <1>1, SeqParts DEF AgentInv
<1> QED
  BY <1>1, <1>2 DEF Write, AgentInv

\* What is cut off the wire is cut off its end.
LEMMA CutKeeps ==
    ASSUME AgentInv, NEW sent \in 0 .. Len(up[conn]), serve # "away",
           up' = [up EXCEPT ![conn] = SubSeq(@, 1, sent)]
    PROVE  up' \in [Conn -> Seq(Reports(Begun))]
<1>1. conn \in Conn
  BY DEF AgentInv, AgentPlaces, Conn
<1>2. SubSeq(up[conn], 1, sent) \in Seq(Reports(Begun))
  BY <1>1, SeqParts DEF AgentInv
<1> QED
  BY <1>1, <1>2 DEF AgentInv

LEMMA SendKeeps ==
    ASSUME AgentInv, NEW j \in Job, NEW m \in Reports(Begun), send(j, m)
    PROVE  outbox' \in Seq(Reports(Begun))
BY SeqParts DEF send, AgentInv

LEMMA EmptyWire == ASSUME NEW S PROVE <<>> \in Seq(S)
OBVIOUS

LEMMA DialKeeps ==
    ASSUME AgentInv, Dial, UNCHANGED creation
    PROVE  Kept
<1>1. Begun' = Begun /\ Sent' = Sent
  BY DEF Begun, Sent, Dial, jobVars
<1>2. AgentPlaces'
  BY AgentAssumption DEF AgentInv, AgentPlaces, Dial, jobVars, Conn
<1>3. up' \in [Conn -> Seq(Reports(Begun))] /\ outbox' \in Seq(Reports(Begun))
  BY EmptyWire DEF AgentInv, Dial
<1>4. down' \in Seq(Commands(Sent)) /\ frame' \in Commands(Sent)
  BY EmptyWire, NoFrameSays DEF Dial
<1> QED
  BY <1>1, <1>2, <1>3, <1>4, WireWider DEF Kept, AgentInv

LEMMA BreakKeeps ==
    ASSUME AgentInv, Break, UNCHANGED creation
    PROVE  Kept
<1>1. Begun' = Begun /\ Sent' = Sent
  BY DEF Begun, Sent, Break, jobVars
<1>2. AgentPlaces'
  BY DEF AgentInv, AgentPlaces, Break, jobVars
<1>3. up' \in [Conn -> Seq(Reports(Begun))]
  BY CutKeeps DEF Break
<1>4. down' \in Seq(Commands(Sent))
  BY SeqParts DEF Break, AgentInv
<1> QED
  BY <1>1, <1>2, <1>3, <1>4, WireWider DEF Kept, AgentInv, Break

LEMMA DeathKeeps ==
    ASSUME AgentInv, AgentDies, UNCHANGED creation
    PROVE  Kept
<1>1. Begun' = Begun /\ Sent' = Sent
  BY DEF Begun, Sent, AgentDies, AgentInv, AgentPlaces
<1>2. AgentPlaces'
  BY DEF AgentInv, AgentPlaces, AgentDies
<1>3. up' \in [Conn -> Seq(Reports(Begun))]
  BY CutKeeps DEF AgentDies
<1>4. /\ outbox' \in Seq(Reports(Begun)) /\ down' \in Seq(Commands(Sent))
      /\ frame' \in Commands(Sent)
  BY EmptyWire, NoFrameSays DEF AgentDies
<1> QED
  BY <1>1, <1>2, <1>3, <1>4, WireWider DEF Kept, AgentInv

LEMMA ServeKeeps ==
    ASSUME AgentInv, ServeStep, UNCHANGED creation
    PROVE  Kept
<1>0. Sent' = Sent
  BY DEF Sent
<1>1. CASE ServeReadError \/ ServeWriteError
  <2>1. Begun' = Begun /\ AgentPlaces'
    BY <1>1 DEF ServeReadError, ServeWriteError, LeaveServe, jobVars, Begun, AgentInv, AgentPlaces
  <2>2. outbox' = <<>> /\ down' = <<>> /\ frame' = frame /\ up' = up
    BY <1>1 DEF ServeReadError, ServeWriteError, LeaveServe
  <2> QED
    BY <1>0, <2>1, <2>2, EmptyWire, WireWider DEF Kept, AgentInv
<1>2. CASE ServeOutbox
  <2>1. Begun' = Begun /\ AgentPlaces' /\ down' = down /\ frame' = frame
    BY <1>2 DEF ServeOutbox, Write, linkVars, jobVars, Begun, AgentInv, AgentPlaces
  <2>2. Head(outbox) \in Reports(Begun) /\ outbox' \in Seq(Reports(Begun))
    BY <1>2, SeqParts DEF ServeOutbox, AgentInv
  <2>4. up' \in [Conn -> Seq(Reports(Begun))]
    BY <1>2, <2>2, WriteKeeps DEF ServeOutbox
  <2> QED
    BY <1>0, <2>1, <2>2, <2>4, WireWider DEF Kept, AgentInv
<1>3. CASE ServeFrame
  <2>1. conn \in Conn
    BY <1>3 DEF ServeFrame, AgentInv, AgentPlaces, Conn
  <2>2. frame.type = "job" => frame.job \in Sent
    BY DEF AgentInv, Commands
  <2>4. AgentPlaces'
    BY <1>3, <2>1, <2>2 DEF ServeFrame, AgentInv, AgentPlaces, Sent
  <2>3. Begun \subseteq Begun' /\ Begun' \subseteq Sent
    BY <1>3, <2>2 DEF ServeFrame, AgentInv, AgentPlaces, Begun, Sent
  <2>5. up' = up /\ outbox' = outbox /\ down' = down /\ frame' \in Commands(Sent)
    BY <1>3, NoFrameSays DEF ServeFrame
  <2> QED
    BY <1>0, <2>4, <2>3, <2>5, WireWider DEF Kept, AgentInv
<1>4. CASE Reply
  <2>1. Begun' = Begun /\ AgentPlaces' /\ frame' = frame
    BY <1>4 DEF Reply, Write, LeaveServe, linkVars, jobVars, Begun, AgentInv, AgentPlaces
  <2>2. up' \in [Conn -> Seq(Reports(Begun))]
    BY <1>4, WriteKeeps, LogsSay DEF Reply, AgentInv
  <2>4. outbox' \in Seq(Reports(Begun)) /\ down' \in Seq(Commands(Sent))
    BY <1>4, EmptyWire DEF Reply, LeaveServe, linkVars, AgentInv
  <2> QED
    BY <1>0, <2>1, <2>2, <2>4, WireWider DEF Kept, AgentInv
<1> QED
  BY <1>1, <1>2, <1>3, <1>4 DEF ServeStep

LEMMA ReaderKeeps ==
    ASSUME AgentInv, ReaderStep, UNCHANGED creation
    PROVE  Kept
<1>1. Begun' = Begun /\ Sent' = Sent
  BY DEF ReaderStep, ReadFrame, ReadError, ReaderLeaves, jobVars, Begun, Sent
<1>2. AgentPlaces'
  BY DEF ReaderStep, ReadFrame, ReadError, ReaderLeaves, jobVars, AgentInv, AgentPlaces
<1>3. up' = up /\ outbox' = outbox
  BY DEF ReaderStep, ReadFrame, ReadError, ReaderLeaves
<1>4. down' \in Seq(Commands(Sent)) /\ frame' \in Commands(Sent)
  <2>1. CASE ReadFrame
    <3>1. Head(down) \in Commands(Sent) /\ Tail(down) \in Seq(Commands(Sent))
      BY <2>1, SeqParts DEF ReadFrame, AgentInv
    <3> QED
      BY <2>1, <3>1 DEF ReadFrame
  <2>2. CASE \E c \in Conn : ReadError(c) \/ ReaderLeaves(c)
    BY <2>2, NoFrameSays DEF ReadError, ReaderLeaves, AgentInv
  <2> QED
    BY <2>1, <2>2 DEF ReaderStep
<1> QED
  BY <1>1, <1>2, <1>3, <1>4, WireWider DEF Kept, AgentInv

LEMMA JobKeeps ==
    ASSUME AgentInv, NEW j \in Job, JobStep(j), UNCHANGED creation
    PROVE  Kept
<1>1. j \in Begun
  BY DEF JobStep, JobStarts, JobWrites, JobExits, JobFails, JobReports, JobRescans, Begun
<1>2. Begun' = Begun /\ Sent' = Sent
  BY <1>1 DEF JobStep, JobStarts, JobWrites, JobExits, JobFails, JobReports, JobRescans,
              Begun, Sent, AgentInv, AgentPlaces
<1>3. AgentPlaces'
  <2>1. /\ conn' = conn /\ serve' = serve /\ intact' = intact /\ reader' = reader
        /\ over' = over
    BY DEF JobStep, JobStarts, JobWrites, JobExits, JobFails, JobReports, JobRescans, send,
           linkVars
  <2>2. at' \in [Job -> {"idle", "start", "run", "result", "rescan", "end"}]
    BY DEF JobStep, JobStarts, JobWrites, JobExits, JobFails, JobReports, JobRescans,
           AgentInv, AgentPlaces
  <2>4. wrote' \in [Job -> 0 .. MaxChunk]
    <3>1. \/ wrote' = wrote
          \/ wrote[j] < MaxChunk /\ wrote' = [wrote EXCEPT ![j] = wrote[j] + 1]
      BY DEF JobStep, JobStarts, JobWrites, JobExits, JobFails, JobReports, JobRescans
    <3>2. wrote \in [Job -> 0 .. MaxChunk]
      BY DEF AgentInv, AgentPlaces
    <3>3. wrote[j] < MaxChunk => wrote[j] + 1 \in 0 .. MaxChunk
      BY <3>2, AgentAssumption
    <3> QED
      BY <3>1, <3>2, <3>3
  <2>3. result' \in [Job -> Result]
    BY DEF JobStep, JobStarts, JobWrites, JobExits, JobFails, JobReports, JobRescans,
           AgentInv, AgentPlaces, Result
  <2> QED
    BY <2>1, <2>2, <2>4, <2>3 DEF AgentInv, AgentPlaces
<1>4. wrote[j] < MaxChunk => wrote[j] + 1 \in Piece
  BY AgentAssumption DEF AgentInv, AgentPlaces, Piece
<1>5. AgentPlaces
  BY DEF AgentInv
<1>6. outbox' \in Seq(Reports(Begun))
  <2>1. CASE JobStarts(j)
    BY <1>1, <1>5, <2>1, SendKeeps, JobSays DEF JobStarts
  <2>2. CASE JobWrites(j) \/ JobFails(j)
    BY <1>1, <1>4, <1>5, <2>2, SendKeeps, JobSays DEF JobWrites, JobFails
  <2>4. CASE JobExits(j)
    BY <2>4 DEF JobExits, AgentInv
  <2>3. CASE JobReports(j) \/ JobRescans(j)
    BY <1>1, <1>5, <2>3, SendKeeps, JobSays DEF JobReports, JobRescans
  <2> QED
    BY <2>1, <2>2, <2>4, <2>3 DEF JobStep
<1>7. up' = up /\ down' = down /\ frame' = frame
  BY DEF JobStep, JobStarts, JobWrites, JobExits, JobFails, JobReports, JobRescans, send, linkVars
<1> QED
  BY <1>2, <1>3, <1>6, <1>7, WireWider DEF Kept, AgentInv

\* A step of the agent keeps the agent's side in order.
LEMMA AgentKeeps ==
    ASSUME AgentInv, AgentStep, UNCHANGED creation
    PROVE  Kept
BY ServeKeeps, ReaderKeeps, JobKeeps DEF AgentStep

-----------------------------------------------------------------------------
(* What a step of the server leaves alone. *)

\* The server's hand on the wire: it takes from it, or it drops the socket.
LEMMA WireTaken ==
    ASSUME AgentInv, up' \in [Conn -> Seq(Reports(Begun))], intact' \in BOOLEAN,
           UNCHANGED <<conn, serve, down, reader, frame, outbox, jobVars>>,
           Sent \subseteq Sent'
    PROVE  Kept
<1>1. Begun' = Begun /\ AgentPlaces'
  BY DEF Begun, AgentInv, AgentPlaces, jobVars
<1> QED
  BY <1>1, WireWider DEF Kept, AgentInv

LEMMA OneTaken ==
    ASSUME AgentInv, NEW c \in Conn, NEW s \in Seq(Reports(Begun)),
           up' = [up EXCEPT ![c] = s], UNCHANGED <<ExceptUp, creation>>
    PROVE  Kept
<1>1. up' \in [Conn -> Seq(Reports(Begun))]
  BY DEF AgentInv
<1>2. intact' \in BOOLEAN /\ Sent' = Sent
  BY DEF AgentInv, AgentPlaces, ExceptUp, Sent
<1> QED
  BY <1>1, <1>2, WireTaken DEF ExceptUp

\* A command is sent for a job whose request is over with it.
LEMMA CommandSent ==
    ASSUME AgentInv, Sent \subseteq Sent', UNCHANGED ExceptDown,
           NEW f \in Commands(Sent'), down' \in {down, Append(down, f)}
    PROVE  Kept
<1>1. Begun' = Begun /\ AgentPlaces' /\ up' = up /\ outbox' = outbox /\ frame' = frame
  BY DEF Begun, AgentInv, AgentPlaces, ExceptDown, jobVars
<1>2. Commands(Sent) \subseteq Commands(Sent')
  BY KnowMore
<1>3. down \in Seq(Commands(Sent'))
  BY <1>2, SeqWider DEF AgentInv
<1>4. down' \in Seq(Commands(Sent'))
  BY <1>3, SeqParts
<1>5. Reports(Begun)' = Reports(Begun) /\ Commands(Sent)' = Commands(Sent')
  BY <1>1 DEF Reports, Commands
<1> QED
  BY <1>1, <1>2, <1>4, <1>5 DEF Kept, AgentInv

\* No row goes away, and no end is taken back.
StatusKept ==
    \A j \in Job : /\ Over(j) => Over(j)'
                   /\ row[j].status # "none" => row'[j].status # "none"

LEMMA RowsStay == UNCHANGED row => StatusKept
BY DEF StatusKept, Over

LEMMA LoopSame ==
    ASSUME LoopInv, UNCHANGED <<loop, msg>>, Begun \subseteq Begun', StatusKept
    PROVE  LoopInv'
<1>1. Reports(Begun) \subseteq Reports(Begun') /\ Reports(Begun') = Reports(Begun)'
  BY KnowMore DEF Reports
<1> QED
  BY <1>1 DEF LoopInv, StatusKept, Reports, Begun, Working

LEMMA LoopMoves ==
    ASSUME LoopInv, ServerTypeOK, NEW c \in Conn, NEW to, NEW m,
           Begun \subseteq Begun', StatusKept,
           loop' = [loop EXCEPT ![c] = to], msg' = [msg EXCEPT ![c] = m],
           to \in Working => m \in Reports(Begun) /\ m.type \in JobReport,
           to = "done" => Over(m.job)'
    PROVE  LoopInv'
<1>1. Reports(Begun) \subseteq Reports(Begun') /\ Reports(Begun') = Reports(Begun)'
  BY KnowMore DEF Reports
<1>2. loop'[c] = to /\ msg'[c] = m
  BY DEF ServerTypeOK
<1>3. ASSUME NEW d \in Conn, d # c
      PROVE  loop'[d] = loop[d] /\ msg'[d] = msg[d]
  BY <1>3 DEF ServerTypeOK
<1>4. \A d \in Conn : loop[d] \in Working => msg[d].job \in Job
  BY DEF LoopInv, Reports, Begun
<1>5. ASSUME NEW d \in Conn
      PROVE  /\ loop'[d] \in Working => msg'[d] \in Reports(Begun)' /\ msg'[d].type \in JobReport
             /\ loop'[d] = "done" => Over(msg[d].job)'
  <2>1. CASE d = c
    BY <1>1, <1>2, <2>1
  <2>2. CASE d # c
    <3>1. loop[d] = "done" => loop[d] \in Working
      BY DEF Working
    <3> QED
      BY <1>1, <1>3, <1>4, <2>2, <3>1 DEF LoopInv, StatusKept
  <2> QED
    BY <2>1, <2>2
<1> QED
  BY <1>5 DEF LoopInv

LEMMA RowSame ==
    ASSUME RowInv, UNCHANGED creation, \A j \in Job : row'[j].status = row[j].status
    PROVE  RowInv'
BY DEF RowInv, Over

LEMMA SweepSame ==
    ASSUME SweepInv, ServerTypeOK, UNCHANGED sweep, StatusKept
    PROVE  SweepInv'
BY DEF SweepInv, StatusKept, ServerTypeOK

LEMMA ViewSame ==
    ASSUME ViewInv, ViewTypeOK, UNCHANGED viewing, StatusKept
    PROVE  ViewInv' /\ ViewTypeOK'
<1>1. ViewTypeOK' /\ view' = view /\ events' = events
  BY DEF viewing, ViewTypeOK
<1>2. ASSUME NEW v \in Viewers
      PROVE  /\ view[v].state = "told" \/ view[v].state = "read" \/ events[v] # <<>>
                    => view[v].job \in Job
  BY DEF ViewInv
<1>3. ViewInv'
  BY <1>1, <1>2 DEF ViewInv, StatusKept, ViewTypeOK
<1> QED
  BY <1>1, <1>3

LEMMA EventTyped ==
    /\ DoneEvent \in Event /\ DoneEvent.type = "done"
    /\ \A chunk \in Seq(Piece) : [type |-> "output", chunk |-> chunk] \in Event
BY DEF DoneEvent, Event

\* An event for the dashboards that watch one of the jobs js.
Announce(js, e) ==
    events' = [v \in Viewers |-> IF view[v].state = "open" /\ view[v].job \in js
                                 THEN Append(events[v], e) ELSE events[v]]

LEMMA ViewAnnounced ==
    ASSUME ViewInv, ViewTypeOK, StatusKept, UNCHANGED view,
           NEW js, NEW e \in Event, Announce(js, e),
           e.type = "done" => \A j \in js \cap Job : Over(j)'
    PROVE  ViewInv' /\ ViewTypeOK'
<1>1. \A v \in Viewers : events[v] \in Seq(Event) /\ events'[v] \in Seq(Event)
  BY SeqParts DEF ViewTypeOK, Announce
<1>2. ViewTypeOK'
  BY <1>1 DEF ViewTypeOK, Announce
<1>3. ASSUME NEW v \in Viewers
      PROVE  /\ view[v].state # "off" => view[v].job \in Job
             /\ view[v].state # "open" => events'[v] = <<>>
             /\ view[v].state = "read" /\ view[v].row.status \in TerminalJob => Over(view[v].job)'
             /\ view[v].state = "told" => Over(view[v].job)'
  BY DEF ViewInv, StatusKept, Announce
<1>4. ASSUME NEW v \in Viewers, NEW i \in 1 .. Len(events'[v]), events'[v][i].type = "done"
      PROVE  Over(view[v].job)'
  <2>1. view[v].state = "open" /\ view[v].job \in Job
    BY <1>1, <1>3, <1>4
  <2>2. CASE i \in 1 .. Len(events[v])
    <3>1. events'[v][i] = events[v][i]
      BY <1>1, <2>2 DEF Announce
    <3> QED
      BY <1>4, <2>1, <2>2, <3>1 DEF ViewInv, StatusKept
  <2>4. CASE i \notin 1 .. Len(events[v])
    <3>1. view[v].job \in js /\ events'[v][i] = e
      BY <1>1, <2>4 DEF Announce
    <3> QED
      BY <1>4, <2>1, <3>1
  <2> QED
    BY <2>2, <2>4
<1>5. ViewInv'
  BY <1>3, <1>4 DEF ViewInv
<1> QED
  BY <1>2, <1>5

-----------------------------------------------------------------------------
(* The receive loops. *)

\* What the loop works on: a message about a job the agent has begun.
LEMMA AtWork ==
    ASSUME Inv, NEW c \in Conn, loop[c] \in Working
    PROVE  /\ msg[c] \in Reports(Begun) /\ msg[c] \in ToServer /\ msg[c].type \in JobReport
           /\ msg[c].job \in Job /\ msg[c].job \in Begun /\ msg[c].job \in Sent
           /\ row[msg[c].job].status # "none" /\ msg[c].status \in Result
<1>1. msg[c] \in Reports(Begun) /\ msg[c].type \in JobReport
  BY DEF Inv, LoopInv
<1>2. msg[c].job \in Begun /\ msg[c] \in ToServer
  BY <1>1 DEF Reports
<1>3. msg[c].job \in Sent
  BY <1>2 DEF Inv, AgentInv
<1>4. row[msg[c].job].status # "none"
  BY <1>3 DEF Inv, RowInv, Sent
<1> QED
  BY <1>1, <1>2, <1>3, <1>4 DEF Begun, ToServer

\* And what it takes from the wire.
LEMMA AtHead ==
    ASSUME Inv, NEW c \in Conn, up[c] # <<>>
    PROVE  /\ Head(up[c]) \in Reports(Begun) /\ Tail(up[c]) \in Seq(Reports(Begun))
           /\ Head(up[c]) \in ToServer /\ Head(up[c]).chunk \in Piece
           /\ Head(up[c]).type \in JobReport => Head(up[c]).job \in Job
<1>1. Head(up[c]) \in Reports(Begun) /\ Tail(up[c]) \in Seq(Reports(Begun))
  BY SeqParts DEF Inv, AgentInv
<1> QED
  BY <1>1 DEF Reports, Begun

LEMMA AgentStays ==
    ASSUME Inv, UNCHANGED <<agentVars, creation>>
    PROVE  Kept
<1>1. Sent' = Sent
  BY DEF Sent
<1> QED
  BY <1>1, AgentSame DEF Inv, Kept

\* A step of the loop that writes no row: what remains to be shown of it.
LEMMA LoopStepKeeps ==
    ASSUME Inv, NEW c \in Conn, NEW to, NEW m,
           Kept, ServerTypeOK', UNCHANGED <<row, creation, sweep, viewing>>,
           loop' = [loop EXCEPT ![c] = to], msg' = [msg EXCEPT ![c] = m],
           to \in Working => m \in Reports(Begun) /\ m.type \in JobReport,
           to # "done"
    PROVE  Inv'
<1>1. StatusKept
  BY RowsStay
<1>2. LoopInv'
  BY <1>1, LoopMoves DEF Inv, Kept
<1>3. RowInv' /\ SweepInv' /\ ViewInv' /\ ViewTypeOK'
  BY <1>1, RowSame, SweepSame, ViewSame DEF Inv
<1> QED
  BY <1>2, <1>3 DEF Inv, Kept

LEMMA ConnectKeeps ==
    ASSUME Inv, Connect
    PROVE  Inv'
<1>1. Kept
  BY DialKeeps DEF Connect, Inv
<1>2. conn + 1 \in Conn
  BY AgentAssumption DEF Connect, Dial, Inv, AgentInv, AgentPlaces, Conn
<1>3. ServerTypeOK'
  BY <1>2 DEF Connect, Inv, ServerTypeOK, LoopTo, counts, Conn
<1>4. msg' = [msg EXCEPT ![conn + 1] = msg[conn + 1]]
  BY DEF Connect, Inv, ServerTypeOK
<1>5. loop' = [loop EXCEPT ![conn + 1] = "receive"] /\ UNCHANGED <<row, creation, sweep, viewing>>
  BY DEF Connect, LoopTo
<1>6. "receive" \notin Working
  BY DEF Working
<1> QED
  BY <1>1, <1>2, <1>3, <1>4, <1>5, <1>6, LoopStepKeeps

LEMMA DisconnectKeeps ==
    ASSUME Inv, NEW c \in Conn, Disconnect(c)
    PROVE  Inv'
<1>1. Kept
  BY EmptyWire, OneTaken DEF Disconnect, Inv
<1>2. ServerTypeOK'
  BY AgentAssumption DEF Disconnect, Inv, ServerTypeOK, LoopTo, counts
<1>3. msg' = [msg EXCEPT ![c] = msg[c]]
  BY DEF Disconnect, Inv, ServerTypeOK
<1>4. loop' = [loop EXCEPT ![c] = "closed"] /\ UNCHANGED <<row, creation, sweep, viewing>>
  BY DEF Disconnect, LoopTo
<1>5. "closed" \notin Working
  BY DEF Working
<1> QED
  BY <1>1, <1>2, <1>3, <1>4, <1>5, LoopStepKeeps

\* Taking a message off the wire.
LEMMA ReceiveKeeps ==
    ASSUME Inv, NEW c \in Conn, NEW type, Receive(c, type)
    PROVE  /\ Kept /\ up[c] # <<>> /\ Head(up[c]).type = type
           /\ UNCHANGED <<row, creation, sweep, viewing>>
<1>1. up[c] # <<>> /\ up' = [up EXCEPT ![c] = Tail(up[c])] /\ UNCHANGED <<ExceptUp, creation>>
  BY DEF Receive, Taken
<1>2. Tail(up[c]) \in Seq(Reports(Begun))
  BY <1>1, AtHead
<1> QED
  BY <1>1, <1>2, OneTaken DEF Receive, Inv

LEMMA JobStartedKeeps ==
    ASSUME Inv, NEW c \in Conn, JobStarted(c)
    PROVE  Inv'
<1>1. /\ Kept /\ up[c] # <<>> /\ Head(up[c]).type = "job_started"
      /\ UNCHANGED <<row, creation, sweep, viewing>>
  BY ReceiveKeeps DEF JobStarted
<1>2. ServerTypeOK'
  BY <1>1, AtHead DEF JobStarted, Receive, Handle, LoopTo, Inv, ServerTypeOK, counts
<1> QED
  BY <1>1, <1>2, AtHead, LoopStepKeeps DEF JobStarted, Handle, LoopTo, JobReport

LEMMA JobOutputKeeps ==
    ASSUME Inv, NEW c \in Conn, JobOutput(c)
    PROVE  Inv'
<1>1. /\ Kept /\ up[c] # <<>> /\ Head(up[c]).type = "job_output"
      /\ UNCHANGED <<row, creation, sweep, viewing>>
  BY ReceiveKeeps DEF JobOutput
<1> DEFINE j == Head(up[c]).job
           text == Append(held[j], Head(up[c]).chunk)
<1>2. j \in Job /\ Head(up[c]) \in Reports(Begun) /\ Head(up[c]) \in ToServer
  BY <1>1, AtHead DEF JobReport
<1>3. text \in Seq(Piece)
  BY <1>1, <1>2, AtHead, SeqParts DEF Inv, ServerTypeOK
<1>4. UNCHANGED <<reg, current, counts>>
  BY DEF JobOutput, Receive
<1>5. CASE held' = [held EXCEPT ![j] = text] /\ UNCHANGED <<loop, msg, clean>>
  <2>1. ServerTypeOK'
    BY <1>1, <1>2, <1>3, <1>4, <1>5 DEF Inv, ServerTypeOK, counts
  <2>2. loop' = [loop EXCEPT ![c] = loop[c]] /\ msg' = [msg EXCEPT ![c] = msg[c]]
    BY <1>5 DEF Inv, ServerTypeOK
  <2>4. loop[c] = "receive" /\ "receive" \notin Working
    BY DEF JobOutput, Receive, Working
  <2> QED
    BY <1>1, <2>1, <2>2, <2>4, LoopStepKeeps
<1>6. CASE /\ held' = [held EXCEPT ![j] = <<>>]
           /\ clean' = [clean EXCEPT ![c] = text]
           /\ Handle(c, "append")
  <2>1. ServerTypeOK'
    BY <1>1, <1>2, <1>3, <1>4, <1>6, EmptyWire DEF Inv, ServerTypeOK, counts, Handle, LoopTo
  <2> QED
    BY <1>1, <1>2, <1>6, <2>1, LoopStepKeeps DEF Handle, LoopTo, JobReport
<1>7. \/ held' = [held EXCEPT ![j] = text] /\ UNCHANGED <<loop, msg, clean>>
      \/ /\ held' = [held EXCEPT ![j] = <<>>]
         /\ clean' = [clean EXCEPT ![c] = text]
         /\ Handle(c, "append")
  BY DEF JobOutput
<1> QED
  BY <1>5, <1>6, <1>7

LEMMA JobResultKeeps ==
    ASSUME Inv, NEW c \in Conn, JobResult(c)
    PROVE  Inv'
<1>1. /\ Kept /\ up[c] # <<>> /\ Head(up[c]).type = "job_result"
      /\ UNCHANGED <<row, creation, sweep, viewing>>
  BY ReceiveKeeps DEF JobResult
<1> DEFINE j == Head(up[c]).job
           to == IF held[j] = <<>> THEN "finish" ELSE "append"
<1>2. j \in Job /\ Head(up[c]) \in Reports(Begun) /\ Head(up[c]) \in ToServer
  BY <1>1, AtHead DEF JobReport
<1>3. /\ held' = [held EXCEPT ![j] = <<>>] /\ clean' = [clean EXCEPT ![c] = held[j]]
      /\ loop' = [loop EXCEPT ![c] = to] /\ msg' = [msg EXCEPT ![c] = Head(up[c])]
      /\ UNCHANGED <<reg, current, counts>>
  BY DEF JobResult, Receive, Handle, LoopTo
<1>4. ServerTypeOK'
  BY <1>1, <1>2, <1>3, EmptyWire DEF Inv, ServerTypeOK, counts
<1>5. to # "done" /\ Head(up[c]).type \in JobReport
  BY <1>1 DEF JobReport
<1> QED
  BY <1>1, <1>2, <1>3, <1>4, <1>5, LoopStepKeeps

LEMMA OtherMessageKeeps ==
    ASSUME Inv, NEW c \in Conn, OtherMessage(c)
    PROVE  Inv'
<1>1. Kept /\ UNCHANGED <<row, creation, sweep, viewing>> /\ loop[c] = "receive"
  BY ReceiveKeeps DEF OtherMessage, Receive
<1>2. ServerTypeOK'
  BY DEF OtherMessage, Receive, Inv, ServerTypeOK, counts
<1>3. loop' = [loop EXCEPT ![c] = loop[c]] /\ msg' = [msg EXCEPT ![c] = msg[c]]
  BY DEF OtherMessage, Inv, ServerTypeOK
<1>4. "receive" \notin Working
  BY DEF Working
<1> QED
  BY <1>1, <1>2, <1>3, <1>4, LoopStepKeeps

\* What Idle leaves of the loop.
LEMMA IdleTyped ==
    ASSUME Inv, NEW c \in Conn, NEW to \in {"receive", "finish", "closed"}, Idle(c, to)
    PROVE  /\ loop' = [loop EXCEPT ![c] = to]
           /\ msg' = [msg EXCEPT ![c] = IF to = "finish" THEN msg[c] ELSE Logs]
           /\ msg' \in [Conn -> ToServer] /\ clean' \in [Conn -> Seq(Piece)]
           /\ to \in Working => to = "finish"
BY LogsSay, EmptyWire DEF Idle, LoopTo, Inv, ServerTypeOK, Working

LEMMA AppendReturns ==
    ASSUME NEW c
    PROVE  AfterAppend(c) \in {"receive", "finish", "closed"}
BY DEF AfterAppend

LEMMA ReadOutputKeeps ==
    ASSUME Inv, NEW c \in Conn, ReadOutput(c)
    PROVE  Inv'
<1>1. loop[c] = "append" /\ UNCHANGED <<agentVars, row, held, reg, creation, sweep, viewing, counts>>
  BY DEF ReadOutput
<1>2. Kept
  BY <1>1, AgentStays
<1>3. msg[c] \in Reports(Begun) /\ msg[c].type \in JobReport /\ msg[c].job \in Job
  BY <1>1, AtWork DEF Working
<1>4. CASE Idle(c, AfterAppend(c)) /\ UNCHANGED current
  <2>1. ServerTypeOK'
    BY <1>1, <1>4, AppendReturns, IdleTyped DEF Inv, ServerTypeOK, counts
  <2> DEFINE to == AfterAppend(c)
             m == IF to = "finish" THEN msg[c] ELSE Logs
  <2>2. to # "done"
    BY DEF AfterAppend
  <2>4. /\ loop' = [loop EXCEPT ![c] = to] /\ msg' = [msg EXCEPT ![c] = m]
        /\ to \in Working => to = "finish"
    BY <1>4, AppendReturns, IdleTyped
  <2>3. to \in Working => m \in Reports(Begun) /\ m.type \in JobReport
    BY <1>3, <2>4
  <2>5. UNCHANGED <<row, creation, sweep, viewing>>
    BY <1>1
  <2> HIDE DEF to, m
  <2> QED
    BY <1>2, <2>1, <2>2, <2>4, <2>3, <2>5, LoopStepKeeps
<1>5. CASE /\ LoopTo(c, "update") /\ UNCHANGED <<msg, clean>>
           /\ current' = [current EXCEPT ![c] = row[msg[c].job].output]
  <2>1. row[msg[c].job].output \in Seq(Piece)
    BY <1>3 DEF Inv, ServerTypeOK, Row, Stored
  <2>2. ServerTypeOK'
    BY <1>1, <1>5, <2>1 DEF LoopTo, Inv, ServerTypeOK, counts
  <2>4. msg' = [msg EXCEPT ![c] = msg[c]]
    BY <1>5 DEF Inv, ServerTypeOK
  <2> QED
    BY <1>1, <1>2, <1>3, <1>5, <2>2, <2>4, LoopStepKeeps DEF LoopTo
<1> QED
  BY <1>4, <1>5 DEF ReadOutput

-----------------------------------------------------------------------------
(* What the loops write, and say. *)

LEMMA StatusTypes ==
    ASSUME NEW s \in JobState
    PROVE  /\ AfterStarted(s) \in JobState /\ AfterUndispatched(s) \in JobState
           /\ AfterSweep(s) \in TerminalJob /\ TerminalJob \subseteq JobState
           /\ \A r : AfterResult(s, r) \in TerminalJob
           /\ s \in TerminalJob => AfterStarted(s) = s
           /\ s # "none" => AfterStarted(s) # "none" /\ AfterUndispatched(s) # "none"
BY DEF JobState, ActiveJob, TerminalJob, AfterStarted, AfterResult, AfterUndispatched, AfterSweep

LEMMA EndsAreNotNone == "none" \notin TerminalJob
BY DEF TerminalJob

\* A job whose row exists gets another status.
LEMMA StatusWritten ==
    ASSUME Inv, NEW j \in Job, NEW status \in JobState, SetStatus(j, status),
           Over(j) => status \in TerminalJob, status # "none"
    PROVE  /\ StatusKept /\ row' \in [Job -> Row]
           /\ row'[j].status = status /\ \A i \in Job \ {j} : row'[i] = row[i]
<1>1. row \in [Job -> Row] /\ row' = [row EXCEPT ![j].status = status]
  BY DEF SetStatus, Inv, ServerTypeOK
<1>2. row[j] \in Row
  BY <1>1
<1>3. row'[j] = [row[j] EXCEPT !.status = status] /\ \A i \in Job \ {j} : row'[i] = row[i]
  BY <1>1
<1>4. row'[j] \in Row /\ row'[j].status = status
  BY <1>2, <1>3 DEF Row
<1> QED
  BY <1>1, <1>3, <1>4 DEF StatusKept, Over

\* A row that is written once its request is over.
LEMMA RowWritten ==
    ASSUME Inv, NEW j \in Sent, UNCHANGED creation, row'[j].status # "none",
           \A i \in Job \ {j} : row'[i] = row[i]
    PROVE  RowInv'
<1>1. \A i \in Job : Over(i)' <=> row'[i].status \in TerminalJob
  BY DEF Over
<1>2. ASSUME NEW i \in Job
      PROVE  /\ creation'[i] = "new" <=> row'[i].status = "none"
             /\ creation'[i] \in {"send", "undo"} => row'[i].status \in {"queued", "timeout"}
             /\ creation'[i] = "undone" => Over(i)'
  BY <1>1 DEF Inv, RowInv, Sent, Over
<1> QED
  BY <1>2 DEF RowInv

LEMMA MarkRunningKeeps ==
    ASSUME Inv, NEW c \in Conn, MarkRunning(c)
    PROVE  Inv'
<1> DEFINE j == msg[c].job
           status == AfterStarted(row[j].status)
<1>1. loop[c] = "mark" /\ UNCHANGED <<agentVars, held, reg, current, creation, sweep, viewing, counts>>
  BY DEF MarkRunning
<1>2. j \in Job /\ j \in Sent /\ row[j].status # "none"
  BY <1>1, AtWork DEF Working
<1>3. row[j].status \in JobState
  BY <1>2 DEF Inv, ServerTypeOK, Row
<1>4. /\ status \in JobState /\ status # "none" /\ (Over(j) => status \in TerminalJob)
      /\ SetStatus(j, status) /\ Idle(c, "receive")
  BY <1>2, <1>3, StatusTypes DEF Over, MarkRunning
<1>5. /\ StatusKept /\ row' \in [Job -> Row] /\ row'[j].status # "none"
      /\ \A i \in Job \ {j} : row'[i] = row[i]
  BY <1>2, <1>4, StatusWritten
<1>6. Kept
  BY <1>1, AgentStays
<1>7. ServerTypeOK'
  BY <1>1, <1>4, <1>5, IdleTyped DEF Inv, ServerTypeOK, counts
<1>8. loop' = [loop EXCEPT ![c] = "receive"] /\ msg' = [msg EXCEPT ![c] = Logs]
  BY <1>4, IdleTyped
<1>9. LoopInv'
  BY <1>5, <1>6, <1>8, LoopMoves DEF Working, Inv, Kept
<1>10. RowInv' /\ SweepInv' /\ ViewInv' /\ ViewTypeOK'
  BY <1>1, <1>2, <1>5, RowWritten, SweepSame, ViewSame DEF Inv
<1> QED
  BY <1>6, <1>7, <1>9, <1>10 DEF Inv, Kept

LEMMA CappedStored ==
    ASSUME NEW output \in Seq(Piece)
    PROVE  Capped(output) \in Stored
<1> DEFINE n == IF Len(output) > MaxOutput THEN MaxOutput ELSE Len(output)
<1>1. n \in 0 .. Len(output) /\ n <= MaxOutput
  BY ChannelAssumption
<1>2. SubSeq(output, 1, n) \in Seq(Piece) /\ Len(SubSeq(output, 1, n)) = n
  BY <1>1
<1> QED
  BY <1>1, <1>2 DEF Capped, Stored

LEMMA UpdateOutputKeeps ==
    ASSUME Inv, NEW c \in Conn, UpdateOutput(c)
    PROVE  Inv'
<1> DEFINE j == msg[c].job
           output == Capped(current[c] \o clean[c])
<1>1. loop[c] = "update" /\ UNCHANGED <<agentVars, held, reg, msg, clean, creation, sweep, viewing, counts>>
  BY DEF UpdateOutput
<1>2. j \in Job /\ msg[c] \in Reports(Begun) /\ msg[c].type \in JobReport
  BY <1>1, AtWork DEF Working
<1>3. output \in Stored
  <2>1. current[c] \in Seq(Piece) /\ clean[c] \in Seq(Piece)
    BY DEF Inv, ServerTypeOK
  <2>2. current[c] \o clean[c] \in Seq(Piece)
    BY <2>1
  <2> QED
    BY <2>2, CappedStored
<1>4. row \in [Job -> Row] /\ row' = [row EXCEPT ![j].output = output]
  BY DEF UpdateOutput, Inv, ServerTypeOK
<1>5. /\ row' \in [Job -> Row]
      /\ \A i \in Job : row'[i].status = row[i].status
  <2>1. row[j] \in Row
    BY <1>2, <1>4
  <2>2. [row[j] EXCEPT !.output = output] \in Row
    BY <1>3, <2>1 DEF Row
  <2>4. row' = [row EXCEPT ![j] = [row[j] EXCEPT !.output = output]]
    BY <1>4
  <2>3. [row[j] EXCEPT !.output = output].status = row[j].status
    BY <2>1 DEF Row
  <2> QED
    BY <1>2, <1>4, <2>2, <2>4, <2>3
<1>6. StatusKept /\ Kept
  BY <1>1, <1>5, AgentStays DEF StatusKept, Over
<1>7. loop' = [loop EXCEPT ![c] = "publish"] /\ msg' = [msg EXCEPT ![c] = msg[c]]
      /\ current' = [current EXCEPT ![c] = <<>>]
  BY DEF UpdateOutput, LoopTo, Inv, ServerTypeOK
<1>8. ServerTypeOK'
  BY <1>1, <1>5, <1>7, EmptyWire DEF Inv, ServerTypeOK, counts
<1>9. LoopInv'
  BY <1>2, <1>6, <1>7, LoopMoves DEF Inv, Kept
<1>10. RowInv' /\ SweepInv' /\ ViewInv' /\ ViewTypeOK'
  BY <1>1, <1>5, <1>6, RowSame, SweepSame, ViewSame DEF Inv
<1> QED
  BY <1>6, <1>8, <1>9, <1>10 DEF Inv, Kept

\* publish is an announcement to those who watch one job.
LEMMA Published ==
    ASSUME NEW j, NEW e, publish(j, e)
    PROVE  Announce({j}, e)
BY DEF publish, Announce

\* Saying something while no row is written.
LEMMA SayingKeeps ==
    ASSUME Inv, NEW js, NEW e \in Event, Announce(js, e), UNCHANGED <<row, view>>,
           e.type = "done" => \A j \in js \cap Job : Over(j)
    PROVE  StatusKept /\ ViewInv' /\ ViewTypeOK'
<1>1. StatusKept
  BY RowsStay
<1>2. e.type = "done" => \A j \in js \cap Job : Over(j)'
  BY <1>1 DEF StatusKept
<1> QED
  BY <1>1, <1>2, ViewAnnounced DEF Inv

LEMMA PublishOutputKeeps ==
    ASSUME Inv, NEW c \in Conn, PublishOutput(c)
    PROVE  Inv'
<1> DEFINE to == AfterAppend(c)
           m == IF to = "finish" THEN msg[c] ELSE Logs
           e == [type |-> "output", chunk |-> clean[c]]
<1>1. /\ loop[c] = "publish" /\ Announce({msg[c].job}, e) /\ Idle(c, to)
      /\ UNCHANGED <<agentVars, row, held, reg, current, creation, sweep, view, counts>>
  BY Published DEF PublishOutput
<1>2. msg[c] \in Reports(Begun) /\ msg[c].type \in JobReport
  BY <1>1, AtWork DEF Working
<1>3. e \in Event /\ e.type # "done"
  BY EventTyped DEF Inv, ServerTypeOK
<1>4. StatusKept /\ ViewInv' /\ ViewTypeOK' /\ Kept
  BY <1>1, <1>3, SayingKeeps, AgentStays
<1>5. ServerTypeOK'
  BY <1>1, AppendReturns, IdleTyped DEF Inv, ServerTypeOK, counts
<1>6. /\ loop' = [loop EXCEPT ![c] = to] /\ msg' = [msg EXCEPT ![c] = m]
      /\ to \in Working => to = "finish"
  BY <1>1, AppendReturns, IdleTyped
<1>7. to # "done" /\ (to \in Working => m \in Reports(Begun) /\ m.type \in JobReport)
  BY <1>2, <1>6 DEF AfterAppend
<1> HIDE DEF to, m
<1>8. LoopInv'
  BY <1>4, <1>6, <1>7, LoopMoves DEF Inv, Kept
<1>9. RowInv' /\ SweepInv'
  BY <1>1, <1>4, RowSame, SweepSame DEF Inv
<1> QED
  BY <1>4, <1>5, <1>8, <1>9 DEF Inv, Kept

LEMMA FinishJobKeeps ==
    ASSUME Inv, NEW c \in Conn, FinishJob(c)
    PROVE  Inv'
<1> DEFINE j == msg[c].job
           status == AfterResult(row[j].status, msg[c].status)
<1>1. loop[c] = "finish" /\ UNCHANGED <<agentVars, held, reg, msg, clean, current, creation, sweep, viewing, counts>>
  BY DEF FinishJob
<1>2. /\ j \in Job /\ j \in Sent /\ row[j].status # "none"
      /\ msg[c] \in Reports(Begun) /\ msg[c].type \in JobReport
  BY <1>1, AtWork DEF Working
<1>3. row[j].status \in JobState
  BY <1>2 DEF Inv, ServerTypeOK, Row
<1>4. status \in JobState /\ status # "none" /\ status \in TerminalJob /\ SetStatus(j, status)
  BY <1>3, StatusTypes, EndsAreNotNone DEF FinishJob
<1>5. /\ StatusKept /\ row' \in [Job -> Row] /\ row'[j].status = status
      /\ \A i \in Job \ {j} : row'[i] = row[i]
  BY <1>2, <1>4, StatusWritten
<1>6. Kept
  BY <1>1, AgentStays
<1>7. loop' = [loop EXCEPT ![c] = "done"] /\ msg' = [msg EXCEPT ![c] = msg[c]]
  BY <1>1 DEF FinishJob, LoopTo, Inv, ServerTypeOK
<1>8. ServerTypeOK'
  BY <1>1, <1>5, <1>7 DEF Inv, ServerTypeOK, counts
<1>9. LoopInv'
  <2>1. row'[j].status \in TerminalJob
    BY <1>4, <1>5
  <2> QED
    BY <1>2, <1>5, <1>6, <1>7, <2>1, LoopMoves DEF Inv, Kept, Over
<1>10. RowInv' /\ SweepInv' /\ ViewInv' /\ ViewTypeOK'
  BY <1>1, <1>2, <1>4, <1>5, RowWritten, SweepSame, ViewSame DEF Inv
<1> QED
  BY <1>6, <1>8, <1>9, <1>10 DEF Inv, Kept

LEMMA PublishDoneKeeps ==
    ASSUME Inv, NEW c \in Conn, PublishDone(c)
    PROVE  Inv'
<1>1. /\ loop[c] = "done" /\ Announce({msg[c].job}, DoneEvent) /\ Idle(c, "receive")
      /\ UNCHANGED <<agentVars, row, held, reg, current, creation, sweep, view, counts>>
  BY Published DEF PublishDone
<1>2. Over(msg[c].job)
  BY <1>1 DEF Inv, LoopInv
<1>3. StatusKept /\ ViewInv' /\ ViewTypeOK' /\ Kept
  BY <1>1, <1>2, EventTyped, SayingKeeps, AgentStays
<1>4. ServerTypeOK'
  BY <1>1, IdleTyped DEF Inv, ServerTypeOK, counts
<1>5. loop' = [loop EXCEPT ![c] = "receive"] /\ msg' = [msg EXCEPT ![c] = Logs]
  BY <1>1, IdleTyped
<1>6. LoopInv'
  BY <1>3, <1>5, LoopMoves DEF Inv, Kept, Working
<1>7. RowInv' /\ SweepInv'
  BY <1>1, <1>3, RowSame, SweepSame DEF Inv
<1> QED
  BY <1>3, <1>4, <1>6, <1>7 DEF Inv, Kept

LEMMA SocketKeeps ==
    ASSUME Inv, NEW c \in Conn, AgentSocket(c)
    PROVE  Inv'
BY DisconnectKeeps, JobStartedKeeps, MarkRunningKeeps, JobOutputKeeps, JobResultKeeps,
   OtherMessageKeeps, ReadOutputKeeps, UpdateOutputKeeps, PublishOutputKeeps,
   FinishJobKeeps, PublishDoneKeeps
DEF AgentSocket

-----------------------------------------------------------------------------
(* The requests of the dashboard. *)

\* A step in which no loop, sweep or dashboard takes part.
LEMMA Beside ==
    ASSUME Inv, Kept, StatusKept, UNCHANGED <<loop, msg, sweep>>
    PROVE  LoopInv' /\ SweepInv'
BY LoopSame, SweepSame DEF Inv, Kept

LEMMA CreateKeeps ==
    ASSUME Inv, NEW j \in Job, Create(j)
    PROVE  Inv'
<1>1. /\ creation[j] = "new" /\ SetStatus(j, "queued")
      /\ creation' = [creation EXCEPT ![j] = "send"]
      /\ UNCHANGED <<agentVars, held, reg, loop, msg, clean, current, sweep, viewing, counts>>
  BY DEF Create
<1>2. row[j].status = "none" /\ ~Over(j) /\ "queued" \in JobState
  BY <1>1, EndsAreNotNone DEF Inv, RowInv, Over, JobState, ActiveJob
<1>3. /\ StatusKept /\ row' \in [Job -> Row] /\ row'[j].status = "queued"
      /\ \A i \in Job \ {j} : row'[i] = row[i]
  BY <1>1, <1>2, StatusWritten
<1>4. Sent \subseteq Sent'
  BY <1>1 DEF Sent, Inv, ServerTypeOK
<1>5. Kept
  BY <1>1, <1>4, AgentSame DEF Inv, Kept
<1>6. ServerTypeOK'
  BY <1>1, <1>3 DEF Inv, ServerTypeOK, counts
<1>7. RowInv'
  BY <1>1, <1>3 DEF Inv, RowInv, ServerTypeOK, Over
<1>8. LoopInv' /\ SweepInv' /\ ViewInv' /\ ViewTypeOK'
  BY <1>1, <1>3, <1>5, Beside, ViewSame DEF Inv
<1> QED
  BY <1>5, <1>6, <1>7, <1>8 DEF Inv, Kept

\* A step of a request that has created its job and writes no row.
LEMMA RequestKeeps ==
    ASSUME Inv, NEW j \in Job, NEW to \in {"undo", "over"}, Kept,
           creation[j] \in {"send", "undone"}, to = "undo" => creation[j] = "send",
           creation' = [creation EXCEPT ![j] = to],
           UNCHANGED <<row, held, reg, loop, msg, clean, current, sweep, view, counts>>,
           ViewInv', ViewTypeOK'
    PROVE  Inv'
<1>1. StatusKept
  BY RowsStay
<1>2. ServerTypeOK'
  BY DEF Inv, ServerTypeOK, counts
<1>3. RowInv'
  BY DEF Inv, RowInv, ServerTypeOK, Over
<1>4. LoopInv' /\ SweepInv'
  BY <1>1, Beside
<1> QED
  BY <1>2, <1>3, <1>4 DEF Inv, Kept

LEMMA DispatchKeeps ==
    ASSUME Inv, NEW j \in Job, Dispatch(j)
    PROVE  Inv'
<1>1. /\ creation[j] = "send" /\ creation' = [creation EXCEPT ![j] = "over"]
      /\ UNCHANGED <<ExceptDown, row, held, reg, loop, msg, clean, current, sweep, viewing, counts>>
      /\ down' \in {down, Append(down, Command("job", j))}
  BY DEF Dispatch, SendTo
<1>2. Sent \subseteq Sent' /\ j \in Sent'
  BY <1>1 DEF Sent, Inv, ServerTypeOK
<1>3. Command("job", j) \in Commands(Sent')
  BY <1>2 DEF Command, Commands, ToAgent
<1>4. Kept
  BY <1>1, <1>2, <1>3, CommandSent DEF Inv
<1>5. ViewInv' /\ ViewTypeOK'
  BY <1>1, RowsStay, ViewSame DEF Inv
<1> QED
  BY <1>1, <1>4, <1>5, RequestKeeps DEF viewing

LEMMA DispatchFailsKeeps ==
    ASSUME Inv, NEW j \in Job, DispatchFails(j)
    PROVE  Inv'
<1>1. /\ creation[j] = "send" /\ creation' = [creation EXCEPT ![j] = "undo"]
      /\ UNCHANGED <<agentVars, row, held, reg, loop, msg, clean, current, sweep, viewing, counts>>
  BY DEF DispatchFails
<1>2. Sent \subseteq Sent'
  BY <1>1 DEF Sent, Inv, ServerTypeOK
<1>3. Kept
  BY <1>1, <1>2, AgentSame DEF Inv, Kept
<1>4. ViewInv' /\ ViewTypeOK'
  BY <1>1, RowsStay, ViewSame DEF Inv
<1> QED
  BY <1>1, <1>3, <1>4, RequestKeeps DEF viewing

\* A job that was never sent is queued still, or swept.
LEMMA UndispatchedKeeps ==
    ASSUME Inv, NEW j \in Job, Undispatched(j)
    PROVE  Inv'
<1>1. /\ creation[j] = "undo" /\ creation' = [creation EXCEPT ![j] = "undone"]
      /\ UNCHANGED <<agentVars, held, reg, loop, msg, clean, current, sweep, viewing, counts>>
  BY DEF Undispatched
<1>2. row \in [Job -> Row] /\ row[j] \in Row /\ row[j].status \in {"queued", "timeout"}
  BY <1>1 DEF Inv, RowInv, ServerTypeOK
<1> DEFINE new == IF row[j].status = "queued"
                 THEN [status |-> AfterUndispatched(row[j].status), output |-> <<0>>]
                 ELSE row[j]
<1>3. row' = [row EXCEPT ![j] = new]
  BY DEF Undispatched
<1>4. <<0>> \in Stored
  BY AgentAssumption, ChannelAssumption DEF Stored, Piece
<1>5. new \in Row /\ new.status \in TerminalJob
  BY <1>2, <1>4 DEF Row, AfterUndispatched, JobState, TerminalJob
<1>6. /\ row' \in [Job -> Row] /\ row'[j].status \in TerminalJob
      /\ \A i \in Job \ {j} : row'[i] = row[i]
  BY <1>2, <1>3, <1>5
<1>7. StatusKept
  BY <1>6, EndsAreNotNone DEF StatusKept, Over
<1>8. Sent \subseteq Sent'
  BY <1>1 DEF Sent, Inv, ServerTypeOK
<1>9. Kept
  BY <1>1, <1>8, AgentSame DEF Inv, Kept
<1>10. ServerTypeOK'
  BY <1>1, <1>6 DEF Inv, ServerTypeOK, counts
<1>11. RowInv'
  BY <1>1, <1>6, EndsAreNotNone DEF Inv, RowInv, ServerTypeOK, Over
<1>12. LoopInv' /\ SweepInv' /\ ViewInv' /\ ViewTypeOK'
  BY <1>1, <1>7, <1>9, Beside, ViewSame DEF Inv
<1> QED
  BY <1>9, <1>10, <1>11, <1>12 DEF Inv, Kept

LEMMA PublishUndispatchedKeeps ==
    ASSUME Inv, NEW j \in Job, PublishUndispatched(j)
    PROVE  Inv'
<1>1. /\ creation[j] = "undone" /\ creation' = [creation EXCEPT ![j] = "over"]
      /\ Announce({j}, DoneEvent)
      /\ UNCHANGED <<agentVars, row, held, reg, loop, msg, clean, current, sweep, view, counts>>
  BY Published DEF PublishUndispatched
<1>2. Over(j)
  BY <1>1 DEF Inv, RowInv
<1>3. Sent \subseteq Sent'
  BY <1>1 DEF Sent, Inv, ServerTypeOK
<1>4. Kept
  BY <1>1, <1>3, AgentSame DEF Inv, Kept
<1>5. ViewInv' /\ ViewTypeOK'
  BY <1>1, <1>2, EventTyped, SayingKeeps
<1> QED
  BY <1>1, <1>4, <1>5, RequestKeeps

LEMMA AskLogsKeeps ==
    ASSUME Inv, AskLogs
    PROVE  Inv'
<1>1. /\ down' \in {down, Append(down, Command("get_logs", NoJob))}
      /\ UNCHANGED <<ExceptDown, row, held, reg, loop, msg, clean, current, sweep, viewing,
                     creation, faults>>
      /\ asks < MaxAsks /\ asks' = asks + 1
  BY DEF AskLogs, SendTo
<1>2. Command("get_logs", NoJob) \in Commands(Sent') /\ Sent' = Sent
  BY <1>1 DEF Command, Commands, ToAgent, Sent
<1>3. Kept
  BY <1>1, <1>2, CommandSent DEF Inv
<1>4. ServerTypeOK'
  BY <1>1, ChannelAssumption DEF Inv, ServerTypeOK
<1>5. StatusKept /\ RowInv'
  BY <1>1, RowsStay, RowSame DEF Inv
<1>6. LoopInv' /\ SweepInv' /\ ViewInv' /\ ViewTypeOK'
  BY <1>1, <1>3, <1>5, Beside, ViewSame DEF Inv
<1> QED
  BY <1>3, <1>4, <1>5, <1>6 DEF Inv, Kept

-----------------------------------------------------------------------------
(* The sweep. *)

LEMMA SelectStaleKeeps ==
    ASSUME Inv, SelectStale
    PROVE  Inv'
<1>1. PICK ids \in SUBSET {j \in Job : row[j].status \in ActiveJob} :
        sweep' = [at |-> "update", ids |-> ids]
  BY DEF SelectStale
<1>2. UNCHANGED <<agentVars, row, held, reg, loop, msg, clean, current, creation, viewing, counts>>
  BY DEF SelectStale
<1>3. SweepInv' /\ ServerTypeOK'
  BY <1>1, <1>2 DEF Inv, ServerTypeOK, SweepInv, ActiveJob, counts
<1>4. StatusKept /\ RowInv' /\ Kept
  BY <1>2, RowsStay, RowSame, AgentStays DEF Inv
<1>5. LoopInv' /\ ViewInv' /\ ViewTypeOK'
  BY <1>2, <1>4, LoopSame, ViewSame DEF Inv, Kept
<1> QED
  BY <1>3, <1>4, <1>5 DEF Inv, Kept

\* What the UPDATEs of the sweep make of the rows.
LEMMA Swept ==
    ASSUME Inv, SweepStale
    PROVE  /\ row' \in [Job -> Row] /\ StatusKept
           /\ \A j \in sweep.ids : j \in Job /\ row'[j].status = "timeout"
           /\ \A j \in Job \ sweep.ids : row'[j] = row[j]
<1>1. row \in [Job -> Row] /\ sweep.ids \subseteq Job
  BY DEF Inv, ServerTypeOK
<1>2. ASSUME NEW j \in Job
      PROVE  /\ row'[j] \in Row
             /\ j \in sweep.ids => row'[j].status = "timeout"
             /\ j \notin sweep.ids => row'[j] = row[j]
  <2>1. row[j] \in Row
    BY <1>1
  <2>2. row'[j] = IF j \in sweep.ids THEN [row[j] EXCEPT !.status = "timeout"] ELSE row[j]
    BY DEF SweepStale, AfterSweep
  <2> QED
    BY <2>1, <2>2 DEF Row, JobState, TerminalJob
<1>3. row' \in [Job -> Row]
  <2>1. row' = [j \in Job |-> row'[j]]
    BY DEF SweepStale
  <2> QED
    BY <1>2, <2>1
<1> QED
  BY <1>1, <1>2, <1>3 DEF StatusKept, Over, TerminalJob

LEMMA SweepStaleKeeps ==
    ASSUME Inv, SweepStale
    PROVE  Inv'
<1>1. /\ sweep' = [sweep EXCEPT !.at = "publish"]
      /\ UNCHANGED <<agentVars, held, reg, loop, msg, clean, current, creation, viewing, counts>>
  BY DEF SweepStale
<1>2. Kept /\ LoopInv' /\ ViewInv' /\ ViewTypeOK'
  BY <1>1, Swept, AgentStays, LoopSame, ViewSame DEF Inv, Kept
<1>3. ServerTypeOK'
  BY <1>1, Swept DEF Inv, ServerTypeOK, counts
<1>4. SweepInv'
  BY <1>1, Swept DEF Inv, ServerTypeOK, SweepInv, Over, TerminalJob
<1>5. RowInv'
  <2>1. ASSUME NEW j \in Job
        PROVE  /\ creation[j] = "new" <=> row'[j].status = "none"
               /\ creation[j] \in {"send", "undo"} => row'[j].status \in {"queued", "timeout"}
               /\ creation[j] = "undone" => Over(j)'
    <3>1. CASE j \in sweep.ids
      <4>1. creation[j] # "new" /\ row'[j].status = "timeout"
        BY <3>1, Swept DEF Inv, SweepInv, RowInv
      <4> QED
        BY <4>1 DEF Over, TerminalJob
    <3>2. CASE j \notin sweep.ids
      BY <3>2, Swept DEF Inv, RowInv, Over
    <3> QED
      BY <3>1, <3>2
  <2> QED
    BY <1>1, <2>1 DEF RowInv
<1> QED
  BY <1>2, <1>3, <1>4, <1>5 DEF Inv, Kept

LEMMA PublishStaleKeeps ==
    ASSUME Inv, PublishStale
    PROVE  Inv'
<1>1. /\ sweep.at = "publish" /\ sweep' = [at |-> "idle", ids |-> {}]
      /\ Announce(sweep.ids, DoneEvent)
      /\ UNCHANGED <<agentVars, row, reg, loop, msg, clean, current, creation, view, counts>>
  BY DEF PublishStale, Announce
<1>2. \A j \in sweep.ids \cap Job : Over(j)
  BY <1>1 DEF Inv, SweepInv
<1>3. StatusKept /\ ViewInv' /\ ViewTypeOK' /\ Kept
  BY <1>1, <1>2, EventTyped, SayingKeeps, AgentStays
<1>4. held' \in [Job -> Seq(Piece)]
  BY EmptyWire DEF PublishStale, Inv, ServerTypeOK
<1>5. ServerTypeOK' /\ SweepInv'
  BY <1>1, <1>4 DEF Inv, ServerTypeOK, SweepInv, counts
<1>6. RowInv' /\ LoopInv'
  BY <1>1, <1>3, RowSame, LoopSame DEF Inv, Kept
<1> QED
  BY <1>3, <1>5, <1>6 DEF Inv, Kept

-----------------------------------------------------------------------------
(* The dashboards. *)

\* The server does not notice who watches.
LEMMA Watched ==
    ASSUME Inv, UNCHANGED <<agentVars, server, counts>>, ViewInv', ViewTypeOK'
    PROVE  Inv'
<1>1. Kept /\ StatusKept
  BY AgentStays, RowsStay DEF server
<1>2. ServerTypeOK'
  BY DEF Inv, ServerTypeOK, server, counts
<1>3. LoopInv' /\ SweepInv' /\ RowInv'
  BY <1>1, Beside, RowSame DEF server, Inv
<1> QED
  BY <1>1, <1>2, <1>3 DEF Inv, Kept

\* What has to hold of the one dashboard that takes a step.
LEMMA ViewMoves ==
    ASSUME Inv, NEW v \in Viewers, UNCHANGED row, NEW new \in View, NEW queue \in Seq(Event),
           view' = [view EXCEPT ![v] = new], events' = [events EXCEPT ![v] = queue],
           new.state # "off" => new.job \in Job,
           new.state # "open" => queue = <<>>,
           new.state = "read" /\ new.row.status \in TerminalJob => Over(new.job),
           new.state = "told" => Over(new.job),
           \A i \in 1 .. Len(queue) : queue[i].type = "done" => Over(new.job)
    PROVE  ViewInv' /\ ViewTypeOK'
<1>1. view \in [Viewers -> View] /\ events \in [Viewers -> Seq(Event)]
  BY DEF Inv, ViewTypeOK
<1>2. ViewTypeOK'
  BY <1>1 DEF ViewTypeOK
<1>3. view'[v] = new /\ events'[v] = queue
  BY <1>1
<1>4. ASSUME NEW w \in Viewers
      PROVE  /\ view'[w].state # "off" => view'[w].job \in Job
             /\ view'[w].state # "open" => events'[w] = <<>>
             /\ view'[w].state = "read" /\ view'[w].row.status \in TerminalJob => Over(view[w].job)'
             /\ view'[w].state = "told" => Over(view[w].job)'
             /\ \A i \in 1 .. Len(events'[w]) : events'[w][i].type = "done" => Over(view[w].job)'
  <2>1. CASE w = v
    BY <1>3, <2>1 DEF Over
  <2>2. CASE w # v
    <3>1. view'[w] = view[w] /\ events'[w] = events[w]
      BY <1>1, <2>2
    <3> QED
      BY <3>1 DEF Inv, ViewInv, Over
  <2> QED
    BY <2>1, <2>2
<1>5. ViewInv'
  BY <1>4 DEF ViewInv
<1> QED
  BY <1>2, <1>5

LEMMA ViewQuiet ==
    ASSUME Inv, NEW v \in Viewers, UNCHANGED row, NEW new \in View,
           view' = [view EXCEPT ![v] = new], events' = [events EXCEPT ![v] = <<>>],
           new.job \in Job,
           new.state = "read" /\ new.row.status \in TerminalJob => Over(new.job),
           new.state = "told" => Over(new.job)
    PROVE  ViewInv' /\ ViewTypeOK'
<1> DEFINE queue == <<>>
<1>1. queue \in Seq(Event) /\ \A i \in 1 .. Len(queue) : FALSE
  OBVIOUS
<1>2. events' = [events EXCEPT ![v] = queue] /\ queue = <<>>
  OBVIOUS
<1> HIDE DEF queue
<1> QED
  BY <1>1, <1>2, ViewMoves

LEMMA ReadJobKeeps ==
    ASSUME Inv, NEW v \in Viewers, NEW j \in Job, ReadJob(v, j)
    PROVE  Inv'
<1> DEFINE new == [view[v] EXCEPT !.state = "read", !.job = j, !.row = row[j]]
<1>1. view[v].state = "off" /\ UNCHANGED <<agentVars, server, events, counts>>
  BY DEF ReadJob
<1>2. /\ view \in [Viewers -> View] /\ events \in [Viewers -> Seq(Event)]
      /\ view[v] \in View /\ row[j] \in Row /\ events[v] = <<>>
  BY <1>1 DEF Inv, ViewTypeOK, ServerTypeOK, ViewInv
<1>3. new \in View /\ new.state = "read" /\ new.job = j /\ new.row = row[j]
  BY <1>2 DEF View
<1>4. view' = [view EXCEPT ![v] = new] /\ events' = [events EXCEPT ![v] = <<>>]
  BY <1>1, <1>2 DEF ReadJob
<1>5. new.row.status \in TerminalJob => Over(new.job)
  BY <1>3 DEF Over
<1>6. UNCHANGED row
  BY <1>1 DEF server
<1> HIDE DEF new
<1>7. ViewInv' /\ ViewTypeOK'
  BY <1>3, <1>4, <1>5, <1>6, ViewQuiet
<1> QED
  BY <1>1, <1>7, Watched

LEMMA NewRowTyped == NewRow \in Row
BY ChannelAssumption DEF NewRow, Row, JobState, Stored

LEMMA SubscribeKeeps ==
    ASSUME Inv, NEW v \in Viewers, Subscribe(v)
    PROVE  Inv'
<1> DEFINE to == IF view[v].row.status \in TerminalJob THEN "told" ELSE "open"
           new == [view[v] EXCEPT !.state = to, !.shown = view[v].row.output, !.row = NewRow]
<1>1. view[v].state = "read" /\ UNCHANGED <<agentVars, server, events, counts>>
  BY DEF Subscribe
<1>2. /\ view \in [Viewers -> View] /\ events \in [Viewers -> Seq(Event)]
      /\ view[v] \in View /\ view[v].job \in Job /\ events[v] = <<>>
  BY <1>1 DEF Inv, ViewTypeOK, ViewInv
<1>3. view[v].row.output \in Seq(Piece)
  BY <1>2 DEF View, Row, Stored
<1>4. new \in View /\ new.state = to /\ new.job = view[v].job
  BY <1>2, <1>3, NewRowTyped DEF View
<1>5. view' = [view EXCEPT ![v] = new] /\ events' = [events EXCEPT ![v] = <<>>]
  BY <1>1, <1>2 DEF Subscribe
<1>6. new.state = "told" => Over(new.job)
  BY <1>1, <1>4 DEF Inv, ViewInv
<1>7. UNCHANGED row /\ new.state # "read" /\ new.job \in Job
  BY <1>1, <1>2, <1>4 DEF server
<1> HIDE DEF new
<1>8. ViewInv' /\ ViewTypeOK'
  BY <1>4, <1>5, <1>6, <1>7, ViewQuiet
<1> QED
  BY <1>1, <1>8, Watched

LEMMA ShowKeeps ==
    ASSUME Inv, NEW v \in Viewers, Show(v)
    PROVE  Inv'
<1> DEFINE e == Head(events[v])
           to == IF e.type = "done" THEN "told" ELSE view[v].state
           new == [view[v] EXCEPT !.shown = view[v].shown \o e.chunk, !.state = to]
           queue == IF e.type = "done" THEN <<>> ELSE Tail(events[v])
<1>1. /\ view[v].state = "open" /\ events[v] # <<>>
      /\ UNCHANGED <<agentVars, server, counts>>
  BY DEF Show
<1>2. /\ view \in [Viewers -> View] /\ events \in [Viewers -> Seq(Event)]
      /\ view[v] \in View /\ view[v].job \in Job /\ events[v] \in Seq(Event)
  BY <1>1 DEF Inv, ViewTypeOK, ViewInv
<1>3. e \in Event /\ queue \in Seq(Event) /\ e = events[v][1] /\ 1 \in 1 .. Len(events[v])
  BY <1>1, <1>2, SeqParts, EmptyWire
<1>4. view[v].shown \o e.chunk \in Seq(Piece)
  <2>1. view[v].shown \in Seq(Piece) /\ e.chunk \in Seq(Piece)
    BY <1>2, <1>3 DEF View, Event
  <2> QED
    BY <2>1
<1>5. new \in View /\ new.state = to /\ new.job = view[v].job
  BY <1>1, <1>2, <1>4 DEF View
<1>6. view' = [view EXCEPT ![v] = new] /\ events' = [events EXCEPT ![v] = queue]
  BY <1>1, <1>2 DEF Show
<1>7. e.type = "done" => Over(view[v].job)
  BY <1>3 DEF Inv, ViewInv
<1>8. \A i \in 1 .. Len(queue) : queue[i].type = "done" => Over(view[v].job)
  <2>1. ASSUME NEW i \in 1 .. Len(queue)
        PROVE  i + 1 \in 1 .. Len(events[v]) /\ queue[i] = events[v][i + 1]
    BY <1>1, <1>2
  <2> QED
    BY <2>1 DEF Inv, ViewInv
<1>9. /\ UNCHANGED row /\ new.state \in {"told", "open"} /\ new.job \in Job
      /\ (new.state = "told" => Over(new.job) /\ queue = <<>>)
  BY <1>1, <1>2, <1>5, <1>7 DEF server
<1> HIDE DEF new, queue
<1>10. ViewInv' /\ ViewTypeOK'
  BY <1>3, <1>5, <1>6, <1>8, <1>9, ViewMoves
<1> QED
  BY <1>1, <1>10, Watched

LEMMA LeaveKeeps ==
    ASSUME Inv, NEW v \in Viewers, Leave(v)
    PROVE  Inv'
<1> DEFINE new == [view[v] EXCEPT !.state = "left"]
<1>1. /\ view[v].state = "open" /\ UNCHANGED <<agentVars, server, counts>>
      /\ view' = [view EXCEPT ![v] = new] /\ events' = [events EXCEPT ![v] = <<>>]
  BY DEF Leave
<1>2. new \in View /\ new.state = "left" /\ new.job \in Job /\ UNCHANGED row
  BY <1>1 DEF Inv, ViewTypeOK, ViewInv, View, server
<1> HIDE DEF new
<1>3. ViewInv' /\ ViewTypeOK'
  BY <1>1, <1>2, ViewQuiet
<1> QED
  BY <1>1, <1>3, Watched

-----------------------------------------------------------------------------
(* What goes wrong. *)

LEMMA FaultCounted ==
    ASSUME Inv, Fault
    PROVE  asks' \in 0 .. MaxAsks /\ faults' \in 0 .. MaxFaults
BY ChannelAssumption DEF Fault, Inv, ServerTypeOK

\* The agent's side breaks; the server has not noticed yet.
LEMMA AgentFailsKeeps ==
    ASSUME Inv, SocketBreaks \/ AgentCrashes
    PROVE  Inv'
<1>1. Kept /\ StatusKept /\ UNCHANGED <<server, viewing>>
  BY BreakKeeps, DeathKeeps, RowsStay DEF SocketBreaks, AgentCrashes, server, Inv
<1>2. ServerTypeOK'
  BY <1>1, FaultCounted DEF SocketBreaks, AgentCrashes, Inv, ServerTypeOK, server
<1>3. LoopInv' /\ SweepInv' /\ RowInv' /\ ViewInv' /\ ViewTypeOK'
  BY <1>1, Beside, RowSame, ViewSame DEF server, Inv
<1> QED
  BY <1>1, <1>2, <1>3 DEF Inv, Kept

LEMMA LoopFailsKeeps ==
    ASSUME Inv, NEW c \in Conn, LoopFails(c)
    PROVE  Inv'
<1>1. /\ Idle(c, "closed") /\ up' = [up EXCEPT ![c] = <<>>]
      /\ UNCHANGED <<conn, serve, down, reader, frame, outbox, jobVars>>
      /\ UNCHANGED <<row, held, creation, sweep, viewing>>
  BY DEF LoopFails, Dropped, ExceptUp
<1>2. intact' \in BOOLEAN
  BY DEF LoopFails, Dropped, ExceptUp, Inv, AgentInv, AgentPlaces
<1>3. up' \in [Conn -> Seq(Reports(Begun))] /\ Sent' = Sent
  BY <1>1, EmptyWire DEF Inv, AgentInv, Sent
<1>4. Kept
  BY <1>1, <1>2, <1>3, WireTaken DEF Inv
<1>5. loop' = [loop EXCEPT ![c] = "closed"] /\ msg' = [msg EXCEPT ![c] = Logs]
      /\ "closed" \notin Working
  BY <1>1, IdleTyped DEF Working
<1>6. reg' \in 0 .. MaxConn /\ current' \in [Conn -> Seq(Piece)]
  BY EmptyWire, AgentAssumption DEF LoopFails, Inv, ServerTypeOK
<1>7. asks' \in 0 .. MaxAsks /\ faults' \in 0 .. MaxFaults
  BY FaultCounted DEF LoopFails
<1>8. ServerTypeOK'
  BY <1>1, <1>5, <1>6, <1>7, IdleTyped DEF Inv, ServerTypeOK
<1> QED
  BY <1>1, <1>4, <1>5, <1>8, LoopStepKeeps

LEMMA RestartKeeps ==
    ASSUME Inv, Restart
    PROVE  Inv'
<1>1. Sent \subseteq Sent'
  BY DEF Restart, Sent, Inv, ServerTypeOK
<1>2. Kept
  <2>1. up' \in [Conn -> Seq(Reports(Begun))]
    BY EmptyWire DEF Restart
  <2> QED
    BY <1>1, <2>1, WireTaken DEF Restart, Dropped, Inv
<1>3. UNCHANGED row /\ StatusKept
  BY RowsStay DEF Restart
<1>4. ServerTypeOK'
  <2>1. asks' \in 0 .. MaxAsks /\ faults' \in 0 .. MaxFaults
    BY FaultCounted DEF Restart
  <2>2. /\ held' \in [Job -> Seq(Piece)] /\ msg' \in [Conn -> ToServer]
        /\ clean' \in [Conn -> Seq(Piece)] /\ current' \in [Conn -> Seq(Piece)]
    BY EmptyWire, LogsSay DEF Restart
  <2>4. /\ row' \in [Job -> Row] /\ reg' \in 0 .. MaxConn
        /\ loop' \in [Conn -> {"none", "receive", "mark", "append", "update", "publish",
                              "finish", "done", "closed"}]
        /\ creation' \in [Job -> {"new", "send", "undo", "undone", "over"}]
        /\ sweep' \in [at: {"idle", "update", "publish"}, ids: SUBSET Job]
    BY AgentAssumption DEF Restart, Inv, ServerTypeOK
  <2> QED
    BY <2>1, <2>2, <2>4 DEF ServerTypeOK
<1>5. LoopInv'
  BY DEF Restart, LoopInv, Working
<1>6. RowInv'
  BY DEF Restart, Inv, RowInv, ServerTypeOK, Over
<1>7. SweepInv'
  BY DEF Restart, SweepInv
<1>8. ASSUME NEW v \in Viewers
      PROVE  /\ view'[v] \in View /\ view'[v].job = view[v].job
             /\ view'[v].state \in {"off", "told", "left"}
             /\ view'[v].state = "told" => view[v].state = "told"
             /\ view'[v].state # "off" => view[v].state # "off"
             /\ events'[v] = <<>>
  <2>1. view[v] \in View
    BY DEF Inv, ViewTypeOK
  <2>2. view'[v] = IF view[v].state \in {"read", "open"}
                   THEN [view[v] EXCEPT !.state = "left"] ELSE view[v]
    BY DEF Restart
  <2>4. events'[v] = <<>>
    BY DEF Restart
  <2> QED
    BY <2>1, <2>2, <2>4 DEF View
<1>9. ViewTypeOK'
  <2>1. view' = [v \in Viewers |-> view'[v]] /\ events' = [v \in Viewers |-> <<>>]
    BY DEF Restart
  <2> QED
    BY <1>8, <2>1, EmptyWire DEF ViewTypeOK
<1>10. ViewInv'
  BY <1>3, <1>8 DEF Inv, ViewInv, StatusKept
<1> QED
  BY <1>2, <1>4, <1>5, <1>6, <1>7, <1>9, <1>10 DEF Inv, Kept

-----------------------------------------------------------------------------
(* The theorems. *)

LEMMA InvInit == Init => Inv
<1> SUFFICES ASSUME Init PROVE Inv
  OBVIOUS
<1>1. Begun = {} /\ Sent = {}
  BY DEF Init, AgentInit, Begun, Sent
<1>2. AgentPlaces
  <2>1. /\ conn \in 0 .. MaxConn /\ serve = "away"
        /\ reader \in [Conn -> {"none", "read", "hold", "failed", "gone"}]
    BY AgentAssumption DEF Init, AgentInit
  <2>2. intact \in BOOLEAN
    BY Zenon DEF Init, AgentInit
  <2>3. /\ at \in [Job -> {"idle", "start", "run", "result", "rescan", "end"}]
        /\ result \in [Job -> Result]
    BY DEF Init, AgentInit, Result
  <2>4. over \in [Job -> 0 .. MaxConn] /\ wrote \in [Job -> 0 .. MaxChunk]
    BY AgentAssumption DEF Init, AgentInit
  <2> QED
    BY <2>1, <2>2, <2>3, <2>4 DEF AgentPlaces
<1>3. AgentInv
  BY <1>1, <1>2, EmptyWire, NoFrameSays DEF Init, AgentInit, AgentInv
<1>4. ServerTypeOK
  BY AgentAssumption, ChannelAssumption, EmptyWire, LogsSay, NewRowTyped
  DEF Init, ServerTypeOK
<1>5. ViewTypeOK
  BY EmptyWire, NewRowTyped DEF Init, ViewTypeOK, View
<1>6. LoopInv /\ SweepInv
  BY DEF Init, LoopInv, SweepInv, Working
<1>7. RowInv
  <2>1. ASSUME NEW j \in Job
        PROVE  /\ creation[j] = "new" <=> row[j].status = "none"
               /\ creation[j] \in {"send", "undo"} => row[j].status \in {"queued", "timeout"}
               /\ creation[j] = "undone" => Over(j)
    BY DEF Init, NewRow
  <2> QED
    BY <2>1, Zenon DEF RowInv
<1>8. ViewInv
  BY DEF Init, ViewInv
<1> QED
  BY <1>3, <1>4, <1>5, <1>6, <1>7, <1>8 DEF Inv

LEMMA InvStep == Inv /\ [Next]_vars => Inv'
<1> SUFFICES ASSUME Inv, [Next]_vars PROVE Inv'
  OBVIOUS
<1>1. CASE Connect
  BY <1>1, ConnectKeeps
<1>2. CASE Agent
  <2>1. Kept /\ StatusKept /\ UNCHANGED <<server, viewing, counts>>
    BY <1>2, AgentKeeps, RowsStay DEF Agent, server, Inv
  <2>2. ServerTypeOK'
    BY <2>1 DEF Inv, ServerTypeOK, server, counts
  <2>3. LoopInv' /\ SweepInv' /\ RowInv' /\ ViewInv' /\ ViewTypeOK'
    BY <2>1, Beside, RowSame, ViewSame DEF server, Inv
  <2> QED
    BY <2>1, <2>2, <2>3 DEF Inv, Kept
<1>3. CASE AskLogs
  BY <1>3, AskLogsKeeps
<1>4. CASE Sweep
  BY <1>4, SelectStaleKeeps, SweepStaleKeeps, PublishStaleKeeps DEF Sweep
<1>5. CASE Failure
  BY <1>5, AgentFailsKeeps, RestartKeeps, LoopFailsKeeps DEF Failure
<1>6. ASSUME NEW c \in Conn, AgentSocket(c) PROVE Inv'
  BY <1>6, SocketKeeps
<1>7. ASSUME NEW j \in Job, Request(j) PROVE Inv'
  BY <1>7, CreateKeeps, DispatchKeeps, DispatchFailsKeeps, UndispatchedKeeps,
     PublishUndispatchedKeeps DEF Request
<1>8. ASSUME NEW v \in Viewers, Watch(v) PROVE Inv'
  BY <1>8, ReadJobKeeps, SubscribeKeeps, ShowKeeps, LeaveKeeps DEF Watch
<1>9. CASE UNCHANGED vars
  <2>1. UNCHANGED <<agentVars, server, counts, viewing, row>>
    BY <1>9 DEF vars, server
  <2>2. ViewInv' /\ ViewTypeOK'
    BY <2>1, RowsStay, ViewSame DEF Inv
  <2> QED
    BY <2>1, <2>2, Watched
<1> QED
  BY <1>1, <1>2, <1>3, <1>4, <1>5, <1>6, <1>7, <1>8, <1>9 DEF Next

\* In every reachable state only jobs whose request is over are known to the
\* agent, and only jobs the agent has begun are reported.
THEOREM Invariant == Spec => []Inv
<1> QED
  BY InvInit, InvStep, PTL DEF Spec

\* The variables of the agent, of the receive loops and of the hub have their
\* types; in particular the stored output is never longer than MAX_OUTPUT_BYTES.
THEOREM TypeCorrect == Spec => []TypeOK
<1>1. Inv => TypeOK
  BY AgentTyped DEF Inv, ServerTypeOK, ViewTypeOK, TypeOK
<1> QED
  BY <1>1, Invariant, PTL

\* Whatever fails, and however late its events come, a dashboard is told that a
\* job is over only when the jobs table says so, and that stays.
THEOREM ToldIsTrue == Spec => []ToldIsOver
<1>1. Inv => ToldIsOver
  BY DEF Inv, ViewInv, ToldIsOver
<1> QED
  BY <1>1, Invariant, PTL

-----------------------------------------------------------------------------
(* The status column implements JobLife. *)

Statuses == [j \in Job |-> row[j].status]

\* A step of JobLife, a sweep that comes too late, or none.
LifeStep == [Life!Next \/ \E j \in Job : SweptLate(j)]_Statuses

LEMMA SameStatuses ==
    (\A j \in Job : row'[j].status = row[j].status) => LifeStep
BY DEF LifeStep, Statuses

LEMMA OneStatus ==
    ASSUME Inv, NEW j \in Job, \A i \in Job \ {j} : row'[i] = row[i],
           \/ row'[j].status = row[j].status
           \/ row[j].status = "none" /\ row'[j].status = "queued"
           \/ row[j].status = "queued" /\ row'[j].status = "running"
           \/ row[j].status \in ActiveJob /\ row'[j].status \in TerminalJob
    PROVE  LifeStep
<1>1. Statuses' = [Statuses EXCEPT ![j] = row'[j].status] /\ Statuses[j] = row[j].status
  BY DEF Statuses
<1>2. CASE row'[j].status = row[j].status
  BY <1>2, SameStatuses
<1>3. CASE row[j].status = "none" /\ row'[j].status = "queued"
  <2>1. Life!Queue(j)
    BY <1>1, <1>3 DEF Life!Queue, Life!Move, Statuses
  <2> QED
    BY <2>1 DEF LifeStep, Life!Next
<1>4. CASE row[j].status = "queued" /\ row'[j].status = "running"
  <2>1. Life!Start(j)
    BY <1>1, <1>4 DEF Life!Start, Life!Move, Statuses
  <2> QED
    BY <2>1 DEF LifeStep, Life!Next
<1>5. CASE row[j].status \in ActiveJob /\ row'[j].status \in TerminalJob
  <2>1. Life!Finish(j)
    BY <1>1, <1>5 DEF Life!Finish, Life!Move, Statuses, ActiveJob, TerminalJob,
                      Life!ActiveJob, Life!TerminalJob
  <2> QED
    BY <2>1 DEF LifeStep, Life!Next
<1> QED
  BY <1>2, <1>3, <1>4, <1>5

\* What a row can become under the UPDATEs of a receive loop.
LEMMA StatusMoves ==
    ASSUME NEW s \in JobState, s # "none"
    PROVE  /\ AfterStarted(s) = s \/ (s = "queued" /\ AfterStarted(s) = "running")
           /\ \A r : \/ AfterResult(s, r) = s
                     \/ s \in ActiveJob /\ AfterResult(s, r) \in TerminalJob
BY DEF AfterStarted, AfterResult, JobState, ActiveJob, TerminalJob

LEMMA LifeKept == Inv /\ [Next]_vars => LifeStep
<1> SUFFICES ASSUME Inv, [Next]_vars PROVE LifeStep
  OBVIOUS
<1>1. CASE UNCHANGED row
  BY <1>1, SameStatuses
<1>2. ASSUME NEW c \in Conn, AgentSocket(c)
      PROVE  LifeStep
  <2> DEFINE j == msg[c].job
  <2>1. CASE MarkRunning(c) \/ FinishJob(c)
    <3>1. j \in Job /\ row[j].status # "none" /\ row[j].status \in JobState /\ row[j] \in Row
      <4>1. loop[c] \in Working
        BY <2>1 DEF MarkRunning, FinishJob, Working
      <4> QED
        BY <4>1, AtWork DEF Inv, ServerTypeOK, Row
    <3>2. \/ row' = [row EXCEPT ![j].status = AfterStarted(row[j].status)]
          \/ row' = [row EXCEPT ![j].status = AfterResult(row[j].status, msg[c].status)]
      BY <2>1 DEF MarkRunning, FinishJob, SetStatus
    <3>3. /\ \A i \in Job \ {j} : row'[i] = row[i]
          /\ \/ row'[j].status = AfterStarted(row[j].status)
             \/ row'[j].status = AfterResult(row[j].status, msg[c].status)
      BY <3>1, <3>2 DEF Inv, ServerTypeOK, Row
    <3> QED
      BY <3>1, <3>3, StatusMoves, OneStatus
  <2>2. CASE UpdateOutput(c)
    <3>1. j \in Job
      <4>1. loop[c] \in Working
        BY <2>2 DEF UpdateOutput, Working
      <4> QED
        BY <4>1, AtWork
    <3>2. \A i \in Job : row'[i].status = row[i].status
      BY <2>2, <3>1 DEF UpdateOutput, Inv, ServerTypeOK, Row
    <3> QED
      BY <3>2, SameStatuses
  <2>3. CASE \/ Disconnect(c) \/ JobStarted(c) \/ JobOutput(c) \/ JobResult(c)
             \/ OtherMessage(c) \/ ReadOutput(c) \/ PublishOutput(c) \/ PublishDone(c)
    BY <1>1, <2>3 DEF Disconnect, JobStarted, JobOutput, JobResult, OtherMessage, Receive,
                      ReadOutput, PublishOutput, PublishDone
  <2> QED
    BY <1>2, <2>1, <2>2, <2>3 DEF AgentSocket
<1>3. ASSUME NEW j \in Job, Request(j)
      PROVE  LifeStep
  <2>0. row \in [Job -> Row] /\ row[j] \in Row
    BY DEF Inv, ServerTypeOK
  <2>1. CASE Create(j)
    <3>1. row[j].status = "none" /\ row' = [row EXCEPT ![j].status = "queued"]
      BY <2>1 DEF Create, SetStatus, Inv, RowInv
    <3>2. row'[j].status = "queued" /\ \A i \in Job \ {j} : row'[i] = row[i]
      BY <2>0, <3>1 DEF Row
    <3> QED
      BY <3>1, <3>2, OneStatus
  <2>2. CASE Undispatched(j)
    <3>1. /\ \A i \in Job \ {j} : row'[i] = row[i]
          /\ \/ row'[j].status = row[j].status
             \/ row[j].status = "queued" /\ row'[j].status = "failed"
      BY <2>0, <2>2 DEF Undispatched, AfterUndispatched
    <3> QED
      BY <3>1, OneStatus DEF ActiveJob, TerminalJob
  <2>3. CASE Dispatch(j) \/ DispatchFails(j) \/ PublishUndispatched(j)
    BY <1>1, <2>3 DEF Dispatch, SendTo, DispatchFails, PublishUndispatched
  <2> QED
    BY <1>3, <2>1, <2>2, <2>3 DEF Request
<1>4. CASE Sweep
  <2>1. CASE SweepStale
    <3>1. sweep.ids \in SUBSET Job /\ \A j \in sweep.ids : Statuses[j] # "none"
      BY DEF Inv, ServerTypeOK, SweepInv, Statuses
    <3>2. Statuses' = [j \in Job |-> IF j \in sweep.ids THEN "timeout" ELSE Statuses[j]]
      BY <2>1, Swept DEF Statuses
    <3>3. CASE \A j \in sweep.ids : Statuses[j] \in ActiveJob
      <4>1. \A j \in sweep.ids : Statuses[j] \in Life!ActiveJob
        BY <3>3 DEF ActiveJob, Life!ActiveJob
      <4>2. \E js \in SUBSET Job : Life!Sweep(js)
        BY <3>1, <3>2, <4>1, ZenonT(60) DEF Life!Sweep, Statuses
      <4> QED
        BY <4>2 DEF LifeStep, Life!Next
    <3>4. ASSUME NEW j \in sweep.ids, Statuses[j] \notin ActiveJob
          PROVE  LifeStep
      <4>1. row[j].status \in TerminalJob /\ j \in Job
        BY <3>1, <3>4 DEF Inv, ServerTypeOK, Row, Statuses, JobState
      <4>2. \A i \in Job : row'[i].status = IF i \in sweep.ids THEN "timeout" ELSE row[i].status
        BY <2>1, Swept
      <4>3. SweptLate(j)
        BY <4>1, <4>2 DEF SweptLate
      <4> QED
        BY <4>1, <4>3 DEF LifeStep
    <3> QED
      BY <3>3, <3>4
  <2>2. CASE SelectStale \/ PublishStale
    BY <1>1, <2>2 DEF SelectStale, PublishStale
  <2> QED
    BY <1>4, <2>1, <2>2 DEF Sweep
<1>5. ASSUME NEW v \in Viewers, Watch(v)
      PROVE  LifeStep
  <2>1. UNCHANGED server
    <3>1. CASE \E j \in Job : ReadJob(v, j)
      BY <3>1 DEF ReadJob
    <3>2. CASE Subscribe(v) \/ Show(v) \/ Leave(v)
      BY <3>2 DEF Subscribe, Show, Leave
    <3> QED
      BY <1>5, <3>1, <3>2 DEF Watch
  <2> QED
    BY <1>1, <2>1 DEF server
<1>6. CASE Connect \/ Agent \/ AskLogs \/ UNCHANGED vars
  BY <1>1, <1>6 DEF Connect, Agent, AskLogs, SendTo, server, vars
<1>7. CASE Failure
  BY <1>1, <1>7 DEF Failure, SocketBreaks, AgentCrashes, Restart, LoopFails, server
<1> QED
  BY <1>2, <1>3, <1>4, <1>5, <1>6, <1>7 DEF Next

\* However late the messages of the agent come, a job goes through queued,
\* running and one end; the one step that is not of that life is a sweep of a
\* job that reported between the sweep's SELECT and its UPDATE.
THEOREM ChannelLives == Spec => LifeButLateSweep
<1>1. Init => Life!Init
  BY DEF Init, Life!Init, NewRow
<1>2. Inv /\ [Next]_vars => [Life!Next \/ \E j \in Job : SweptLate(j)]_Statuses
  BY LifeKept DEF LifeStep
<1>3. [Life!Next \/ \E j \in Job : SweptLate(j)]_Statuses
        = [Life!Next \/ \E j \in Job : SweptLate(j)]_[j \in Job |-> row[j].status]
  BY DEF Statuses
<1> QED
  BY <1>1, <1>2, <1>3, Invariant, PTL DEF Spec, LifeButLateSweep, Statuses
=============================================================================
