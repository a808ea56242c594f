------------------------------ MODULE BulkJobs ------------------------------
(***************************************************************************)
(* An action on many devices at once: the plan of a bulk dialog, runBulk's *)
(* workers (pages/devices/bulk.ts, BulkBar.tsx, BulkDialogs.tsx), the      *)
(* polling that follows the jobs they started (ui/toast.tsx) and the       *)
(* results of this session that the notification centre lists.             *)
(*                                                                         *)
(* Devices are numbered as the list shows them.  One run of runBulk at a   *)
(* time, any number of trackers; a run outlives the bar that started it,   *)
(* and the session too.                                                    *)
(***************************************************************************)
EXTENDS Naturals, Sequences, FiniteSets, SequencesExt

CONSTANTS
    Devices,     \* how many devices there are
    Workers,     \* runBulk's concurrency
    Batch,       \* BULK_POLL_BATCH
    MaxResults,  \* MAX_RESULTS
    MaxOps,      \* actions begun
    MaxSignOuts, \* changes of account
    Tags         \* tags that are set

ASSUME BulkAssumption ==
    {Devices, Workers, Batch, MaxResults, MaxOps} \subseteq Nat \ {0} /\ MaxSignOuts \in Nat

VARIABLES
    connected,  \* server: devices an agent is connected for
    jobs,       \* server: job of each action on each device
    tags,       \* server: tags of each device
    seen,       \* the device list as last loaded: connected and tags
    refetch,    \* the list has been invalidated
    ops,        \* actions begun so far
    bar,        \* the bulk bar: dialog, plan and run
    trackers,   \* of each action that started jobs
    results,    \* this session's job results, newest first
    generation, \* of the session
    born,       \* history: the session in which each action was confirmed
    astray      \* history: actions whose run was under way at a change of account

bulkPast == <<born, astray>>
bulkVars == <<connected, jobs, tags, seen, refetch, ops, bar, trackers, results, generation, bulkPast>>

-----------------------------------------------------------------------------
Dev == 1 .. Devices
Op == 1 .. MaxOps
JobEnd == {"done", "failed"}
Generation == 0 .. MaxSignOuts

\* phase: "closed", "asking" (a dialog or a confirmation is open), "running".
\* plan: the devices that the dialog names; next, sent, ok, failed: runBulk's.
ClosedBar == [phase |-> "closed", kind |-> "job", tag |-> "", plan |-> <<>>, set |-> <<>>,
              next |-> 1, sent |-> {}, ok |-> <<>>, failed |-> {}]
\* queue: jobs to ask about, polled: of this round, with the answers so far.
NoTracker == [state |-> "none", queue |-> <<>>, polled |-> {}, total |-> {},
              finished |-> {}, gen |-> 0]

Result == [op: Op, dev: Dev, status: JobEnd, gen: Generation]

BulkTypeOK ==
    /\ connected \subseteq Dev /\ jobs \in [Op -> [Dev -> {"none", "running"} \cup JobEnd]]
    /\ tags \in [Dev -> SUBSET Tags]
    /\ seen.connected \subseteq Dev /\ seen.tags \in [Dev -> SUBSET Tags]
    /\ refetch \in BOOLEAN /\ ops \in 0 .. MaxOps /\ generation \in Generation
    /\ bar.phase \in {"closed", "asking", "running"} /\ bar.kind \in {"job", "tag"}
    /\ {bar.plan, bar.ok} \subseteq Seq(Dev) /\ bar.next \in 1 .. Devices + 1
    /\ bar.sent \subseteq Dev /\ bar.failed \subseteq Dev
    /\ \A k \in Op : /\ trackers[k].state \in {"none", "polling", "stuck", "over"}
                     /\ trackers[k].queue \in Seq(Dev) /\ trackers[k].polled \subseteq Dev
                     /\ trackers[k].total \subseteq Dev /\ trackers[k].finished \subseteq Dev
    /\ results \in Seq(Result) /\ Len(results) <= MaxResults
    /\ born \in [Op -> Generation] /\ astray \subseteq Op

BulkInit ==
    /\ connected = Dev /\ jobs = [k \in Op |-> [d \in Dev |-> "none"]]
    /\ tags = [d \in Dev |-> {}] /\ seen = [connected |-> Dev, tags |-> [d \in Dev |-> {}]]
    /\ refetch = FALSE /\ ops = 0 /\ bar = ClosedBar
    /\ trackers = [k \in Op |-> NoTracker] /\ results = <<>> /\ generation = 0
    /\ born = [k \in Op |-> 0] /\ astray = {}

-----------------------------------------------------------------------------
(* The bar and its dialogs.                                                *)

\* partition: the chosen devices that pass every rule, in the order of the list.
Targets(S, passing) ==
    {plan \in [1 .. Cardinality(S \cap passing) -> S \cap passing] :
        \A i, j \in DOMAIN plan : i < j => plan[i] < plan[j]}

\* restart, updateAgents, ScriptDialog, SoftwareDialog: the plan is made when
\* the dialog asks, from the list as it is then.
AskJobs(S) == \E plan \in Targets(S, seen.connected) :
    /\ bar.phase = "closed" /\ ops < MaxOps /\ plan # <<>>
    /\ bar' = [ClosedBar EXCEPT !.phase = "asking", !.plan = plan]
    /\ UNCHANGED <<connected, jobs, tags, seen, refetch, ops, trackers, results, generation, bulkPast>>

\* TagsDialog, adding: devices that lack the tag, with the list that each of
\* them is going to be sent.
AskTags(S, t) == \E plan \in Targets(S, {d \in Dev : t \notin seen.tags[d]}) :
    /\ bar.phase = "closed" /\ ops < MaxOps /\ plan # <<>>
    /\ bar' = [ClosedBar EXCEPT !.phase = "asking", !.kind = "tag", !.tag = t, !.plan = plan,
                                !.set = [d \in Dev |-> seen.tags[d] \cup {t}]]
    /\ UNCHANGED <<connected, jobs, tags, seen, refetch, ops, trackers, results, generation, bulkPast>>

\* Cancelled, closed, or gone with the page that showed it.
Dismiss ==
    /\ bar.phase = "asking" /\ bar' = ClosedBar
    /\ UNCHANGED <<connected, jobs, tags, seen, refetch, ops, trackers, results, generation, bulkPast>>

Confirm ==
    /\ bar.phase = "asking" /\ bar' = [bar EXCEPT !.phase = "running"] /\ ops' = ops + 1
    /\ born' = [born EXCEPT ![ops + 1] = generation]
    /\ UNCHANGED <<connected, jobs, tags, seen, refetch, trackers, results, generation, astray>>

-----------------------------------------------------------------------------
(* runBulk: each worker takes the next item when its last has settled.     *)

WorkerStopsAtFailure == bar.failed = {} /\ bar.next <= Len(bar.plan) /\ Cardinality(bar.sent) < Workers
WorkerTakes == bar.next <= Len(bar.plan) /\ Cardinality(bar.sent) < Workers

SendNext ==
    /\ bar.phase = "running" /\ WorkerTakes
    /\ bar' = [bar EXCEPT !.sent = @ \cup {bar.plan[bar.next]}, !.next = @ + 1]
    /\ UNCHANGED <<connected, jobs, tags, seen, refetch, ops, trackers, results, generation, bulkPast>>

\* The request is served: a job is created, failed on the spot without a
\* connection, or the device's whole list of tags is written.
RequestServed(d) ==
    /\ d \in bar.sent
    /\ bar' = [bar EXCEPT !.sent = @ \ {d}, !.ok = Append(@, d)]
    /\ IF bar.kind = "job"
         THEN /\ jobs' = [jobs EXCEPT ![ops][d] = IF d \in connected THEN "running" ELSE "failed"]
              /\ UNCHANGED tags
         ELSE /\ tags' = [tags EXCEPT ![d] = bar.set[d]]
              /\ UNCHANGED jobs
    /\ UNCHANGED <<connected, seen, refetch, ops, trackers, results, generation, bulkPast>>

RequestFails(d) ==
    /\ d \in bar.sent
    /\ bar' = [bar EXCEPT !.sent = @ \ {d}, !.failed = @ \cup {d}]
    /\ UNCHANGED <<connected, jobs, tags, seen, refetch, ops, trackers, results, generation, bulkPast>>

\* All workers are through: startJobs follows what was started, for the
\* session of that moment; applyEach has the list read again.
RunEnds ==
    /\ bar.phase = "running" /\ bar.sent = {} /\ ~WorkerTakes
    /\ bar' = ClosedBar
    /\ IF bar.kind = "job"
         THEN /\ trackers' = [trackers EXCEPT ![ops] =
                   IF bar.ok = <<>> THEN NoTracker
                   ELSE [state |-> "polling", queue |-> bar.ok, polled |-> {}, total |-> ToSet(bar.ok),
                         finished |-> {}, gen |-> generation]]
              /\ UNCHANGED refetch
         ELSE refetch' = TRUE /\ UNCHANGED trackers
    /\ UNCHANGED <<connected, jobs, tags, seen, ops, results, generation, bulkPast>>

-----------------------------------------------------------------------------
(* trackJob and trackJobs: rounds of polls.                                *)

Single(k) == Cardinality(trackers[k].total) = 1
Current(k) == trackers[k].gen = generation
Polling(k) == trackers[k].state = "polling"

Round(k) ==
    LET t == trackers[k]
        n == IF Len(t.queue) < Batch THEN Len(t.queue) ELSE Batch IN
    /\ Polling(k) /\ t.polled = {} /\ t.queue # <<>>
    /\ trackers' = [trackers EXCEPT ![k] =
          IF Current(k) THEN [t EXCEPT !.queue = SubSeq(t.queue, n + 1, Len(t.queue)),
                                       !.polled = ToSet(SubSeq(t.queue, 1, n))]
                        ELSE [t EXCEPT !.state = "over"]]
    /\ UNCHANGED <<connected, jobs, tags, seen, refetch, ops, bar, results, generation, bulkPast>>

\* pushResult: in place of the job's earlier entry, of which there is one at
\* most, and only for the session that follows the job.
Newest(r) ==
    LET old == {i \in DOMAIN results : <<results[i].op, results[i].dev>> = <<r.op, r.dev>>} IN
    <<r>> \o IF old = {} THEN results ELSE RemoveAt(results, CHOOSE i \in old : TRUE)
PushedAll(r) == IF r.gen # generation THEN results ELSE Newest(r)
Pushed(r) ==
    IF r.gen # generation THEN results
    ELSE SubSeq(Newest(r), 1, IF Len(Newest(r)) < MaxResults THEN Len(Newest(r)) ELSE MaxResults)

\* A round is over when its polls have settled: the next one follows, or the
\* verdict.
AfterRound(t) == IF t.polled = {} /\ t.queue = <<>> THEN [t EXCEPT !.state = "over"] ELSE t

\* One poll answers: finished, or back in line.
PollAnswered(k, d) ==
    LET t == trackers[k]
        rest == [t EXCEPT !.polled = @ \ {d}] IN
    /\ Polling(k) /\ d \in t.polled
    /\ CASE ~Current(k) ->
              trackers' = [trackers EXCEPT ![k] = AfterRound(rest)] /\ UNCHANGED results
         [] Current(k) /\ jobs[k][d] \notin JobEnd ->
              trackers' = [trackers EXCEPT ![k].polled = @ \ {d}, ![k].queue = Append(@, d)]
              /\ UNCHANGED results
         [] OTHER ->
              /\ trackers' = [trackers EXCEPT ![k] = AfterRound([rest EXCEPT !.finished = @ \cup {d}])]
              /\ results' = Pushed([op |-> k, dev |-> d, status |-> jobs[k][d], gen |-> t.gen])
    /\ UNCHANGED <<connected, jobs, tags, seen, refetch, ops, bar, generation, bulkPast>>

\* A failed poll is not a failed job.
PollFails(k, d) ==
    /\ Polling(k) /\ d \in trackers[k].polled
    /\ trackers' = [trackers EXCEPT ![k].polled = @ \ {d}, ![k].queue = Append(@, d)]
    /\ UNCHANGED <<connected, jobs, tags, seen, refetch, ops, bar, results, generation, bulkPast>>

\* Two hours: the round is the last.  trackJob's toast is taken away when the
\* last poll is answered; when it fails, nothing takes it away.
GiveUp(k) ==
    /\ Polling(k) /\ Current(k) /\ trackers[k].polled = {} /\ trackers[k].queue # <<>>
    /\ \E st \in {"over"} \cup (IF Single(k) THEN {"stuck"} ELSE {}) :
          trackers' = [trackers EXCEPT ![k].state = st, ![k].queue = <<>>]
    /\ UNCHANGED <<connected, jobs, tags, seen, refetch, ops, bar, results, generation, bulkPast>>

-----------------------------------------------------------------------------
(* The session, the list and the devices.                                  *)

\* resetJobResults: the results go, and every toast.
ResetJobResults == results' = <<>> /\ generation' = generation + 1

ChangeAccount ==
    /\ generation < MaxSignOuts /\ ResetJobResults
    /\ bar' = IF bar.phase = "asking" THEN ClosedBar ELSE bar
    /\ trackers' = [k \in Op |-> IF trackers[k].state = "stuck" THEN [trackers[k] EXCEPT !.state = "over"]
                                                              ELSE trackers[k]]
    /\ astray' = IF bar.phase = "running" THEN astray \cup {ops} ELSE astray
    /\ UNCHANGED <<connected, jobs, tags, seen, refetch, ops, born>>

ListLoads ==
    /\ refetch \/ seen.connected # connected
    /\ seen' = [connected |-> connected, tags |-> tags] /\ refetch' = FALSE
    /\ UNCHANGED <<connected, jobs, tags, ops, bar, trackers, results, generation, bulkPast>>

JobFinishes(k, d) ==
    /\ jobs[k][d] = "running" /\ \E s \in JobEnd : jobs' = [jobs EXCEPT ![k][d] = s]
    /\ UNCHANGED <<connected, tags, seen, refetch, ops, bar, trackers, results, generation, bulkPast>>

AgentDrops(d) ==
    /\ d \in connected /\ connected' = connected \ {d}
    /\ UNCHANGED <<jobs, tags, seen, refetch, ops, bar, trackers, results, generation, bulkPast>>

-----------------------------------------------------------------------------
Bar ==
    \/ \E S \in SUBSET Dev \ {{}} : AskJobs(S) \/ \E t \in Tags : AskTags(S, t)
    \/ Dismiss \/ Confirm

BulkRun ==
    \/ SendNext \/ RunEnds
    \/ \E d \in Dev : RequestServed(d) \/ RequestFails(d)

Follow ==
    \E k \in Op : \/ Round(k) \/ GiveUp(k)
                  \/ \E d \in Dev : PollAnswered(k, d) \/ PollFails(k, d)

BulkNext ==
    \/ Bar \/ BulkRun \/ Follow
    \/ ChangeAccount \/ ListLoads
    \/ \E k \in Op, d \in Dev : JobFinishes(k, d)
    \/ \E d \in Dev : AgentDrops(d)

BulkSpec == BulkInit /\ [][BulkNext]_bulkVars

-----------------------------------------------------------------------------
(* Properties.                                                             *)

\* Every device of the plan is attempted, once, whatever fails on the others
\* ("one unreachable device must not leave the other eleven untouched"); and
\* every job that was started is in exactly one place until it has finished.
EveryDeviceOnce ==
    /\ bar.phase = "running" =>
          LET taken == {bar.plan[i] : i \in 1 .. bar.next - 1} IN
          /\ bar.sent \cup ToSet(bar.ok) \cup bar.failed = taken
          /\ Cardinality(bar.sent) + Len(bar.ok) + Cardinality(bar.failed) = bar.next - 1
          /\ bar.sent = {} /\ ~WorkerTakes => taken = ToSet(bar.plan)
    /\ \A k \in Op : Polling(k) /\ Current(k) =>
          LET t == trackers[k] IN
          /\ ToSet(t.queue) \cup t.polled \cup t.finished = t.total
          /\ Len(t.queue) + Cardinality(t.polled) + Cardinality(t.finished) = Cardinality(t.total)

\* The results are those of jobs that this session follows: a poll that was
\* under way at a change of account brings nothing to the next one, and what
\* is listed was asked for in this session, unless the account changed between
\* the confirmation and the last answer of the run: runBulk's end hands its jobs
\* to whoever is signed in by then.
AskedHere(k) == k \notin astray => born[k] = generation
ResultsOfSession == \A i \in 1 .. Len(results) : results[i].gen = generation /\ AskedHere(results[i].op)

\* Both: what becomes of every device of an action, and for whom.
JobsAccounted == EveryDeviceOnce /\ ResultsOfSession
=============================================================================
