----------------------------- MODULE FleetFeed ------------------------------
(***************************************************************************)
(* What keeps the dashboard's picture of the fleet fresh: the queries of   *)
(* useFleet with their poll and retries (api/queryClient.ts), the fleet    *)
(* socket that only hints, the scheduler that turns hints into loads, and  *)
(* the banner over pages whose data has grown old.                         *)
(*                                                                         *)
(* A list's data is the version of the fleet it was read at.  How long a   *)
(* gap, a backoff or a poll interval lasts is left out; that they come in  *)
(* between is not.                                                         *)
(***************************************************************************)
EXTENDS Integers, FiniteSets

CONSTANTS
    Lists,       \* the fleet's queries: "devices", "alerts", ...
    MaxWorld,    \* how often the fleet changes
    MaxOutages   \* how often the server goes down

ASSUME FeedAssumption ==
    {"devices", "alerts"} \subseteq Lists /\ MaxWorld \in Nat /\ MaxOutages \in Nat

VARIABLES
    world,     \* server: version of the fleet
    serverUp, outages,
    feedOn,    \* is there a session (useFleet's enabled)?
    lists,     \* the query of each list
    sched,     \* the refresh scheduler
    sock,      \* the fleet socket: "none", "connecting", "open", "waiting" to retry
    hintSent,  \* a hint is on the wire
    hinted     \* history: a hint has come and no load has started since

feedVars == <<world, serverUp, outages, feedOn, lists, sched, sock, hintSent, hinted>>

-----------------------------------------------------------------------------
None == -1
Version == 0 .. MaxWorld
Query == [data: Version \cup {None}, error: BOOLEAN,
          fetch: {"idle", "sent", "answered"}, answer: Version \cup {None}]
BlankQuery == [data |-> None, error |-> FALSE,
               fetch |-> "idle", answer |-> None]

\* waits: what the load under way has not heard of yet; timer: armed to ask
\* again; cool: the gap since the last start has not passed.
Scheduler == [waits: SUBSET Lists, queued: BOOLEAN, timer: BOOLEAN, cool: BOOLEAN]
NewScheduler == [waits |-> {}, queued |-> FALSE, timer |-> FALSE, cool |-> FALSE]

FeedTypeOK ==
    /\ world \in Version /\ serverUp \in BOOLEAN /\ outages \in 0 .. MaxOutages
    /\ feedOn \in BOOLEAN /\ lists \in [Lists -> Query] /\ sched \in Scheduler
    /\ sock \in {"none", "connecting", "open", "waiting"}
    /\ hintSent \in BOOLEAN /\ hinted \in BOOLEAN

FeedInit ==
    /\ world = 0 /\ serverUp = TRUE /\ outages = 0
    /\ feedOn = FALSE /\ lists = [q \in Lists |-> BlankQuery]
    /\ sched = NewScheduler /\ sock = "none" /\ hintSent = FALSE /\ hinted = FALSE

-----------------------------------------------------------------------------
(* Queries.                                                                *)

\* A fetch starts over: one under way is cancelled, and a list that never
\* arrived is pending again.
Fetching(q) == [q EXCEPT !.fetch = "sent", !.answer = None,
                         !.error = @ /\ q.data # None]
AllFetching == [q \in Lists |-> Fetching(lists[q])]

\* The scheduler's load is over when the last list it waits for has settled,
\* or was asked for anew; what was queued meanwhile goes through the throttle.
AfterSettleForgets(qs) ==
    [sched EXCEPT !.waits = @ \ qs, !.queued = @ /\ sched.waits \ qs # {}]
AfterSettle(qs) ==
    LET over == sched.waits # {} /\ sched.waits \subseteq qs IN
    [sched EXCEPT !.waits  = @ \ qs,
                  !.timer  = @ \/ (over /\ sched.queued),
                  !.queued = @ /\ ~over]

ServerAnswers(q) ==
    /\ lists[q].fetch = "sent" /\ serverUp
    /\ lists' = [lists EXCEPT ![q].fetch = "answered", ![q].answer = world]
    /\ UNCHANGED <<world, serverUp, outages, feedOn, sched, sock, hintSent, hinted>>

ListArrives(q) ==
    /\ lists[q].fetch = "answered"
    /\ lists' = [lists EXCEPT ![q] = [BlankQuery EXCEPT !.data = lists[q].answer]]
    /\ sched' = AfterSettle({q})
    /\ UNCHANGED <<world, serverUp, outages, feedOn, sock, hintSent, hinted>>

\* A network or server error leaves the data alone.  The query is repeated
\* before it counts (shouldRetry), which shows nowhere until one comes through.
ListFails(q) ==
    /\ lists[q].fetch = "sent" /\ ~serverUp
    /\ lists' = [lists EXCEPT ![q].fetch = "idle", ![q].error = TRUE]
    /\ sched' = AfterSettle({q})
    /\ UNCHANGED <<world, serverUp, outages, feedOn, sock, hintSent, hinted>>

\* The interval of a list does not disturb a fetch under way.
PollUnlessFailed(q) ==
    /\ feedOn /\ lists[q].fetch = "idle" /\ ~lists[q].error
    /\ lists' = [lists EXCEPT ![q] = Fetching(@)]
    /\ UNCHANGED <<world, serverUp, outages, feedOn, sched, sock, hintSent, hinted>>
Poll(q) ==
    /\ feedOn /\ lists[q].fetch = "idle"
    /\ lists' = [lists EXCEPT ![q] = Fetching(@)]
    /\ UNCHANGED <<world, serverUp, outages, feedOn, sched, sock, hintSent, hinted>>

\* refresh: a page's retry, the banner's button, a dialog that changed things.
Refresh ==
    /\ feedOn
    /\ lists' = AllFetching /\ sched' = AfterSettle(Lists)
    /\ UNCHANGED <<world, serverUp, outages, feedOn, sock, hintSent, hinted>>

-----------------------------------------------------------------------------
(* The scheduler.                                                          *)

HintArrives ==
    /\ sock = "open" /\ hintSent /\ hintSent' = FALSE
    /\ sched' = [sched EXCEPT !.timer = TRUE] /\ hinted' = TRUE
    /\ UNCHANGED <<world, serverUp, outages, feedOn, lists, sock>>

\* run: the timer, set to the end of the gap, has fired.
LoadStarts ==
    /\ sched.timer /\ ~sched.cool
    /\ IF sched.waits # {}
         THEN /\ sched' = [sched EXCEPT !.timer = FALSE, !.queued = TRUE]
              /\ UNCHANGED <<lists, hinted>>
         ELSE /\ sched' = [sched EXCEPT !.timer = FALSE, !.waits = Lists, !.cool = TRUE]
              /\ lists' = AllFetching /\ hinted' = FALSE
    /\ UNCHANGED <<world, serverUp, outages, feedOn, sock, hintSent>>

GapPasses ==
    /\ sched.cool /\ sched' = [sched EXCEPT !.cool = FALSE]
    /\ UNCHANGED <<world, serverUp, outages, feedOn, lists, sock, hintSent, hinted>>

-----------------------------------------------------------------------------
(* The socket.                                                             *)

SocketTo(st) ==
    /\ sock' = st /\ hintSent' = FALSE
    /\ UNCHANGED <<world, serverUp, outages, feedOn, lists, sched, hinted>>

SocketOpens  == sock = "connecting" /\ serverUp /\ SocketTo("open")
SocketRetries == sock = "waiting" /\ SocketTo("connecting")
\* onclose, onerror and a constructor that throws all lead to the backoff.
AfterClose == "waiting"
SocketBreaks == sock \in {"connecting", "open"} /\ SocketTo(AfterClose)

-----------------------------------------------------------------------------
(* The session and the server.                                             *)

FeedStarts ==
    /\ ~feedOn /\ feedOn' = TRUE
    /\ lists' = AllFetching /\ sock' = "connecting"
    /\ UNCHANGED <<world, serverUp, outages, sched, hintSent, hinted>>

\* Signing out cancels the queries and empties the cache; the effect's
\* cleanup cancels the scheduler, the retry and the socket.
FeedStops ==
    /\ feedOn /\ feedOn' = FALSE
    /\ lists' = [q \in Lists |-> BlankQuery] /\ sched' = NewScheduler
    /\ sock' = "none" /\ hintSent' = FALSE /\ hinted' = FALSE
    /\ UNCHANGED <<world, serverUp, outages>>

\* A change is broadcast; one of a phone's profile is in none of these lists.
FleetChanges ==
    /\ serverUp /\ world' \in {world, world + 1} \cap Version
    /\ hintSent' = (hintSent \/ sock = "open")
    /\ UNCHANGED <<serverUp, outages, feedOn, lists, sched, sock, hinted>>

GoesDown ==
    /\ serverUp /\ outages < MaxOutages
    /\ serverUp' = FALSE /\ outages' = outages + 1
    /\ UNCHANGED <<world, feedOn, lists, sched, sock, hintSent, hinted>>

ComesUp ==
    /\ ~serverUp /\ serverUp' = TRUE
    /\ UNCHANGED <<world, outages, feedOn, lists, sched, sock, hintSent, hinted>>

-----------------------------------------------------------------------------
FeedNext ==
    \/ \E q \in Lists : ServerAnswers(q) \/ ListArrives(q) \/ ListFails(q) \/ Poll(q)
    \/ Refresh \/ HintArrives \/ LoadStarts \/ GapPasses
    \/ SocketOpens \/ SocketRetries \/ SocketBreaks
    \/ FeedStarts \/ FeedStops \/ FleetChanges \/ GoesDown \/ ComesUp

FeedSpec == FeedInit /\ [][FeedNext]_feedVars

-----------------------------------------------------------------------------
(* Properties.                                                             *)

\* A hint is never lost between the throttle, the load under way and the one
\* queued behind it: until a load starts after it, one is going to
\* (createRefreshScheduler: at most one start per gap, but one).
HintKept == hinted => sched.timer \/ sched.queued

\* Outages, lost sockets and refreshes that cut off each other's fetches do
\* not leave a tab behind: it ends up with the fleet as it is, no error on
\* the banner, as long as the session lasts.
CatchesUp ==
    <>[]feedOn => <>[](\A q \in Lists : lists[q].data = world /\ ~lists[q].error)
=============================================================================
